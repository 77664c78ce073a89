--------------------------- MODULE GbfsRollupProofs ---------------------------
(***************************************************************************)
(* Whenever the rollup is run, and however long it is not: an hour that a  *)
(* run covered has an exact and permanent record, for any window, any      *)
(* retention and any number of rows; and a live inventory read next to it  *)
(* is one whole snapshot.                                                  *)
(***************************************************************************)
EXTENDS LiveInventory, SequenceTheorems, SortedSets

(* Rows are removed only when they are old.                                *)
RemovedLongAgo == \A r \in ever \ raw : r.hour <= now - Retain

(* No row comes for an hour that was covered, so none of it is fresh.      *)
CoveredIsClosed ==
  /\ \A h \in covered : h + Late < now
  /\ \A r \in fresh : r.hour \notin covered

(* The inductive invariant: PermanentRecord alone does not say that no row *)
(* of a covered hour is still to come, nor that a run of the window sees   *)
(* all its rows.                                                           *)
IInv ==
  /\ TypeOK
  /\ RemovedLongAgo
  /\ CoveredIsClosed
  /\ ExactOrFresh

-----------------------------------------------------------------------------
LEMMA KeyOfRow ==
  ASSUME NEW r \in Row, NEW q \in Row, Key(r) = Key(q)
  PROVE  r.hour = q.hour
BY DEF Row, Key

(* Rows added to a group are among the fresh ones, so a group that changes *)
(* is not claimed to be exact.                                             *)
LEMMA StoreKeepsIInv ==
  ASSUME IInv, NEW hour \in Nat, NEW slot \in Slot, NEW S \in SUBSET Station,
         NEW bikes \in [S -> Bikes], Store(hour, slot, bikes)
  PROVE  IInv'
<1> DEFINE all == {[station_id |-> x, hour |-> hour, slot |-> slot,
                    bikes |-> bikes[x]] : x \in DOMAIN bikes}
           added == {r \in all : \A q \in raw : ~(Key(q) = Key(r) /\ q.slot = r.slot)}
<1> USE ConstantsAssumption DEF IInv
<1>1. /\ hour <= now /\ now - hour <= Late
      /\ raw' = raw \union added
      /\ ever' = ever \union added
      /\ fresh' = fresh \union added
      /\ UNCHANGED <<now, hourly, covered>>
  BY DEF Store
<1>2. added \subseteq Row /\ \A r \in added : r.hour = hour
  BY DEF Row
<1> HIDE DEF added
<1>3. TypeOK'
  BY <1>1, <1>2 DEF TypeOK
<1>4. RemovedLongAgo'
  BY <1>1 DEF RemovedLongAgo
<1>5. CoveredIsClosed'
  <2>1. ASSUME NEW r \in fresh' PROVE r.hour \notin covered
    <3>1. CASE r \in fresh
      BY <3>1 DEF CoveredIsClosed
    <3>2. CASE r \in added
      BY <3>2, <1>1, <1>2 DEF CoveredIsClosed, TypeOK
    <3> QED BY <3>1, <3>2, <1>1
  <2> QED BY <2>1, <1>1 DEF CoveredIsClosed
<1>6. ExactOrFresh'
  <2> SUFFICES ASSUME NEW r \in ever', Group(fresh', Key(r)) = {}
               PROVE  Exact(Key(r))'
    BY <1>1 DEF ExactOrFresh, Group
  <2>1. Group(added, Key(r)) = {} /\ Group(fresh, Key(r)) = {}
    BY <1>1 DEF Group
  <2>2. r \in ever
    BY <2>1, <1>1 DEF Group
  <2>3. Exact(Key(r))
    BY <2>1, <2>2 DEF ExactOrFresh
  <2>4. Group(ever', Key(r)) = Group(ever, Key(r))
    BY <2>1, <1>1 DEF Group
  <2> QED BY <2>3, <2>4, <1>1 DEF Exact
<1> QED BY <1>3, <1>4, <1>5, <1>6

(* A run makes the window exact, because none of its rows is gone, and     *)
(* leaves the other hours as they were.                                    *)
LEMMA RollupKeepsIInv ==
  ASSUME IInv, NEW D \in SUBSET raw, Rollup(D)
  PROVE  IInv'
<1> USE ConstantsAssumption DEF IInv
<1>1. /\ raw' = raw \ D
      /\ covered' = covered \union {h \in 0..now : Covers(now, h)}
      /\ fresh' = {r \in fresh : ~Reaches(now, r.hour)}
      /\ UNCHANGED <<now, ever>>
      /\ \A r \in D : r.hour <= now - Retain
  BY DEF Rollup, Prunable
<1> DEFINE keys == {Key(r) : r \in Windowed}
<1>2. hourly' = [k \in DOMAIN hourly \union keys |->
                   IF k \in keys THEN Aggregate(Group(Windowed, k)) ELSE hourly[k]]
  BY DEF Rollup
<1>3. keys \subseteq Station \X Nat
  BY DEF Windowed, TypeOK, Row, Key
<1> HIDE DEF keys
<1>4. TypeOK'
  <2>1. TypeOK
    OBVIOUS
  <2>2. raw' \subseteq ever' /\ fresh' \subseteq ever' /\ ever' \subseteq Row /\ now' \in Nat
    BY <1>1, <2>1 DEF TypeOK
  <2>3. covered' \subseteq Nat
    <3>1. covered \subseteq Nat /\ now \in Nat
      BY <2>1 DEF TypeOK
    <3>2. \A h \in 0..now : h \in Nat
      BY <3>1
    <3> QED
      BY <1>1, <3>1, <3>2
  <2>4. DOMAIN hourly' \subseteq Station \X Nat
    <3>1. DOMAIN hourly' = DOMAIN hourly \union keys
      BY <1>2
    <3> QED
      BY <3>1, <1>3, <2>1 DEF TypeOK
  <2> QED
    BY <2>2, <2>3, <2>4 DEF TypeOK
<1>5. CoveredIsClosed'
  BY <1>1 DEF CoveredIsClosed, Covers, TypeOK
<1>6. RemovedLongAgo'
  <2> SUFFICES ASSUME NEW r \in ever \ (raw \ D) PROVE r.hour <= now - Retain
    BY <1>1 DEF RemovedLongAgo
  <2>1. r \in Row BY DEF TypeOK
  <2>2. CASE r \in D BY <2>2, <1>1
  <2>3. CASE r \notin D BY <2>1, <2>3 DEF RemovedLongAgo, TypeOK, Row
  <2> QED BY <2>2, <2>3
<1>7. ExactOrFresh'
  <2> SUFFICES ASSUME NEW r \in ever, Group(fresh', Key(r)) = {}
               PROVE  Exact(Key(r))'
    BY <1>1 DEF ExactOrFresh
  <2>1. r \in Row /\ ever \subseteq Row /\ r.hour \in Nat
    BY DEF TypeOK, Row
  <2>2. CASE Reaches(now, r.hour)
    <3>1. \A q \in ever : Key(q) = Key(r) => q \in Windowed
      <4> SUFFICES ASSUME NEW q \in ever, Key(q) = Key(r) PROVE q \in Windowed
        OBVIOUS
      <4>1. q.hour = r.hour BY KeyOfRow, <2>1
      <4>2. r.hour < now /\ r.hour >= now - Window
        BY <2>1, <2>2 DEF Reaches, TypeOK
      <4>3. q \in raw BY <4>1, <4>2, <2>1 DEF RemovedLongAgo, TypeOK
      <4> QED BY <4>1, <4>2, <4>3 DEF Windowed
    <3>2. Key(r) \in keys BY <3>1 DEF keys
    <3>3. Group(Windowed, Key(r)) = Group(ever, Key(r))
      BY <3>1 DEF Group, Windowed, TypeOK
    <3> QED BY <3>2, <3>3, <1>1, <1>2 DEF Exact
  <2>3. CASE ~Reaches(now, r.hour)
    <3>1. Group(fresh, Key(r)) = {}
      <4> SUFFICES ASSUME NEW q \in fresh, Key(q) = Key(r) PROVE FALSE
        BY DEF Group
      <4>1. q \in Row /\ q.hour = r.hour BY KeyOfRow, <2>1 DEF TypeOK
      <4>2. q \in fresh' BY <1>1, <2>3, <4>1
      <4> QED BY <4>2 DEF Group
    <3>2. Exact(Key(r))
      BY <3>1 DEF ExactOrFresh
    <3>3. Key(r) \notin keys
      <4> SUFFICES ASSUME NEW q \in Windowed, Key(q) = Key(r) PROVE FALSE
        BY DEF keys
      <4>1. q \in Row /\ q.hour < now /\ q.hour >= now - Window
        BY DEF Windowed, TypeOK
      <4>2. q.hour = r.hour BY <2>1, <4>1, KeyOfRow
      <4> QED BY <2>1, <2>3, <4>1, <4>2 DEF Reaches, TypeOK
    <3> QED BY <3>2, <3>3, <1>1, <1>2 DEF Exact
  <2> QED BY <2>2, <2>3
<1> QED BY <1>4, <1>5, <1>6, <1>7

LEMMA IInvInductive == IInv /\ [Next]_vars => IInv'
<1> SUFFICES ASSUME IInv, [Next]_vars PROVE IInv'
  OBVIOUS
<1>1. CASE \E hour \in (now - Late)..now, slot \in Slot, S \in SUBSET Station :
             hour >= 0 /\ \E bikes \in [S -> Bikes] : Store(hour, slot, bikes)
  <2>1. PICK hour \in (now - Late)..now, slot \in Slot, S \in SUBSET Station :
               hour >= 0 /\ \E bikes \in [S -> Bikes] : Store(hour, slot, bikes)
    BY <1>1
  <2>2. hour \in Nat BY <2>1, ConstantsAssumption DEF IInv, TypeOK
  <2> QED BY <2>1, <2>2, StoreKeepsIInv
<1>2. CASE \E D \in SUBSET raw : Rollup(D)
  BY <1>2, RollupKeepsIInv
<1>3. CASE Tick
  <2>1. /\ now' = now + 1 /\ now \in Nat
        /\ UNCHANGED <<raw, hourly, ever, covered, fresh>>
    BY <1>3 DEF Tick, IInv, TypeOK
  <2>2. TypeOK' /\ ExactOrFresh'
    BY <2>1 DEF IInv, TypeOK, ExactOrFresh, Exact, Group
  <2>3. RemovedLongAgo'
    <3> SUFFICES ASSUME NEW r \in ever' \ raw' PROVE r.hour <= now' - Retain
      BY DEF RemovedLongAgo
    <3>1. r \in Row
      BY <2>1 DEF IInv, TypeOK
    <3>2. r.hour \in Nat
      BY <3>1 DEF Row
    <3>3. r.hour <= now - Retain
      BY <2>1 DEF IInv, RemovedLongAgo
    <3> QED
      BY <3>2, <3>3, <2>1, ConstantsAssumption
  <2>4. CoveredIsClosed'
    <3>1. \A h \in covered : h \in Nat /\ h + Late < now
      BY DEF IInv, TypeOK, CoveredIsClosed
    <3>2. \A h \in covered : h + Late < now + 1
      BY <3>1, <2>1, ConstantsAssumption
    <3> QED
      BY <3>2, <2>1 DEF IInv, CoveredIsClosed
  <2> QED
    BY <2>2, <2>3, <2>4 DEF IInv
<1>4. CASE UNCHANGED vars
  BY <1>4 DEF vars, IInv, TypeOK, RemovedLongAgo, CoveredIsClosed, ExactOrFresh, Exact, Group
<1> QED BY <1>1, <1>2, <1>3, <1>4 DEF Next

LEMMA InitIInv == Init => IInv
BY ConstantsAssumption
DEF Init, IInv, TypeOK, RemovedLongAgo, CoveredIsClosed, ExactOrFresh

LEMMA IInvAlways == Spec => []IInv
BY InitIInv, IInvInductive, PTL DEF Spec

-----------------------------------------------------------------------------
(* Type correctness, for every value of the constants.                     *)
THEOREM TypeCorrect == Spec => []TypeOK
BY IInvAlways, PTL DEF IInv

(* An hour is exact in the hourly table, unless one of its rows came after *)
(* the last run that reached the hour: what readers of the table see       *)
(* between two runs, however far apart the runs are.                       *)
THEOREM HourlyIsCurrent == Spec => []ExactOrFresh
BY IInvAlways, PTL DEF IInv

(* An hour that a run covered, when no row of it could come any more and   *)
(* none was too old, is exact for good: also when gbfs_rollup_hourly has   *)
(* removed its raw rows.  Nothing is said of an hour that no run covered.  *)
THEOREM RecordIsPermanent == Spec => []PermanentRecord
<1>1. IInv => PermanentRecord
  <2> SUFFICES ASSUME IInv, NEW r \in ever, r.hour \in covered PROVE Exact(Key(r))
    BY DEF PermanentRecord
  <2>1. Group(fresh, Key(r)) = {}
    <3> SUFFICES ASSUME NEW q \in fresh, Key(q) = Key(r) PROVE FALSE
      BY DEF Group
    <3>1. q.hour = r.hour BY KeyOfRow DEF IInv, TypeOK
    <3> QED BY <3>1 DEF IInv, CoveredIsClosed
  <2> QED BY <2>1 DEF IInv, ExactOrFresh
<1> QED BY <1>1, IInvAlways, PTL

-----------------------------------------------------------------------------
(* For NeverForgets: no aggregate counts more rows than were ever stored   *)
(* for its hour.                                                           *)
CountsStoredRows ==
  /\ IsFiniteSet(ever)
  /\ \A k \in DOMAIN hourly :
       hourly[k].n_obs \in Nat /\ hourly[k].n_obs <= Cardinality(Group(ever, k))

LEMMA AggregateCounts == \A S : Aggregate(S).n_obs = Cardinality(S)
BY DEF Aggregate

LEMMA GroupIsFinite ==
  ASSUME NEW S, IsFiniteSet(S), NEW k
  PROVE  IsFiniteSet(Group(S, k)) /\ Cardinality(Group(S, k)) \in Nat
BY FS_Subset, FS_CardinalityType DEF Group

(* What a run computes for an hour of its window is the number of rows     *)
(* ever stored for it: none of them has been removed.                      *)
LEMMA WindowIsComplete ==
  ASSUME IInv, NEW k \in {Key(r) : r \in Windowed}
  PROVE  Group(Windowed, k) = Group(ever, k)
<1> USE ConstantsAssumption DEF IInv
<1>1. PICK r \in Windowed : k = Key(r) OBVIOUS
<1>2. r \in ever /\ r \in Row /\ ever \subseteq Row BY DEF Windowed, TypeOK
<1>3. \A q \in ever : Key(q) = k => q \in Windowed
  <2> SUFFICES ASSUME NEW q \in ever, Key(q) = k PROVE q \in Windowed
    OBVIOUS
  <2>1. q.hour = r.hour /\ q \in Row BY <1>1, <1>2, KeyOfRow
  <2>2. r.hour < now /\ r.hour >= now - Window BY DEF Windowed
  <2>3. q \in raw BY <2>1, <2>2 DEF RemovedLongAgo, TypeOK, Row
  <2> QED BY <2>1, <2>2, <2>3 DEF Windowed
<1> QED BY <1>3 DEF Group, Windowed, TypeOK

LEMMA CountsInductive ==
  ASSUME IInv, CountsStoredRows, [Next]_vars
  PROVE  CountsStoredRows' /\ (\A k \in DOMAIN hourly :
           k \in DOMAIN hourly' /\ hourly'[k].n_obs >= hourly[k].n_obs)
<1> USE DEF CountsStoredRows
<1>1. ASSUME NEW hour \in Nat, NEW slot \in Slot, NEW S \in SUBSET Station,
             NEW bikes \in [S -> Bikes], Store(hour, slot, bikes), IsFiniteSet(ever')
      PROVE  CountsStoredRows' /\ (\A k \in DOMAIN hourly :
               k \in DOMAIN hourly' /\ hourly'[k].n_obs >= hourly[k].n_obs)
  <2>1. ever \subseteq ever' /\ hourly' = hourly BY <1>1 DEF Store
  <2>2. \A k : Cardinality(Group(ever, k)) <= Cardinality(Group(ever', k))
    <3> TAKE k
    <3>1. Group(ever, k) \subseteq Group(ever', k) BY <2>1 DEF Group
    <3> QED BY <3>1, <1>1, GroupIsFinite, FS_Subset
  <2>3. \A k : Cardinality(Group(ever', k)) \in Nat /\ Cardinality(Group(ever, k)) \in Nat
    BY <1>1, GroupIsFinite
  <2> QED BY <2>1, <2>2, <2>3, <1>1
<1>2. ASSUME NEW D \in SUBSET raw, Rollup(D)
      PROVE  CountsStoredRows' /\ (\A k \in DOMAIN hourly :
               k \in DOMAIN hourly' /\ hourly'[k].n_obs >= hourly[k].n_obs)
  <2> DEFINE keys == {Key(r) : r \in Windowed}
  <2>1. hourly' = [k \in DOMAIN hourly \union keys |->
                     IF k \in keys THEN Aggregate(Group(Windowed, k)) ELSE hourly[k]]
        /\ ever' = ever
    BY <1>2 DEF Rollup
  <2>2. \A k \in keys : Aggregate(Group(Windowed, k)).n_obs = Cardinality(Group(ever, k))
    BY WindowIsComplete, AggregateCounts
  <2>3. \A k : Cardinality(Group(ever, k)) \in Nat
    BY GroupIsFinite
  <2> HIDE DEF keys
  <2>4. \A k \in DOMAIN hourly' : hourly'[k].n_obs =
          IF k \in keys THEN Cardinality(Group(ever, k)) ELSE hourly[k].n_obs
    BY <2>1, <2>2
  <2>5. DOMAIN hourly' = DOMAIN hourly \union keys
    BY <2>1
  <2>6. \A k \in DOMAIN hourly' :
          /\ hourly'[k].n_obs \in Nat
          /\ hourly'[k].n_obs <= Cardinality(Group(ever, k))
    BY <2>3, <2>4, <2>5
  <2>7. \A k \in DOMAIN hourly :
          k \in DOMAIN hourly' /\ hourly'[k].n_obs >= hourly[k].n_obs
    BY <2>3, <2>4, <2>5
  <2>8. CountsStoredRows'
    BY <2>1, <2>6 DEF Group
  <2> QED BY <2>7, <2>8
<1>3. CASE \E hour \in (now - Late)..now, slot \in Slot, S \in SUBSET Station :
             hour >= 0 /\ \E bikes \in [S -> Bikes] : Store(hour, slot, bikes)
  <2>1. PICK hour \in (now - Late)..now, slot \in Slot, S \in SUBSET Station :
               hour >= 0 /\ \E bikes \in [S -> Bikes] : Store(hour, slot, bikes)
    BY <1>3
  <2>2. PICK bikes \in [S -> Bikes] : Store(hour, slot, bikes)
    BY <2>1
  <2>3. hour \in Nat BY <2>1, ConstantsAssumption DEF IInv, TypeOK
  <2>4. IsFiniteSet(ever')
    <3>1. IsFiniteSet(S)
      BY ConstantsAssumption, FS_Subset
    <3> DEFINE all == {[station_id |-> x, hour |-> hour, slot |-> slot,
                        bikes |-> bikes[x]] : x \in DOMAIN bikes}
    <3> DEFINE row == [x \in S |-> [station_id |-> x, hour |-> hour, slot |-> slot,
                                    bikes |-> bikes[x]]]
    <3>2. row \in Surjection(S, all)
      <4>1. DOMAIN bikes = S OBVIOUS
      <4>2. \A x \in S : row[x] \in all BY <4>1
      <4>3. row \in [S -> all] BY <4>2
      <4>4. \A r \in all : \E x \in S : row[x] = r BY <4>1
      <4> HIDE DEF row, all
      <4> QED BY <4>3, <4>4 DEF Surjection
    <3> HIDE DEF row
    <3>3. IsFiniteSet(all)
      BY <3>1, <3>2, FS_Surjection
    <3>4. \E new \in SUBSET all : ever' = ever \union new
      BY <2>2 DEF Store
    <3> HIDE DEF all
    <3>5. PICK new \in SUBSET all : ever' = ever \union new
      BY <3>4
    <3>6. IsFiniteSet(new)
      BY <3>3, FS_Subset
    <3> QED BY <3>5, <3>6, FS_Union
  <2> QED BY <1>1, <2>2, <2>3, <2>4
<1>4. CASE \E D \in SUBSET raw : Rollup(D)
  BY <1>2, <1>4
<1>5. CASE Tick \/ UNCHANGED vars
  <2>1. hourly' = hourly /\ ever' = ever
    BY <1>5 DEF Tick, vars
  <2>2. \A k \in DOMAIN hourly : hourly[k].n_obs >= hourly[k].n_obs
    OBVIOUS
  <2> QED BY <2>1, <2>2 DEF Group
<1> QED BY <1>3, <1>4, <1>5 DEF Next

(* A run never computes an hour again from rows that were partly removed:  *)
(* an hourly row stays, and the observations it counts never get fewer.    *)
THEOREM HourlyNeverForgets == Spec => NeverForgets
<1>1. Init => CountsStoredRows
  BY FS_EmptySet DEF Init, CountsStoredRows
<1>2. IInv /\ CountsStoredRows /\ [Next]_vars => CountsStoredRows'
  BY CountsInductive
<1>3. IInv /\ CountsStoredRows /\ [Next]_vars =>
        [\A k \in DOMAIN hourly :
           k \in DOMAIN hourly' /\ hourly'[k].n_obs >= hourly[k].n_obs]_vars
  BY CountsInductive
<1> QED BY <1>1, <1>2, <1>3, IInvAlways, PTL DEF Spec, NeverForgets

-----------------------------------------------------------------------------
(* The live inventory: a reader next to the rollup.  What is proved of the *)
(* rollup holds with it, for it changes nothing there.                     *)
LEMMA ReaderBehindRollup == InventorySpec => Spec
<1>1. InventoryInit => Init
  BY DEF InventoryInit
<1>2. [InventoryNext]_<<vars, inventoryVars>> => [Next]_vars
  BY DEF InventoryNext
<1> QED BY <1>1, <1>2, PTL DEF InventorySpec, Spec

(* MAX_ROWS leaves room for the network.                                   *)
Fits == Cardinality(Station) <= ReadLimit

(* A (station_id, fetched_at) is one row.                                  *)
UniqueRows == \A r, q \in raw : Key(r) = Key(q) /\ r.slot = q.slot => r = q

(* Rows of one moment, a station's one at most.                            *)
Snapshot(S) ==
  /\ S \subseteq Row
  /\ \A r, q \in S : r.hour = q.hour /\ r.slot = q.slot
  /\ \A r, q \in S : r.station_id = q.station_id => r = q

(* The rows read so far are the first ones of the snapshot, and those of a *)
(* live answer are all, unless the view has changed; and none of them is   *)
(* older than what was asked for while that is still there.                *)
ReadInv ==
  /\ UniqueRows
  /\ rows \in Seq(Row) /\ reader \in {"idle", "reading", "live", "degraded"}
  /\ Snapshot(first) /\ first \subseteq ever
  /\ reader = "reading" /\ ~crossed =>
       /\ Len(rows) <= Cardinality(first)
       /\ \A i \in 1..Len(rows) : rows[i] = ByStation(first)[i]
  /\ reader = "live" /\ ~crossed => rows = ByStation(first)
  /\ reader \in {"reading", "live"} /\ first \subseteq raw =>
       \A i \in 1..Len(rows), q \in first : ~Earlier(rows[i], q)

LEMMA LatestIsSnapshot ==
  ASSUME TypeOK, UniqueRows
  PROVE  Snapshot(Latest) /\ Latest \subseteq raw /\ Latest \subseteq ever
<1>1. Latest \subseteq raw /\ raw \subseteq ever /\ ever \subseteq Row
  BY DEF Latest, TypeOK
<1>2. ASSUME NEW r \in Row PROVE r.hour \in Int /\ r.slot \in Int
  <2>1. r.hour \in Nat /\ r.slot \in Slot
    BY DEF Row
  <2>2. r.hour \in Int
    BY <2>1
  <2>3. r.slot \in Int
    BY <2>1, PagesAssumption
  <2> QED BY <2>2, <2>3
<1>3. ASSUME NEW r \in Latest, NEW q \in Latest PROVE r.hour = q.hour /\ r.slot = q.slot
  <2>1. ~Earlier(r, q) /\ ~Earlier(q, r)
    BY DEF Latest
  <2> QED BY <1>1, <1>2, <2>1 DEF Earlier
<1>4. ASSUME NEW r \in Latest, NEW q \in Latest, r.station_id = q.station_id PROVE r = q
  BY <1>1, <1>3, <1>4 DEF UniqueRows, Key
<1> QED BY <1>1, <1>3, <1>4 DEF Snapshot

(* A snapshot read in the order of its stations is read whole.             *)
LEMMA SnapshotSorted ==
  ASSUME NEW S, Snapshot(S)
  PROVE  /\ Cardinality(S) \in Nat /\ Cardinality(S) <= Cardinality(Station)
         /\ Cardinality(Station) \in Nat
         /\ ByStation(S) \in [1..Cardinality(S) -> S]
         /\ \A x \in S : \E i \in 1..Cardinality(S) : ByStation(S)[i] = x
<1> DEFINE R == {p \in Row \X Row : p[1].station_id < p[2].station_id}
           n == Cardinality(S)
<1>1. S \subseteq Row /\ \A r \in Row : r.station_id \in Station /\ r.station_id \in Int
  BY PagesAssumption DEF Snapshot, Row
<1>2. [r \in S |-> r.station_id] \in Injection(S, Station)
  BY <1>1 DEF Snapshot, Injection, IsInjective
<1>3. IsFiniteSet(S) /\ n <= Cardinality(Station)
  BY <1>2, ConstantsAssumption, FS_Injection
<1>4. n \in Nat /\ Cardinality(Station) \in Nat
  BY <1>3, ConstantsAssumption, FS_CardinalityType
<1>5. \A r, q \in S : <<r, q>> \in R <=> r.station_id < q.station_id
  BY <1>1
<1> HIDE DEF R
<1>6. Orders(R, S)
  <2>1. ASSUME NEW r \in S, NEW q \in S, r # q PROVE <<r, q>> \in R \/ <<q, r>> \in R
    <3>1. r.station_id # q.station_id
      BY <2>1 DEF Snapshot
    <3> QED BY <1>1, <1>5, <3>1
  <2>2. \A r \in S : <<r, r>> \notin R
    BY <1>1, <1>5
  <2>3. ASSUME NEW r \in S, NEW q \in S, NEW u \in S, <<r, q>> \in R, <<q, u>> \in R
        PROVE  <<r, u>> \in R
    BY <1>1, <1>5, <2>3
  <2> QED BY <2>1, <2>2, <2>3 DEF Orders
<1>7. PICK s : Follows(s, S, R)
  BY <1>3, <1>6, SortExists
<1>8. s \in [1..n -> S] /\ \A i, j \in DOMAIN s : i < j => s[i].station_id < s[j].station_id
  BY <1>5, <1>7 DEF Follows
<1>9. PICK t : t = ByStation(S)
  OBVIOUS
<1>10. t \in [1..n -> S] /\ \A i, j \in DOMAIN t : i < j => t[i].station_id < t[j].station_id
  BY <1>8, <1>9 DEF ByStation
<1>11. DOMAIN t = 1..n
  BY <1>10
<1>12. Follows(t, S, R)
  BY <1>5, <1>10, <1>11 DEF Follows
<1>13. \A x \in S : \E i \in DOMAIN t : t[i] = x
  BY <1>3, <1>6, <1>12, SortedHasAll
<1> QED BY <1>3, <1>4, <1>9, <1>10, <1>11, <1>13

(* A page: at most PageSize rows of the view, up to its end.               *)
LEMMA PageIs ==
  ASSUME TypeOK, UniqueRows, NEW start \in Nat
  PROVE  LET n == Cardinality(Latest)
             m == IF start + PageSize < n THEN start + PageSize ELSE n
             page == Page(start)
         IN  /\ n \in Nat /\ page \in Seq(Latest)
             /\ Len(page) = IF start <= m THEN m - start ELSE 0
             /\ \A i \in 1..Len(page) : page[i] = View[start + i]
<1> DEFINE n == Cardinality(Latest)
           m == IF start + PageSize < n THEN start + PageSize ELSE n
<1>1. n \in Nat /\ View \in [1..n -> Latest]
  BY LatestIsSnapshot, SnapshotSorted DEF View
<1>2. View \in Seq(Latest) /\ Len(View) = n
  BY <1>1
<1>3. PICK k \in Nat : k = m /\ k <= n
  BY <1>1, PagesAssumption
<1>4. Page(start) = SubSeq(View, start + 1, k)
  BY <1>2, <1>3 DEF Page
<1> HIDE DEF m, n
<1>5. \A i \in (start + 1)..k : View[i] \in Latest
  BY <1>1, <1>3
<1>6. start + 1 \in Int /\ k \in Int
  OBVIOUS
<1>7. /\ SubSeq(View, start + 1, k) \in Seq(Latest)
      /\ Len(SubSeq(View, start + 1, k)) = IF start + 1 <= k THEN k - (start + 1) + 1 ELSE 0
      /\ \A i \in 1..(k - (start + 1) + 1) :
           SubSeq(View, start + 1, k)[i] = View[start + 1 + i - 1]
  BY <1>5, <1>6, SubSeqProperties
<1>8. Len(Page(start)) = IF start <= k THEN k - start ELSE 0
  BY <1>4, <1>7
<1>9. ASSUME NEW i \in 1..Len(Page(start)) PROVE Page(start)[i] = View[start + i]
  <2>1. i \in 1..(k - (start + 1) + 1) /\ start + 1 + i - 1 = start + i
    BY <1>8, <1>9
  <2> QED BY <1>4, <1>7, <2>1
<1> QED BY <1>1, <1>3, <1>4, <1>7, <1>8, <1>9 DEF m, n

-----------------------------------------------------------------------------
LEMMA ReaderStarts == InventoryInit => ReadInv
<1> SUFFICES ASSUME InventoryInit PROVE ReadInv
  OBVIOUS
<1>1. raw = {} /\ reader = "idle" /\ rows = <<>> /\ first = {}
  BY DEF InventoryInit, Init
<1> QED BY <1>1 DEF ReadInv, UniqueRows, Snapshot

(* A row is stored once, and one that was removed is not stored again: it  *)
(* is older than any response that may still come.                         *)
LEMMA RollupBesideReader ==
  ASSUME IInv, ReadInv, [Next]_vars, UNCHANGED inventoryVars
  PROVE  ReadInv'
<1> USE DEF IInv
<1>1. UNCHANGED <<reader, rows, first, crossed>>
  BY DEF inventoryVars
<1>2. ASSUME UniqueRows', ever \subseteq ever', first \subseteq raw' => first \subseteq raw
      PROVE  ReadInv'
  BY <1>1, <1>2 DEF ReadInv
<1>3. ASSUME NEW hour \in Int, hour >= 0, NEW slot \in Slot, NEW S \in SUBSET Station,
             NEW bikes \in [S -> Bikes], Store(hour, slot, bikes)
      PROVE  ReadInv'
  <2> DEFINE all == {[station_id |-> x, hour |-> hour, slot |-> slot,
                      bikes |-> bikes[x]] : x \in DOMAIN bikes}
             new == {r \in all : \A q \in raw : ~(Key(q) = Key(r) /\ q.slot = r.slot)}
  <2>1. /\ hour <= now /\ now - hour <= Late /\ raw' = raw \union new /\ ever' = ever \union new
    BY <1>3 DEF Store
  <2>2. \A r \in new : /\ r.hour = hour
                       /\ \A q \in raw : ~(Key(q) = Key(r) /\ q.slot = r.slot)
    OBVIOUS
  <2>3. \A r, q \in new : Key(r) = Key(q) => r = q
    BY DEF Key
  <2> HIDE DEF new
  <2>4. UniqueRows'
    BY <2>1, <2>2, <2>3 DEF ReadInv, UniqueRows
  <2>5. ASSUME NEW r \in first, r \in new PROVE r \in raw
    <3>1. r \in ever /\ r.hour = hour
      BY <2>2, <2>5 DEF ReadInv
    <3>2. CASE r \in ever \ raw
      <4>1. hour <= now - Retain
        BY <3>1, <3>2 DEF RemovedLongAgo
      <4> QED
        BY <1>3, <2>1, <4>1, ConstantsAssumption DEF TypeOK
    <3> QED BY <3>1, <3>2
  <2>6. first \subseteq raw' => first \subseteq raw
    BY <2>1, <2>5
  <2> QED BY <1>2, <2>1, <2>4, <2>6
<1>4. ASSUME NEW D \in SUBSET raw, Rollup(D) PROVE ReadInv'
  <2>1. raw' \subseteq raw /\ ever' = ever
    BY <1>4 DEF Rollup
  <2> QED BY <1>2, <2>1 DEF ReadInv, UniqueRows
<1>5. CASE Tick \/ UNCHANGED vars
  <2>1. raw' = raw /\ ever' = ever
    BY <1>5 DEF Tick, vars
  <2> QED BY <1>2, <2>1 DEF ReadInv, UniqueRows
<1>6. CASE Next
  <2>1. CASE \E hour \in (now - Late)..now, slot \in Slot, S \in SUBSET Station :
               hour >= 0 /\ \E bikes \in [S -> Bikes] : Store(hour, slot, bikes)
    <3>1. PICK hour \in (now - Late)..now, slot \in Slot, S \in SUBSET Station :
                 hour >= 0 /\ \E bikes \in [S -> Bikes] : Store(hour, slot, bikes)
      BY <2>1
    <3>2. PICK bikes \in [S -> Bikes] : Store(hour, slot, bikes)
      BY <3>1
    <3>3. hour \in Int /\ hour >= 0
      BY <3>1, ConstantsAssumption DEF TypeOK
    <3> QED BY <1>3, <3>2, <3>3
  <2> QED BY <1>4, <1>5, <1>6, <2>1 DEF Next
<1> QED BY <1>5, <1>6

(* A request begins.                                                       *)
LEMMA BeginReads ==
  ASSUME TypeOK, ReadInv, Begin, UNCHANGED vars
  PROVE  ReadInv'
<1>1. /\ reader' \in {"reading", "degraded"} /\ rows' = <<>> /\ first' = Latest
      /\ UNCHANGED <<raw, ever>>
  BY DEF Begin, vars
<1>2. Snapshot(Latest) /\ Latest \subseteq ever /\ Cardinality(Latest) \in Nat
  BY LatestIsSnapshot, SnapshotSorted DEF ReadInv
<1>3. Len(<<>>) = 0 /\ <<>> \in Seq(Row) /\ 1..0 = {}
  OBVIOUS
<1>4. UniqueRows'
  BY <1>1 DEF ReadInv, UniqueRows
<1> QED BY <1>1, <1>2, <1>3, <1>4 DEF ReadInv

(* A request fails: nothing is shown.                                      *)
LEMMA FailReads ==
  ASSUME ReadInv, Fail, UNCHANGED vars
  PROVE  ReadInv'
<1>1. reader' = "degraded" /\ rows' = <<>> /\ UNCHANGED <<first, raw, ever>>
  BY DEF Fail, vars
<1> QED BY <1>1 DEF ReadInv, UniqueRows

(* A page is read.  If the view is still that of the first page, so is the *)
(* page; the last one is short, or the limit is reached, which no snapshot *)
(* exceeds.                                                                *)
LEMMA NextPageReads ==
  ASSUME TypeOK, Fits, ReadInv, NextPage, UNCHANGED vars
  PROVE  ReadInv'
<1> DEFINE k == Len(rows)
           n == Cardinality(Latest)
           page == Page(k)
           m == IF k + PageSize < n THEN k + PageSize ELSE n
<1>1. /\ reader = "reading" /\ rows' = rows \o page /\ reader' = Answered(rows', page)
      /\ crossed' = (crossed \/ Latest # first)
      /\ UNCHANGED <<first, raw, ever>>
  BY DEF NextPage, vars
<1>2. Snapshot(Latest) /\ Latest \subseteq raw /\ Latest \subseteq Row
  BY LatestIsSnapshot DEF ReadInv, Snapshot
<1>3. rows \in Seq(Row) /\ k \in Nat
  BY DEF ReadInv
<1>4. /\ n \in Nat /\ page \in Seq(Latest)
      /\ Len(page) = IF k <= m THEN m - k ELSE 0
      /\ \A i \in 1..Len(page) : page[i] = View[k + i]
  BY <1>3, PageIs DEF ReadInv
<1>5. page \in Seq(Row) /\ Len(page) \in Nat /\ \A i \in 1..Len(page) : page[i] \in Latest
  BY <1>2, <1>4
<1>6. PICK p \in Nat : p = Len(page)
  BY <1>5
<1>7. PICK q : q = page
  OBVIOUS
<1> HIDE DEF page
<1>8. /\ rows' \in Seq(Row) /\ Len(rows') = k + p
      /\ \A i \in 1..(k + p) : rows'[i] = IF i <= k THEN rows[i] ELSE page[i - k]
  BY <1>1, <1>3, <1>5, <1>6, ConcatProperties
<1>9. reader' \in {"reading", "live", "degraded"}
  BY <1>1 DEF Answered
<1>10. UniqueRows'
  BY <1>1 DEF ReadInv, UniqueRows
<1>11. ASSUME NEW i \in 1..(k + p), i > k
       PROVE  i - k \in 1..p /\ page[i - k] \in Latest /\ page[i - k] = View[i]
  <2>1. i - k \in 1..p /\ k + (i - k) = i
    BY <1>3, <1>11
  <2> QED BY <1>4, <1>5, <1>6, <2>1
<1>12. ASSUME first \subseteq raw, NEW i \in 1..Len(rows'), NEW f \in first
       PROVE  ~Earlier(rows'[i], f)
  <2>1. CASE i <= k
    <3>1. i \in 1..k /\ rows'[i] = rows[i]
      BY <1>3, <1>8, <2>1
    <3> QED BY <1>1, <1>12, <3>1 DEF ReadInv
  <2>2. CASE i > k
    <3>1. rows'[i] \in Latest
      BY <1>3, <1>8, <1>11, <2>2
    <3> QED BY <1>12, <3>1 DEF Latest
  <2> QED BY <1>3, <1>8, <2>1, <2>2
<1>13. ASSUME ~crossed'
       PROVE  /\ Len(rows') = m /\ k <= m /\ m <= n
              /\ \A i \in 1..m : rows'[i] = ByStation(first)[i]
              /\ Latest = first
  <2>1. ~crossed /\ Latest = first
    BY <1>1, <1>13
  <2>2. k <= n /\ \A i \in 1..k : rows[i] = ByStation(first)[i]
    BY <1>1, <2>1 DEF ReadInv
  <2>3. k <= m /\ m <= n /\ m \in Nat
    BY <1>3, <1>4, <2>2, PagesAssumption
  <2> HIDE DEF m
  <2>4. k + p = m
    BY <1>3, <1>4, <1>6, <2>3
  <2>5. ASSUME NEW i \in 1..m PROVE rows'[i] = ByStation(first)[i]
    <3>1. CASE i <= k
      BY <1>3, <1>8, <2>2, <2>4, <3>1
    <3>2. CASE i > k
      BY <1>3, <1>8, <1>11, <2>1, <2>4, <3>2 DEF View
    <3> QED BY <1>3, <3>1, <3>2
  <2> QED BY <1>8, <2>1, <2>3, <2>4, <2>5
<1>14. ASSUME ~crossed', reader' = "live"
       PROVE  rows' = ByStation(first)
  <2>1. n <= Cardinality(Station) /\ Cardinality(Station) \in Nat
        /\ ByStation(Latest) \in [1..n -> Latest]
    BY <1>2, SnapshotSorted
  <2>2. ~(p = PageSize /\ k + p < ReadLimit)
    BY <1>1, <1>6, <1>8, <1>14 DEF Answered
  <2>3. k + p = m /\ m <= n
    BY <1>8, <1>13, <1>14
  <2>4. k + p = n
    BY <1>3, <1>4, <2>1, <2>2, <2>3, PagesAssumption DEF Fits
  <2>5. Len(rows') = n /\ \A i \in 1..n : rows'[i] = ByStation(first)[i] /\ Latest = first
    BY <1>8, <1>13, <1>14, <2>3, <2>4
  <2>6. DOMAIN rows' = 1..n /\ DOMAIN ByStation(first) = 1..n
    BY <1>8, <2>1, <2>5, <1>13, <1>14
  <2>7. rows' = [i \in 1..n |-> rows'[i]]
    <3>1. \A s \in Seq(Row) : s \in [1..Len(s) -> Row]
      OBVIOUS
    <3>2. rows' \in [1..n -> Row]
      BY <1>8, <2>5, <3>1
    <3> QED BY <3>2
  <2>8. ByStation(first) = [i \in 1..n |-> ByStation(first)[i]]
    BY <1>13, <1>14, <2>1
  <2> QED BY <2>5, <2>7, <2>8
<1>15. ASSUME ~crossed'
       PROVE  /\ Len(rows') <= Cardinality(first)
              /\ \A i \in 1..Len(rows') : rows'[i] = ByStation(first)[i]
  BY <1>13, <1>15
<1> QED
  BY <1>1, <1>8, <1>9, <1>10, <1>12, <1>14, <1>15 DEF ReadInv

LEMMA ReadersKeep ==
  ASSUME IInv, Fits, ReadInv, [InventoryNext]_<<vars, inventoryVars>>
  PROVE  ReadInv'
<1>1. TypeOK
  BY DEF IInv
<1> QED
  BY <1>1, RollupBesideReader, BeginReads, FailReads, NextPageReads DEF InventoryNext

LEMMA ReadAnswers == ReadInv => LiveAnswer
<1> SUFFICES ASSUME ReadInv, reader = "live" PROVE LiveAnswer
  BY DEF LiveAnswer, WholeUnlessCrossed, NeverBackwards
<1>1. rows \in Seq(Row) /\ Snapshot(first) /\ ToSet(rows) = {rows[i] : i \in 1..Len(rows)}
  BY DEF ReadInv, ToSet
<1>2. ASSUME ~crossed
      PROVE  /\ ToSet(rows) = first /\ Len(rows) = Cardinality(first)
             /\ \A r, q \in ToSet(rows) : r.hour = q.hour /\ r.slot = q.slot
  <2>1. rows = ByStation(first)
    BY <1>2 DEF ReadInv
  <2>2. /\ Cardinality(first) \in Nat
        /\ ByStation(first) \in [1..Cardinality(first) -> first]
        /\ \A x \in first : \E i \in 1..Cardinality(first) : ByStation(first)[i] = x
    BY <1>1, SnapshotSorted
  <2>3. Len(rows) = Cardinality(first)
    BY <2>1, <2>2
  <2>4. ToSet(rows) = first
    BY <1>1, <2>1, <2>2, <2>3
  <2> QED BY <1>1, <2>3, <2>4 DEF Snapshot
<1>3. ASSUME first \subseteq raw, NEW r \in ToSet(rows), NEW q \in first
      PROVE  ~Earlier(r, q)
  BY <1>1, <1>3 DEF ReadInv
<1> QED BY <1>2, <1>3 DEF LiveAnswer, WholeUnlessCrossed, NeverBackwards

(* An answer labelled "live" is one whole snapshot unless an ingest or a   *)
(* prune committed between two of its pages, and never older than what it  *)
(* was asked for: for any number of stations up to MAX_ROWS, any page size *)
(* and any interleaving (live_inventory.fetch_rows).                       *)
THEOREM LiveAnswersAreWhole ==
  ASSUME Fits PROVE InventorySpec => []LiveAnswer
<1>1. InventoryInit => ReadInv
  BY ReaderStarts
<1>2. IInv /\ ReadInv /\ [InventoryNext]_<<vars, inventoryVars>> => ReadInv'
  BY ReadersKeep
<1>3. ReadInv => LiveAnswer
  BY ReadAnswers
<1> QED BY <1>1, <1>2, <1>3, ReaderBehindRollup, IInvAlways, PTL DEF InventorySpec
=============================================================================
