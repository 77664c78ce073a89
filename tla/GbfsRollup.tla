------------------------------ MODULE GbfsRollup ------------------------------
(***************************************************************************)
(* gbfs_rollup_hourly (supabase/migrations): station x hour aggregates of  *)
(* the raw snapshots, and the seven-day retention of the raw snapshots,    *)
(* next to an ingestion that stores rows late.  What GbfsIngest does call  *)
(* by call is one step here: rows appear that were fetched at most Late    *)
(* hours ago.                                                              *)
(*                                                                         *)
(* Migration 02 schedules the function every hour.  Migration 03, the last *)
(* one, unschedules it and keeps it for who runs it by hand: so a run may  *)
(* come at any time, and any number of hours after the one before.         *)
(*                                                                         *)
(* The clock counts hours.  What happens inside an hour is nondeterminism: *)
(* a row's place in its hour is a Slot, and of the rows in the one hour    *)
(* that `now() - interval '7 days'` cuts through any part may go.          *)
(***************************************************************************)
EXTENDS Integers, FiniteSets, FiniteSetsExt

CONSTANTS
  Station,   \* stations that appear in the feed
  Slot,      \* the moments of an hour at which a snapshot may be fetched
  Bikes,     \* the inventory a station may report
  Window,    \* the completed hours a run aggregates: 26
  Retain,    \* the hours raw rows are kept: 7 * 24
  Late,      \* the age at which a response is ingested at most
  MaxTime,   \* bound: the clock
  MaxRows    \* bound: rows stored

ASSUME ConstantsAssumption ==
  /\ IsFiniteSet(Station)
  /\ Bikes \subseteq Nat
  /\ Window \in Nat /\ Retain \in Nat /\ Late \in Nat
  /\ MaxTime \in Nat /\ MaxRows \in Nat
  /\ Window < Retain /\ Late < Retain

VARIABLES
  now,       \* the current hour
  raw,       \* station_status_snapshots
  hourly,    \* station_status_hourly: <<station, hour>> -> aggregate
  ever,      \* every row ever stored (history)
  covered,   \* the hours a run covered (history)
  fresh      \* the rows whose hour no run has reached since they came (history)

vars == <<now, raw, hourly, ever, covered, fresh>>

Row == [station_id : Station, hour : Nat, slot : Slot, bikes : Bikes]

(* Mutant of Key: the columns swapped.                                     *)
KeySwapped(r) == <<r.hour, r.station_id>>

Key(r) == <<r.station_id, r.hour>>

(* The rows of a set that belong to one station and hour.                  *)
Group(S, k) == {r \in S : Key(r) = k}

(* bikes_mean is bikes_sum / n_obs; the docks and the renting share are    *)
(* aggregated alike and left out.                                          *)
Aggregate(S) ==
  [n_obs |-> Cardinality(S),
   bikes_sum |-> MapThenSumSet(LAMBDA r : r.bikes, S),
   bikes_min |-> Min({r.bikes : r \in S}),
   bikes_max |-> Max({r.bikes : r \in S})]

Init ==
  /\ now = 0
  /\ raw = {} /\ ever = {} /\ covered = {} /\ fresh = {}
  /\ hourly = [k \in {} |-> 0]

(* An ingest commits: one row per station of the payload, all with the     *)
(* fetched_at of the response; a (station_id, fetched_at) that is already  *)
(* there is left alone.                                                    *)
Store(hour, slot, bikes) ==
  LET rows == {r \in {[station_id |-> x, hour |-> hour, slot |-> slot,
                       bikes |-> bikes[x]] : x \in DOMAIN bikes} :
                 \A q \in raw : ~(Key(q) = Key(r) /\ q.slot = r.slot)}
  IN  /\ hour <= now /\ now - hour <= Late
      /\ Cardinality(ever \union rows) <= MaxRows
      /\ raw' = raw \union rows
      /\ ever' = ever \union rows
      /\ fresh' = fresh \union rows
      /\ UNCHANGED <<now, hourly, covered>>

(* Mutants of Windowed: one completed hour only; no lower bound.           *)
LastHourOnly == {r \in raw : r.hour = now - 1}

EveryCompletedHour == {r \in raw : r.hour < now}

(* fetched_at in the last Window completed hours.                          *)
Windowed == {r \in raw : r.hour < now /\ r.hour >= now - Window}

(* Mutant of Prunable: rows go while they may still be aggregated.         *)
PrunableEarly(D) ==
  /\ D \subseteq {r \in raw : r.hour <= now - Late}
  /\ {r \in raw : r.hour < now - Late} \subseteq D

(* The rows `fetched_at < now() - interval '7 days'` removes: every row of *)
(* an older hour, and of the hour the limit falls in those before it.      *)
Prunable(D) ==
  /\ D \subseteq {r \in raw : r.hour <= now - Retain}
  /\ {r \in raw : r.hour < now - Retain} \subseteq D

(* A run in hour t is there for the completed hours of the last Window.    *)
Reaches(t, hour) == hour < t /\ t <= hour + Window

(* It covers those of which no row can come any more.                      *)
Covers(t, hour) == hour + Late < t /\ Reaches(t, hour)

(* gbfs_rollup_hourly(): upsert the aggregates, then remove old raw rows.  *)
Rollup(D) ==
  /\ Prunable(D)
  /\ hourly' = [k \in DOMAIN hourly \union {Key(r) : r \in Windowed} |->
                  IF k \in {Key(r) : r \in Windowed}
                  THEN Aggregate(Group(Windowed, k))
                  ELSE hourly[k]]
  /\ raw' = raw \ D
  /\ covered' = covered \union {h \in 0..now : Covers(now, h)}
  /\ fresh' = {r \in fresh : ~Reaches(now, r.hour)}
  /\ UNCHANGED <<now, ever>>

(* The clock moves on; nothing schedules a run.                            *)
Tick ==
  /\ now < MaxTime
  /\ now' = now + 1
  /\ UNCHANGED <<raw, hourly, ever, covered, fresh>>

Next ==
  \/ \E hour \in (now - Late)..now, slot \in Slot, S \in SUBSET Station :
       hour >= 0 /\ \E bikes \in [S -> Bikes] : Store(hour, slot, bikes)
  \/ \E D \in SUBSET raw : Rollup(D)
  \/ Tick

Spec == Init /\ [][Next]_vars

-----------------------------------------------------------------------------
(* Properties                                                              *)

(* Raw and fresh rows are rows once stored, and the hourly table is keyed  *)
(* by station and hour.                                                    *)
TypeOK ==
  /\ now \in Nat /\ covered \subseteq Nat
  /\ ever \subseteq Row /\ raw \subseteq ever /\ fresh \subseteq ever
  /\ DOMAIN hourly \subseteq Station \X Nat

Exact(k) == k \in DOMAIN hourly /\ hourly[k] = Aggregate(Group(ever, k))

(* The hourly rollup is the permanent record (migration 02) of the hours   *)
(* that a run covered: their aggregate counts every row ever stored, and   *)
(* goes on doing so when the raw rows have been removed, whatever runs     *)
(* follow after whatever pause.  An hour that no run covered has no such   *)
(* record: the next run, after a pause longer than the window, removes its *)
(* rows uncounted.                                                         *)
PermanentRecord == \A r \in ever : r.hour \in covered => Exact(Key(r))

(* Where no run covered an hour the record lags by the rows that came too  *)
(* late for the last run that reached it, and by nothing else: an hour is  *)
(* exact, or one of its rows has not met a run that reaches its hour.      *)
ExactOrFresh ==
  \A r \in ever : Exact(Key(r)) \/ Group(fresh, Key(r)) # {}

(* A run never computes an hour again from rows that were partly removed:  *)
(* the number of observations behind an hour never goes down.              *)
NeverForgets ==
  [][\A k \in DOMAIN hourly :
       k \in DOMAIN hourly' /\ hourly'[k].n_obs >= hourly[k].n_obs]_vars
=============================================================================
