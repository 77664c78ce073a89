---------------------------- MODULE LiveInventory ----------------------------
(***************************************************************************)
(* GET /v2/live/inventory (src/services/api/live_inventory.py) over the    *)
(* view live_inventory_latest (supabase/migrations): the rows of the       *)
(* newest snapshot, read page by page in requests of their own, while      *)
(* GbfsRollup's ingests and prunes commit in between.                      *)
(***************************************************************************)
EXTENDS GbfsRollup, Sequences, SequencesExt

CONSTANTS
  PageSize,   \* PAGE
  ReadLimit,  \* MAX_ROWS
  MaxReads    \* bound: requests answered

ASSUME PagesAssumption ==
  /\ PageSize \in Nat \ {0} /\ ReadLimit \in Nat \ {0} /\ MaxReads \in Nat
  /\ Station \subseteq Int /\ Slot \subseteq Int

VARIABLES
  reader,   \* "idle", "reading", "live" or "degraded"
  rows,     \* the rows read so far
  first,    \* what the view showed when the first page was read (history)
  crossed,  \* the view changed between two pages (history)
  reads     \* requests begun

inventoryVars == <<reader, rows, first, crossed, reads>>

Earlier(r, q) == r.hour < q.hour \/ (r.hour = q.hour /\ r.slot < q.slot)

(* Mutant of Latest: every station's own newest row.                       *)
LatestPerStation ==
  {r \in raw : \A q \in raw : q.station_id = r.station_id => ~Earlier(r, q)}

(* live_inventory_latest: the rows with the largest fetched_at of all.     *)
Latest == {r \in raw : \A q \in raw : ~Earlier(r, q)}

(* order=station_id.asc                                                    *)
ByStation(S) ==
  CHOOSE s \in [1..Cardinality(S) -> S] :
    \A i, j \in DOMAIN s : i < j => s[i].station_id < s[j].station_id

View == ByStation(Latest)

(* Range: from row `start` on, a page at most.                             *)
Page(start) ==
  SubSeq(View, start + 1,
         IF start + PageSize < Len(View) THEN start + PageSize ELSE Len(View))

InventoryInit ==
  /\ Init
  /\ reader = "idle" /\ rows = <<>> /\ first = {} /\ crossed = FALSE /\ reads = 0

(* A request begins; nothing is configured, or the first page is asked for.*)
Begin ==
  /\ reader # "reading" /\ reads < MaxReads
  /\ reader' \in {"reading", "degraded"}
  /\ rows' = <<>> /\ first' = Latest /\ crossed' = FALSE
  /\ reads' = reads + 1

(* Mutant of Answered: only the first page is asked for.                   *)
AnsweredFirst(all, page) ==
  IF all = <<>> THEN "degraded" ELSE "live"

(* A short page ends the loop, and so does the row limit; without a row    *)
(* the answer is degraded.                                                 *)
Answered(all, page) ==
  IF Len(page) = PageSize /\ Len(all) < ReadLimit THEN "reading"
  ELSE IF all = <<>> THEN "degraded" ELSE "live"

NextPage ==
  /\ reader = "reading"
  /\ rows' = rows \o Page(Len(rows))
  /\ reader' = Answered(rows', Page(Len(rows)))
  /\ crossed' = (crossed \/ Latest # first)
  /\ UNCHANGED <<first, reads>>

(* An HTTP error or a payload that is no list: nothing is shown of it.     *)
Fail ==
  /\ reader = "reading"
  /\ reader' = "degraded" /\ rows' = <<>>
  /\ UNCHANGED <<first, crossed, reads>>

InventoryNext ==
  \/ Next /\ UNCHANGED inventoryVars
  \/ Begin /\ UNCHANGED vars
  \/ NextPage /\ UNCHANGED vars
  \/ Fail /\ UNCHANGED vars

InventorySpec == InventoryInit /\ [][InventoryNext]_<<vars, inventoryVars>>

-----------------------------------------------------------------------------
(* Properties                                                              *)

(* The totals of an answer count every station of one snapshot once: a     *)
(* live answer is the snapshot the view showed, whole, unless an ingest or *)
(* a prune committed between two of its pages.                             *)
WholeUnlessCrossed ==
  reader = "live" /\ ~crossed =>
    /\ ToSet(rows) = first /\ Len(rows) = Cardinality(first)
    /\ \A r, q \in ToSet(rows) : r.hour = q.hour /\ r.slot = q.slot

(* A live answer never shows data older than what it was asked for: each   *)
(* row is of the snapshot the view showed when the request began, or of a  *)
(* newer one.  Only a prune of the newest snapshot can take it back.       *)
NeverBackwards ==
  reader = "live" /\ first \subseteq raw =>
    \A r \in ToSet(rows), q \in first : ~Earlier(r, q)

(* What an answer labelled "live" promises of its totals and its age.      *)
LiveAnswer == WholeUnlessCrossed /\ NeverBackwards
=============================================================================
