------------------------------ MODULE GbfsIngest ------------------------------
(***************************************************************************)
(* The GBFS ingestion that runs inside Postgres                            *)
(* (supabase/migrations): gbfs_request queues an HTTP fetch and logs it,   *)
(* pg_net performs the fetch after commit and stores the response for six  *)
(* hours, gbfs_ingest turns stored responses into typed rows.              *)
(*                                                                         *)
(* A call of gbfs_ingest is one transaction at READ COMMITTED: its cursor  *)
(* is read once when the loop opens, every later statement reads what is   *)
(* committed at that moment plus the call's own writes, a write waits for  *)
(* another transaction that holds the row, and nothing is visible to       *)
(* others before the commit.  The cron job and an operator may both be in  *)
(* such a call.                                                            *)
(*                                                                         *)
(* Time is kept as ages in units of the model's clock, so that it can pass *)
(* for ever in a finite model; `created` (pg_net's transaction time) is    *)
(* the number of the pg_net batch, since the responses of one batch share  *)
(* it and those of two batches do not.                                     *)
(***************************************************************************)
EXTENDS Naturals, FiniteSets, Sequences

CONSTANTS
  Feed,       \* the feeds that are requested
  Station,    \* the station ids the feeds mention
  Payload,    \* the bodies a fetch may bring back
  Session,    \* the database sessions that call gbfs_ingest
  Cron,       \* the session of the scheduled job, the only one sure to call
  Keep,       \* the six hours pg_net keeps a response and the log waits
  MaxLog,     \* bound: requests logged
  MaxFaults   \* bound: cancelled calls and database crashes

NoStamp == 0   \* SQL null in source_last_updated and fetched_at

(***************************************************************************)
(* "error": a non-200 answer, an error or a timeout; "not_json": a body    *)
(* the jsonb cast rejects; "unreadable": valid JSON on which a statement   *)
(* of the ingest raises (a cast that fails, a null name, one station twice *)
(* in station_information); "ok": everything else.                         *)
(***************************************************************************)
Body == [kind : {"ok", "error", "not_json", "unreadable"},
         last_updated : Nat, stations : SUBSET Station]

ASSUME ConstantsAssumption ==
  /\ Feed \subseteq {"station_status", "station_information"}
  /\ IsFiniteSet(Station)
  /\ Payload \subseteq Body
  /\ Cron \in Session
  /\ Keep \in Nat /\ MaxLog \in Nat /\ MaxFaults \in Nat

VARIABLES
  log,        \* gbfs_fetch_log, by id
  age,        \* by id: how long ago the request was made (requested_at)
  queue,      \* requests pg_net has not performed yet (external)
  resp,       \* net._http_response: request id -> response (external)
  batches,    \* pg_net batches so far (external)
  snapshots,  \* station_status_snapshots
  stations,   \* the station master: its ids and their updated_at
  tx,         \* by session: its call of gbfs_ingest and what it has written
  faults      \* faults so far (bound)

vars == <<log, age, queue, resp, batches, snapshots, stations, tx, faults>>

LogRow == [feed : Feed,
           state : {"pending", "ingested", "duplicate", "failed"},
           source_last_updated : Nat, fetched_at : Nat, n_rows : Nat,
           error : {"none", "response", "no response"}]

Snapshot == [station_id : Station, fetched_at : Nat, source_last_updated : Nat]

Master == [station_id : Station, updated_at : Nat]

Pending(f) == [feed |-> f, state |-> "pending", source_last_updated |-> NoStamp,
               fetched_at |-> NoStamp, n_rows |-> 0, error |-> "none"]

Nothing == [i \in {} |-> i]

Idle == [pc |-> "idle", cursor |-> Nothing, stale |-> {}, dup |-> FALSE,
         log |-> Nothing, snapshots |-> {}, stations |-> {}]

Init ==
  /\ log = <<>> /\ age = <<>>
  /\ queue = {} /\ resp = Nothing /\ batches = 0
  /\ snapshots = {} /\ stations = {}
  /\ tx = [s \in Session |-> Idle]
  /\ faults = 0

-----------------------------------------------------------------------------
(* gbfs_request, pg_net and the clock                                      *)

(* Mutant of Request: the fetch is queued, the log row is forgotten.       *)
RequestUnlogged(feed) ==
  /\ Len(log) < MaxLog
  /\ queue' = queue \union {Len(log) + 1}
  /\ UNCHANGED <<log, age, resp, batches, snapshots, stations, tx, faults>>

(* gbfs_request(feed): the log row and the queued fetch commit together.   *)
Request(feed) ==
  /\ Len(log) < MaxLog
  /\ log' = Append(log, Pending(feed))
  /\ age' = Append(age, 0)
  /\ queue' = queue \union {Len(log) + 1}
  /\ UNCHANGED <<resp, batches, snapshots, stations, tx, faults>>

(* One pg_net batch: its responses appear together and share `created`.    *)
Deliver(B, body) ==
  /\ B # {} /\ B \subseteq queue
  /\ queue' = queue \ B
  /\ batches' = batches + 1
  /\ resp' = [i \in DOMAIN resp \union B |->
                IF i \in B
                THEN [body |-> body[i], created |-> batches + 1, age |-> 0]
                ELSE resp[i]]
  /\ UNCHANGED <<log, age, snapshots, stations, tx, faults>>

(* pg_net removes a response it has kept for longer than six hours.        *)
Forget(i) ==
  /\ i \in DOMAIN resp /\ resp[i].age > Keep
  /\ resp' = [j \in DOMAIN resp \ {i} |-> resp[j]]
  /\ UNCHANGED <<log, age, queue, batches, snapshots, stations, tx, faults>>

Older(a) == IF a > Keep THEN a ELSE a + 1

Tick ==
  /\ age' = [i \in DOMAIN age |-> Older(age[i])]
  /\ resp' = [i \in DOMAIN resp |-> [resp[i] EXCEPT !.age = Older(@)]]
  /\ UNCHANGED <<log, queue, batches, snapshots, stations, tx, faults>>

-----------------------------------------------------------------------------
(* gbfs_ingest                                                             *)

(* What session s sees of the log: the committed rows under its own.       *)
Seen(s) == [i \in DOMAIN log |->
              IF i \in DOMAIN tx[s].log THEN tx[s].log[i] ELSE log[i]]

(* The loop's current row: `order by l.id`.                                *)
Current(s, i) ==
  /\ i \in DOMAIN tx[s].cursor
  /\ \A j \in DOMAIN tx[s].cursor : i <= j

BodyOf(s, i) == tx[s].cursor[i].body

FetchedAt(s, i) == tx[s].cursor[i].created

(* Whether the ingest of this row gets past its insert statement.          *)
Storable(s, i) ==
  /\ BodyOf(s, i).kind = "ok"
  /\ \/ log[i].feed = "station_information"
     \/ BodyOf(s, i).last_updated # NoStamp
     \/ BodyOf(s, i).stations = {}

StatusRows(s, i) ==
  {[station_id |-> x, fetched_at |-> FetchedAt(s, i),
    source_last_updated |-> BodyOf(s, i).last_updated] : x \in BodyOf(s, i).stations}

(* Mutant of MasterRows: stamped with the newest batch, not its own.       *)
MasterRowsOfNow(s, i) ==
  {[station_id |-> x, updated_at |-> batches] : x \in BodyOf(s, i).stations}

MasterRows(s, i) ==
  {[station_id |-> x, updated_at |-> FetchedAt(s, i)] : x \in BodyOf(s, i).stations}

SameKey(p, q) == p.station_id = q.station_id /\ p.fetched_at = q.fetched_at

(* `on conflict (station_id, fetched_at) do nothing`: the rows inserted.   *)
NewRows(s, i) ==
  {p \in StatusRows(s, i) : \A q \in snapshots \union tx[s].snapshots : ~SameKey(p, q)}

(* Mutants of Expired: no request expires; the state is the one of the     *)
(* call's beginning, not looked at again.                                  *)
NoneExpires(s) == {}

ExpiredAtBegin(s) == {i \in tx[s].stale : i \notin DOMAIN tx[s].log}

(* Requests still pending that were more than six hours old when the call  *)
(* began: now() is the start of the transaction.                           *)
Expired(s) == {i \in tx[s].stale : Seen(s)[i].state = "pending"}

(* The log rows, snapshot rows and master rows the next statement of s     *)
(* writes, and the sessions it has to wait for because they hold one.      *)
Claim(s) ==
  LET at == {i \in DOMAIN tx[s].cursor : Current(s, i)}
      storing == {i \in at : tx[s].pc = "found" /\ ~tx[s].dup /\ Storable(s, i)}
  IN  [log |-> IF at = {} THEN Expired(s) ELSE at,
       snapshots |-> UNION {StatusRows(s, i) :
                       i \in {j \in storing : log[j].feed = "station_status"}},
       stations |-> UNION {BodyOf(s, i).stations :
                      i \in {j \in storing : log[j].feed = "station_information"}}]

WaitsFor(s) ==
  {t \in Session \ {s} :
     /\ tx[s].pc # "idle"
     /\ \/ Claim(s).log \intersect DOMAIN tx[t].log # {}
        \/ \E p \in Claim(s).snapshots, q \in tx[t].snapshots : SameKey(p, q)
        \/ \E q \in tx[t].stations : q.station_id \in Claim(s).stations}

(* Mutant of Begin: the loop takes every row that has a response.          *)
BeginWithSettled(s) ==
  /\ tx[s].pc = "idle"
  /\ tx' = [tx EXCEPT ![s] =
              [Idle EXCEPT
                 !.pc = "loop",
                 !.cursor = [i \in DOMAIN log \intersect DOMAIN resp |-> resp[i]],
                 !.stale = {j \in DOMAIN log : age[j] > Keep}]]
  /\ UNCHANGED <<log, age, queue, resp, batches, snapshots, stations, faults>>

(* The loop opens: pending rows that have a response, and that response.   *)
Begin(s) ==
  /\ tx[s].pc = "idle"
  /\ tx' = [tx EXCEPT ![s] =
              [Idle EXCEPT
                 !.pc = "loop",
                 !.cursor = [i \in {j \in DOMAIN log : /\ log[j].state = "pending"
                                                       /\ j \in DOMAIN resp} |-> resp[i]],
                 !.stale = {j \in DOMAIN log : age[j] > Keep}]]
  /\ UNCHANGED <<log, age, queue, resp, batches, snapshots, stations, faults>>

(* The log update that ends one turn of the loop, with the rows the turn   *)
(* inserted or upserted before it.                                         *)
EndTurn(s, i, row, newSnapshots, newMasters) ==
  /\ WaitsFor(s) = {}
  /\ tx' = [tx EXCEPT ![s] =
       [tx[s] EXCEPT
          !.pc = "loop",
          !.cursor = [j \in DOMAIN tx[s].cursor \ {i} |-> tx[s].cursor[j]],
          !.log = [j \in DOMAIN tx[s].log \union {i} |->
                     IF j = i THEN row ELSE tx[s].log[j]],
          !.snapshots = tx[s].snapshots \union newSnapshots,
          !.stations = {m \in tx[s].stations : \A n \in newMasters : n.station_id # m.station_id}
                         \union newMasters]]
  /\ UNCHANGED <<log, age, queue, resp, batches, snapshots, stations, faults>>

(* No usable answer: a non-200, an error, a timeout or text that is not    *)
(* JSON.                                                                   *)
LogFailed(s, i) ==
  /\ tx[s].pc = "loop" /\ Current(s, i)
  /\ BodyOf(s, i).kind \in {"error", "not_json"}
  /\ EndTurn(s, i, [Seen(s)[i] EXCEPT !.state = "failed", !.error = "response",
                                      !.fetched_at = FetchedAt(s, i)], {}, {})

(* Mutants of LookUp: the call does not see its own rows; the feed is not  *)
(* compared.                                                               *)
LookUpCommitted(s, i) ==
  /\ tx[s].pc = "loop" /\ Current(s, i)
  /\ BodyOf(s, i).kind \in {"ok", "unreadable"}
  /\ tx' = [tx EXCEPT ![s].pc = "found",
                      ![s].dup = \E x \in DOMAIN log :
                        /\ log[x].feed = log[i].feed /\ log[x].state = "ingested"
                        /\ log[x].source_last_updated = BodyOf(s, i).last_updated
                        /\ BodyOf(s, i).last_updated # NoStamp]
  /\ UNCHANGED <<log, age, queue, resp, batches, snapshots, stations, faults>>

LookUpAnyFeed(s, i) ==
  /\ tx[s].pc = "loop" /\ Current(s, i)
  /\ BodyOf(s, i).kind \in {"ok", "unreadable"}
  /\ tx' = [tx EXCEPT ![s].pc = "found",
                      ![s].dup = \E x \in DOMAIN log :
                        /\ Seen(s)[x].state = "ingested"
                        /\ Seen(s)[x].source_last_updated = BodyOf(s, i).last_updated
                        /\ BodyOf(s, i).last_updated # NoStamp]
  /\ UNCHANGED <<log, age, queue, resp, batches, snapshots, stations, faults>>

(* `if exists (... state = 'ingested' and source_last_updated = ...)`: a   *)
(* statement of its own, answered before the writes that depend on it.     *)
LookUp(s, i) ==
  /\ tx[s].pc = "loop" /\ Current(s, i)
  /\ BodyOf(s, i).kind \in {"ok", "unreadable"}
  /\ tx' = [tx EXCEPT ![s] =
       [tx[s] EXCEPT
          !.pc = "found",
          !.dup = \E x \in DOMAIN log :
                    /\ Seen(s)[x].feed = log[i].feed
                    /\ Seen(s)[x].state = "ingested"
                    /\ Seen(s)[x].source_last_updated = BodyOf(s, i).last_updated
                    /\ BodyOf(s, i).last_updated # NoStamp]]
  /\ UNCHANGED <<log, age, queue, resp, batches, snapshots, stations, faults>>

LogDuplicate(s, i) ==
  /\ tx[s].pc = "found" /\ Current(s, i) /\ tx[s].dup
  /\ EndTurn(s, i, [Seen(s)[i] EXCEPT !.state = "duplicate", !.n_rows = 0,
                      !.fetched_at = FetchedAt(s, i),
                      !.source_last_updated = BodyOf(s, i).last_updated], {}, {})

Ingested(s, i, n) ==
  [Seen(s)[i] EXCEPT !.state = "ingested", !.n_rows = n,
                     !.fetched_at = FetchedAt(s, i),
                     !.source_last_updated = BodyOf(s, i).last_updated]

(* Mutant of StoreStatus: rows offered are counted, not rows inserted.     *)
StoreStatusMiscounted(s, i) ==
  /\ tx[s].pc = "found" /\ Current(s, i) /\ ~tx[s].dup /\ Storable(s, i)
  /\ log[i].feed = "station_status"
  /\ EndTurn(s, i, Ingested(s, i, Cardinality(StatusRows(s, i))), NewRows(s, i), {})

StoreStatus(s, i) ==
  /\ tx[s].pc = "found" /\ Current(s, i) /\ ~tx[s].dup /\ Storable(s, i)
  /\ log[i].feed = "station_status"
  /\ EndTurn(s, i, Ingested(s, i, Cardinality(NewRows(s, i))), NewRows(s, i), {})

StoreInformation(s, i) ==
  /\ tx[s].pc = "found" /\ Current(s, i) /\ ~tx[s].dup /\ Storable(s, i)
  /\ log[i].feed = "station_information"
  /\ EndTurn(s, i, Ingested(s, i, Cardinality(BodyOf(s, i).stations)), {}, MasterRows(s, i))

(* A statement raises: the whole call is rolled back, with every row of    *)
(* the batch.                                                              *)
Raise(s, i) ==
  /\ tx[s].pc = "found" /\ Current(s, i) /\ ~tx[s].dup /\ ~Storable(s, i)
  /\ tx' = [tx EXCEPT ![s] = Idle]
  /\ UNCHANGED <<log, age, queue, resp, batches, snapshots, stations, faults>>

(* After the loop the expired requests are failed, and the call commits.   *)
Finish(s) ==
  /\ tx[s].pc = "loop" /\ DOMAIN tx[s].cursor = {}
  /\ WaitsFor(s) = {}
  /\ log' = [i \in DOMAIN log |->
               IF i \in Expired(s)
               THEN [Seen(s)[i] EXCEPT !.state = "failed", !.error = "no response"]
               ELSE Seen(s)[i]]
  /\ snapshots' = snapshots \union tx[s].snapshots
  /\ stations' = {m \in stations : \A n \in tx[s].stations : n.station_id # m.station_id}
                   \union tx[s].stations
  /\ tx' = [tx EXCEPT ![s] = Idle]
  /\ UNCHANGED <<age, queue, resp, batches, faults>>

(* Two calls that wait for each other: Postgres rolls one of them back.    *)
DeadlockVictim(s) ==
  /\ \E t \in WaitsFor(s) : s \in WaitsFor(t)
  /\ tx' = [tx EXCEPT ![s] = Idle]
  /\ UNCHANGED <<log, age, queue, resp, batches, snapshots, stations, faults>>

(* A call is cancelled or loses its connection.                            *)
Cancel(s) ==
  /\ tx[s].pc # "idle" /\ faults < MaxFaults
  /\ tx' = [tx EXCEPT ![s] = Idle]
  /\ faults' = faults + 1
  /\ UNCHANGED <<log, age, queue, resp, batches, snapshots, stations>>

(* The database crashes and recovers: calls in progress are rolled back,   *)
(* and pg_net's tables, which are unlogged, come back empty.               *)
Crash ==
  /\ faults < MaxFaults
  /\ tx' = [s \in Session |-> Idle]
  /\ queue' = {} /\ resp' = Nothing
  /\ faults' = faults + 1
  /\ UNCHANGED <<log, age, batches, snapshots, stations>>

Step(s) ==
  \/ Finish(s)
  \/ \E i \in DOMAIN log :
       \/ LogFailed(s, i)
       \/ LookUp(s, i)
       \/ LogDuplicate(s, i)
       \/ StoreStatus(s, i)
       \/ StoreInformation(s, i)
       \/ Raise(s, i)

Next ==
  \/ \E feed \in Feed : Request(feed)
  \/ \E B \in SUBSET queue : \E body \in [B -> Payload] : Deliver(B, body)
  \/ \E i \in DOMAIN resp : Forget(i)
  \/ Tick
  \/ \E s \in Session : Begin(s) \/ Step(s) \/ DeadlockVictim(s) \/ Cancel(s)
  \/ Crash

Spec == Init /\ [][Next]_vars

(***************************************************************************)
(* Time passes, pg_net drops what it has kept too long, the scheduled job  *)
(* keeps calling, and a call that has begun goes on.  Nothing is promised  *)
(* of the network (Deliver) or of the operator's calls (Begin).            *)
(***************************************************************************)
Fairness ==
  /\ WF_vars(Tick)
  /\ \A i \in 1..MaxLog : WF_vars(Forget(i))
  /\ WF_vars(Begin(Cron))
  /\ \A s \in Session : WF_vars(Step(s)) /\ WF_vars(DeadlockVictim(s))

FairSpec == Spec /\ Fairness

-----------------------------------------------------------------------------
(* Properties                                                              *)

Response == [body : Payload, created : Nat, age : Nat]

(* c is a session's call, about requests of this set.                      *)
IsCall(c, requests) ==
  /\ DOMAIN c = DOMAIN Idle
  /\ c.pc \in {"idle", "loop", "found"} /\ c.dup \in BOOLEAN
  /\ DOMAIN c.cursor \subseteq requests
  /\ \A i \in DOMAIN c.cursor : c.cursor[i] \in Response
  /\ c.stale \subseteq requests
  /\ DOMAIN c.log \subseteq requests
  /\ \A i \in DOMAIN c.log : c.log[i] \in LogRow
  /\ c.snapshots \subseteq Snapshot /\ c.stations \subseteq Master

(* The tables hold rows of their declared types, and a call only ever      *)
(* works on requests that were logged.                                     *)
TypeOK ==
  /\ log \in Seq(LogRow) /\ Len(log) <= MaxLog
  /\ age \in [DOMAIN log -> 0..Keep + 1]
  /\ queue \subseteq DOMAIN log
  /\ DOMAIN resp \subseteq DOMAIN log
  /\ \A i \in DOMAIN resp : resp[i] \in Response
  /\ batches \in Nat /\ faults \in 0..MaxFaults
  /\ snapshots \subseteq Snapshot /\ stations \subseteq Master
  /\ DOMAIN tx = Session
  /\ \A s \in Session : IsCall(tx[s], DOMAIN log)

(* Idempotence on the feed's last_updated: one publication of a feed is    *)
(* ingested by one request at most, however often it is fetched, whatever  *)
(* calls fail and are repeated (README "re-running the ingest is           *)
(* idempotent").                                                           *)
OneIngestPerPublication ==
  \A i, j \in DOMAIN log :
    /\ log[i].state = "ingested" /\ log[j].state = "ingested"
    /\ log[i].feed = log[j].feed
    /\ log[i].source_last_updated = log[j].source_last_updated
    /\ log[i].source_last_updated # NoStamp
    => i = j

RowsOf(i) ==
  {p \in snapshots : /\ p.fetched_at = log[i].fetched_at
                     /\ p.source_last_updated = log[i].source_last_updated}

(* The audit agrees with the tables: every snapshot row was stored by a    *)
(* request logged as ingested, with its fetched_at and last_updated, and   *)
(* n_rows of that request counts exactly the rows it stored.               *)
SnapshotsAudited ==
  /\ \A p \in snapshots : \E i \in DOMAIN log :
       /\ log[i].feed = "station_status" /\ log[i].state = "ingested"
       /\ p \in RowsOf(i)
  /\ \A i \in DOMAIN log :
       log[i].feed = "station_status" /\ log[i].state = "ingested"
         => log[i].n_rows = Cardinality(RowsOf(i))

(* Every row of the station master was last written by a request logged as *)
(* an ingested station_information fetch.                                  *)
MasterAudited ==
  \A m \in stations : \E i \in DOMAIN log :
    /\ log[i].feed = "station_information" /\ log[i].state = "ingested"
    /\ log[i].fetched_at = m.updated_at

(* With several sessions: rows that were stored are never reported as      *)
(* failed or still pending.  The last update of a call looks at the state  *)
(* again after waiting, so it cannot fail what another call has stored.    *)
StoredNeverFailed ==
  \A p \in snapshots : \E i \in DOMAIN log :
    /\ log[i].feed = "station_status" /\ log[i].state \in {"ingested", "duplicate"}
    /\ p \in RowsOf(i)

(* pending -> ingested | duplicate | failed (the fetch audit of migration  *)
(* 01): a request that has an outcome keeps it, with its row count.        *)
OutcomeIsFinal ==
  [][\A i \in DOMAIN log : log[i].state # "pending" => log'[i] = log[i]]_vars

(* Every request gets an outcome, also when its response never comes, is   *)
(* lost in a crash, or makes every call that reads it raise: pg_net drops  *)
(* the response and the six hour limit closes the row.                     *)
EveryRequestResolved ==
  \A i \in 1..MaxLog :
    (i \in DOMAIN log) ~> (i \in DOMAIN log /\ log[i].state # "pending")

(* The ingestion implements the audit it promises: outcomes are given in   *)
(* one step, once, and agree with what is stored.                          *)
Audit == INSTANCE FetchAudit WITH
  outcome <- [i \in DOMAIN log |-> [feed |-> log[i].feed, state |-> log[i].state,
                                    published |-> log[i].source_last_updated]],
  stored <- {p.source_last_updated : p \in snapshots}

AuditSpec == Audit!Spec
=============================================================================
