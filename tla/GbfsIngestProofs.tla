--------------------------- MODULE GbfsIngestProofs ---------------------------
(***************************************************************************)
(* Theorems about GbfsIngest.  Type correctness, and that stored rows are  *)
(* never reported as failed, hold for any number of sessions.  That an     *)
(* outcome is final, that a publication is ingested once, that the audit   *)
(* agrees with the tables and that the ingestion implements FetchAudit     *)
(* hold while a single session calls gbfs_ingest (OneCaller), which is     *)
(* what the cron job alone does.                                           *)
(*                                                                         *)
(* Three inductive invariants carry them.  IInv is about the call in       *)
(* progress: what it has in hand or has written is still pending in the    *)
(* committed log (Unsettled), so nobody settles a request a second time;   *)
(* the log as the call sees it, its own rows included, has one ingest per  *)
(* publication (SeenOnce); and the answer of the last look-up still holds  *)
(* when the row it was asked for is stored (LookedUp).  CInv is about any  *)
(* number of calls: every trace of a request speaks of the one answer it   *)
(* got.  AInv says that log and tables agree, as committed and as the call *)
(* sees them.                                                              *)
(***************************************************************************)
EXTENDS GbfsIngest, SequenceTheorems, FiniteSetTheorems, TLAPS

OneCaller == Session = {Cron}

Unsettled(s) ==
  /\ \A i \in DOMAIN tx[s].cursor : i \notin DOMAIN tx[s].log /\ log[i].state = "pending"
  /\ \A i \in DOMAIN tx[s].log :
       /\ log[i].state = "pending"
       /\ tx[s].log[i].state # "pending"
       /\ tx[s].log[i].feed = log[i].feed

(* Row r of the log records an ingest of publication u of a feed.          *)
IngestOf(r, feed, u) ==
  r.feed = feed /\ r.state = "ingested" /\ r.source_last_updated = u /\ u # NoStamp

SeenOnce(s) ==
  \A i, j \in DOMAIN log :
    IngestOf(Seen(s)[i], Seen(s)[j].feed, Seen(s)[j].source_last_updated)
      /\ Seen(s)[j].state = "ingested" => i = j

LookedUp(s) ==
  tx[s].pc = "found" /\ ~tx[s].dup =>
    \A i \in DOMAIN log : Current(s, i) =>
      \A x \in DOMAIN log :
        ~IngestOf(Seen(s)[x], log[i].feed, BodyOf(s, i).last_updated)

IInv == \A s \in Session : Unsettled(s) /\ SeenOnce(s) /\ LookedUp(s)

-----------------------------------------------------------------------------
(* Type correctness                                                        *)

(* A log whose rows are replaced in place is still a log.                  *)
LEMMA LogOf ==
  ASSUME NEW S, NEW f, NEW n \in Nat, f \in [1..n -> S]
  PROVE  f \in Seq(S) /\ Len(f) = n
BY SeqDef, LenProperties

LEMMA LogShape ==
  ASSUME TypeOK
  PROVE  /\ Len(log) \in Nat /\ DOMAIN log = 1..Len(log)
         /\ \A i \in DOMAIN log : log[i] \in LogRow
BY LenProperties, ElementOfSeq DEF TypeOK

LEMMA IdleIsCall == \A R : IsCall(Idle, R)
BY DEF IsCall, Idle, Nothing

(* A call stays one while the log only grows.                              *)
LEMMA CallSurvives ==
  ASSUME TypeOK, tx' = tx, DOMAIN log \subseteq DOMAIN log'
  PROVE  \A s \in Session : IsCall(tx'[s], DOMAIN log')
BY DEF TypeOK, IsCall

LEMMA SeenIsLog ==
  ASSUME TypeOK, NEW s \in Session
  PROVE  /\ DOMAIN Seen(s) = DOMAIN log
         /\ \A i \in DOMAIN log : Seen(s)[i] \in LogRow
BY LogShape DEF TypeOK, IsCall, Seen

LEMMA RequestType ==
  ASSUME TypeOK, NEW feed \in Feed, Request(feed)
  PROVE  TypeOK'
<1> USE ConstantsAssumption
<1>1. Pending(feed) \in LogRow
  BY DEF Pending, LogRow, NoStamp
<1>2. log' \in Seq(LogRow) /\ Len(log') = Len(log) + 1 /\ Len(log) \in Nat
      /\ DOMAIN log' = 1..(Len(log) + 1)
  BY <1>1, AppendProperties, LenProperties DEF TypeOK, Request
<1>3. DOMAIN log \subseteq DOMAIN log' /\ DOMAIN log = 1..Len(log)
  BY <1>2, LogShape
<1>4. age' \in [DOMAIN log' -> 0..Keep + 1]
  <2>1. age \in Seq(0..Keep + 1) /\ Len(age) = Len(log)
    BY LogOf, <1>2, <1>3 DEF TypeOK
  <2>2. 0 \in 0..Keep + 1 OBVIOUS
  <2>3. age' \in Seq(0..Keep + 1) /\ Len(age') = Len(log) + 1
    BY <2>1, <2>2, AppendProperties DEF Request
  <2> QED BY <1>2, <2>3, LenProperties
<1>5. \A s \in Session : IsCall(tx'[s], DOMAIN log')
  BY <1>3, CallSurvives DEF Request
<1>6. queue' \subseteq DOMAIN log' /\ DOMAIN resp \subseteq DOMAIN log'
  BY <1>2, <1>3 DEF TypeOK, Request
<1>7. Len(log') <= MaxLog
  BY <1>2 DEF Request
<1> QED BY <1>2, <1>4, <1>5, <1>6, <1>7 DEF TypeOK, Request

(* Everything that leaves the log and the calls alone.                     *)
LEMMA OutsideType ==
  ASSUME TypeOK,
         \/ \E B \in SUBSET queue : \E body \in [B -> Payload] : Deliver(B, body)
         \/ \E i \in DOMAIN resp : Forget(i)
         \/ Tick
  PROVE  TypeOK'
<1>1. log' = log /\ tx' = tx /\ faults' = faults /\ snapshots' = snapshots /\ stations' = stations
  BY DEF Deliver, Forget, Tick
<1>2. \A s \in Session : IsCall(tx'[s], DOMAIN log')
  BY <1>1, CallSurvives
<1>3. CASE \E B \in SUBSET queue : \E body \in [B -> Payload] : Deliver(B, body)
  <2>1. PICK B \in SUBSET queue : \E body \in [B -> Payload] : Deliver(B, body)
    BY <1>3
  <2>2. PICK body \in [B -> Payload] : Deliver(B, body)
    BY <2>1
  <2>3. DOMAIN resp' = DOMAIN resp \union B
    BY <2>2 DEF Deliver
  <2>4. \A i \in DOMAIN resp' : resp'[i] \in Response
    <3>1. ASSUME NEW i \in B PROVE resp'[i] \in Response
      <4>1. resp'[i] = [body |-> body[i], created |-> batches + 1, age |-> 0]
        BY <2>2 DEF Deliver
      <4> QED BY <4>1 DEF Response, TypeOK
    <3>2. ASSUME NEW i \in DOMAIN resp \ B PROVE resp'[i] \in Response
      BY <2>2 DEF Deliver, TypeOK
    <3> QED BY <2>3, <3>1, <3>2
  <2>5. queue' \subseteq DOMAIN log /\ DOMAIN resp' \subseteq DOMAIN log
    BY <2>2, <2>3 DEF Deliver, TypeOK
  <2>6. batches' \in Nat /\ age' = age
    BY <2>2 DEF Deliver, TypeOK
  <2> QED BY <1>1, <1>2, <2>4, <2>5, <2>6 DEF TypeOK
<1>4. CASE \E i \in DOMAIN resp : Forget(i)
  BY <1>1, <1>2, <1>4 DEF Forget, TypeOK
<1>5. CASE Tick
  <2> USE ConstantsAssumption
  <2>1. \A a \in 0..Keep + 1 : Older(a) \in 0..Keep + 1
    BY DEF Older
  <2>2. age' \in [DOMAIN log -> 0..Keep + 1]
    BY <1>5, <2>1 DEF Tick, TypeOK
  <2>3. \A a \in Nat : Older(a) \in Nat
    BY DEF Older
  <2>4. DOMAIN resp' = DOMAIN resp
    BY <1>5 DEF Tick
  <2>5. ASSUME NEW i \in DOMAIN resp PROVE resp'[i] \in Response
    <3>1. resp[i] \in Response BY DEF TypeOK
    <3>2. resp'[i] = [resp[i] EXCEPT !.age = Older(resp[i].age)]
      BY <1>5 DEF Tick
    <3> QED BY <3>1, <3>2, <2>3 DEF Response
  <2> QED BY <1>1, <1>2, <1>5, <2>2, <2>4, <2>5 DEF Tick, TypeOK
<1> QED BY <1>3, <1>4, <1>5

(* A step inside a call changes that call alone.                           *)
LEMMA CallType ==
  ASSUME TypeOK, NEW s \in Session, NEW c, tx' = [tx EXCEPT ![s] = c],
         IsCall(c, DOMAIN log),
         UNCHANGED <<log, age, queue, resp, batches, snapshots, stations>>,
         faults' \in 0..MaxFaults
  PROVE  TypeOK'
<1>1. DOMAIN tx' = Session /\ \A t \in Session : IsCall(tx'[t], DOMAIN log')
  BY DEF TypeOK
<1> QED BY <1>1 DEF TypeOK

LEMMA BeginType ==
  ASSUME TypeOK, NEW s \in Session, Begin(s)
  PROVE  TypeOK'
<1> DEFINE cursor == [i \in {j \in DOMAIN log : log[j].state = "pending" /\ j \in DOMAIN resp}
                        |-> resp[i]]
           stale == {j \in DOMAIN log : age[j] > Keep}
           c == [Idle EXCEPT !.pc = "loop", !.cursor = cursor, !.stale = stale]
<1>1. DOMAIN cursor \subseteq DOMAIN log /\ \A i \in DOMAIN cursor : cursor[i] \in Response
  BY DEF TypeOK
<1>2. stale \subseteq DOMAIN log
  OBVIOUS
<1>3. tx' = [tx EXCEPT ![s] = c] /\ UNCHANGED <<log, age, queue, resp, batches, snapshots, stations, faults>>
  BY DEF Begin
<1>4. IsCall(c, DOMAIN log)
  <2> HIDE DEF cursor, stale
  <2> QED BY <1>1, <1>2 DEF Idle, Nothing, IsCall
<1> HIDE DEF c
<1> QED BY <1>3, <1>4, CallType DEF TypeOK

LEMMA LookUpType ==
  ASSUME TypeOK, NEW s \in Session, NEW i \in DOMAIN log, LookUp(s, i)
  PROVE  TypeOK'
<1>1. PICK b \in BOOLEAN : tx' = [tx EXCEPT ![s] = [tx[s] EXCEPT !.pc = "found", !.dup = b]]
  BY DEF LookUp
<1>2. IsCall([tx[s] EXCEPT !.pc = "found", !.dup = b], DOMAIN log)
  BY DEF TypeOK, IsCall, Idle
<1> QED BY <1>1, <1>2, CallType DEF LookUp, TypeOK

LEMMA EndTurnType ==
  ASSUME TypeOK, NEW s \in Session, NEW i \in DOMAIN log, NEW row \in LogRow,
         NEW p \in SUBSET Snapshot, NEW m \in SUBSET Master,
         EndTurn(s, i, row, p, m)
  PROVE  TypeOK'
<1> DEFINE cursor == [j \in DOMAIN tx[s].cursor \ {i} |-> tx[s].cursor[j]]
           rows == [j \in DOMAIN tx[s].log \union {i} |-> IF j = i THEN row ELSE tx[s].log[j]]
           masters == {x \in tx[s].stations : \A n \in m : n.station_id # x.station_id} \union m
           c == [tx[s] EXCEPT !.pc = "loop", !.cursor = cursor, !.log = rows,
                              !.snapshots = tx[s].snapshots \union p, !.stations = masters]
<1>1. IsCall(tx[s], DOMAIN log)
  BY DEF TypeOK
<1>2. DOMAIN cursor \subseteq DOMAIN log /\ \A j \in DOMAIN cursor : cursor[j] \in Response
  BY <1>1 DEF IsCall
<1>3. DOMAIN rows \subseteq DOMAIN log /\ \A j \in DOMAIN rows : rows[j] \in LogRow
  BY <1>1 DEF IsCall
<1>4. masters \subseteq Master /\ tx[s].snapshots \union p \subseteq Snapshot
  BY <1>1 DEF IsCall
<1>5. tx' = [tx EXCEPT ![s] = c] /\ UNCHANGED <<log, age, queue, resp, batches, snapshots, stations, faults>>
  BY DEF EndTurn
<1>6. IsCall(c, DOMAIN log)
  <2> HIDE DEF cursor, rows, masters
  <2> QED BY <1>1, <1>2, <1>3, <1>4 DEF Idle, IsCall
<1> HIDE DEF c
<1> QED BY <1>5, <1>6, CallType DEF TypeOK

(* A payload brings at most one snapshot row per station.                  *)
LEMMA FewRows ==
  ASSUME NEW s, NEW i, IsFiniteSet(BodyOf(s, i).stations)
  PROVE  Cardinality(NewRows(s, i)) \in Nat
<1> DEFINE row == [x \in BodyOf(s, i).stations |->
                     [station_id |-> x, fetched_at |-> FetchedAt(s, i),
                      source_last_updated |-> BodyOf(s, i).last_updated]]
<1>1. row \in Surjection(BodyOf(s, i).stations, StatusRows(s, i))
  <2>1. \A x \in BodyOf(s, i).stations : row[x] \in StatusRows(s, i)
    BY DEF StatusRows
  <2>2. \A r \in StatusRows(s, i) : \E x \in BodyOf(s, i).stations : row[x] = r
    BY DEF StatusRows
  <2>3. row = [x \in BodyOf(s, i).stations |-> row[x]]
    OBVIOUS
  <2> HIDE DEF row
  <2>4. row \in [BodyOf(s, i).stations -> StatusRows(s, i)]
    BY <2>1, <2>3
  <2> QED BY <2>2, <2>4 DEF Surjection
<1> HIDE DEF row
<1>2. IsFiniteSet(StatusRows(s, i))
  BY <1>1, FS_Surjection
<1>3. NewRows(s, i) \subseteq StatusRows(s, i)
  BY DEF NewRows
<1> QED BY <1>2, <1>3, FS_Subset, FS_CardinalityType

LEMMA TurnType ==
  ASSUME TypeOK, NEW s \in Session, NEW i \in DOMAIN log,
         \/ LogFailed(s, i) \/ LogDuplicate(s, i)
         \/ StoreStatus(s, i) \/ StoreInformation(s, i)
  PROVE  TypeOK'
<1>1. i \in DOMAIN tx[s].cursor
  BY DEF LogFailed, LogDuplicate, StoreStatus, StoreInformation, Current
<1>2. FetchedAt(s, i) \in Nat /\ BodyOf(s, i) \in Body
  BY <1>1, ConstantsAssumption DEF TypeOK, IsCall, Response, FetchedAt, BodyOf
<1>3. Seen(s)[i] \in LogRow
  BY SeenIsLog
<1>4. BodyOf(s, i).last_updated \in Nat /\ BodyOf(s, i).stations \subseteq Station
      /\ IsFiniteSet(BodyOf(s, i).stations)
  BY <1>2, ConstantsAssumption, FS_Subset DEF Body
<1>5. StatusRows(s, i) \subseteq Snapshot /\ NewRows(s, i) \subseteq Snapshot
      /\ MasterRows(s, i) \subseteq Master
  BY <1>2, <1>4 DEF StatusRows, NewRows, MasterRows, Snapshot, Master
<1>6. CASE LogFailed(s, i)
  <2> DEFINE row == [Seen(s)[i] EXCEPT !.state = "failed", !.error = "response",
                                       !.fetched_at = FetchedAt(s, i)]
  <2>1. row \in LogRow BY <1>2, <1>3 DEF LogRow
  <2>2. EndTurn(s, i, row, {}, {}) BY <1>6 DEF LogFailed
  <2> QED BY <2>1, <2>2, EndTurnType
<1>7. CASE LogDuplicate(s, i)
  <2> DEFINE row == [Seen(s)[i] EXCEPT !.state = "duplicate", !.n_rows = 0,
                       !.fetched_at = FetchedAt(s, i),
                       !.source_last_updated = BodyOf(s, i).last_updated]
  <2>1. row \in LogRow BY <1>2, <1>3, <1>4 DEF LogRow
  <2>2. EndTurn(s, i, row, {}, {}) BY <1>7 DEF LogDuplicate
  <2> QED BY <2>1, <2>2, EndTurnType
<1>8. ASSUME NEW n \in Nat PROVE Ingested(s, i, n) \in LogRow
  BY <1>2, <1>3, <1>4 DEF Ingested, LogRow
<1>9. CASE StoreStatus(s, i)
  <2>1. Cardinality(NewRows(s, i)) \in Nat
    BY <1>4, FewRows
  <2> QED BY <1>5, <1>8, <1>9, <2>1, EndTurnType DEF StoreStatus
<1>10. CASE StoreInformation(s, i)
  <2>1. Cardinality(BodyOf(s, i).stations) \in Nat
    BY <1>4, FS_CardinalityType
  <2> QED BY <1>5, <1>8, <1>10, <2>1, EndTurnType DEF StoreInformation
<1> QED BY <1>6, <1>7, <1>9, <1>10

LEMMA FinishType ==
  ASSUME TypeOK, NEW s \in Session, Finish(s)
  PROVE  TypeOK'
<1>1. IsCall(tx[s], DOMAIN log)
  BY DEF TypeOK
<1>2. Len(log) \in Nat /\ DOMAIN log = 1..Len(log) /\ \A i \in DOMAIN log : Seen(s)[i] \in LogRow
  BY LogShape, SeenIsLog
<1>3. log' \in [1..Len(log) -> LogRow]
  <2>1. \A i \in DOMAIN log :
          [Seen(s)[i] EXCEPT !.state = "failed", !.error = "no response"] \in LogRow
    BY <1>2 DEF LogRow
  <2> QED BY <1>2, <2>1 DEF Finish
<1>4. log' \in Seq(LogRow) /\ Len(log') = Len(log) /\ DOMAIN log' = DOMAIN log
  BY <1>2, <1>3, LogOf
<1>5. snapshots' \subseteq Snapshot /\ stations' \subseteq Master
  BY <1>1 DEF Finish, TypeOK, IsCall
<1>6. tx' = [tx EXCEPT ![s] = Idle]
  BY DEF Finish
<1>7. DOMAIN tx' = Session /\ \A t \in Session : IsCall(tx'[t], DOMAIN log')
  BY <1>4, <1>6, IdleIsCall DEF TypeOK
<1> QED BY <1>4, <1>5, <1>7 DEF Finish, TypeOK

(* A call that is rolled back leaves nothing behind.                       *)
LEMMA RollbackType ==
  ASSUME TypeOK, NEW s \in Session,
         \/ \E i \in DOMAIN log : Raise(s, i)
         \/ DeadlockVictim(s)
         \/ Cancel(s)
  PROVE  TypeOK'
<1>1. /\ tx' = [tx EXCEPT ![s] = Idle]
      /\ UNCHANGED <<log, age, queue, resp, batches, snapshots, stations>>
  BY DEF Raise, DeadlockVictim, Cancel
<1>2. faults' \in 0..MaxFaults
  BY ConstantsAssumption DEF Raise, DeadlockVictim, Cancel, TypeOK
<1> QED BY <1>1, <1>2, IdleIsCall, CallType

LEMMA CrashType ==
  ASSUME TypeOK, Crash
  PROVE  TypeOK'
<1>1. DOMAIN tx' = Session /\ \A s \in Session : IsCall(tx'[s], DOMAIN log')
  BY IdleIsCall DEF Crash
<1>2. faults' \in 0..MaxFaults
  BY ConstantsAssumption DEF Crash, TypeOK
<1>3. queue' = {} /\ DOMAIN resp' = {}
  BY DEF Crash, Nothing
<1> QED BY <1>1, <1>2, <1>3 DEF Crash, TypeOK

LEMMA InitType == Init => TypeOK
<1> SUFFICES ASSUME Init PROVE TypeOK
  OBVIOUS
<1>1. log \in Seq(LogRow) /\ Len(log) = 0 /\ DOMAIN log = {}
  BY EmptySeq, LenProperties DEF Init
<1>2. DOMAIN tx = Session /\ \A s \in Session : IsCall(tx[s], DOMAIN log)
  BY IdleIsCall DEF Init
<1>3. age \in [DOMAIN log -> 0..Keep + 1] /\ DOMAIN resp = {}
  BY <1>1 DEF Init, Nothing
<1> QED BY <1>1, <1>2, <1>3, ConstantsAssumption DEF Init, TypeOK

(* The tables hold rows of their declared types, for any number of         *)
(* sessions, stations, payloads and requests.                              *)
THEOREM TypeCorrect == Spec => []TypeOK
<1>1. TypeOK /\ [Next]_vars => TypeOK'
  <2> SUFFICES ASSUME TypeOK, [Next]_vars PROVE TypeOK'
    OBVIOUS
  <2>1. CASE \E feed \in Feed : Request(feed)
    BY <2>1, RequestType
  <2>2. CASE \/ \E B \in SUBSET queue : \E body \in [B -> Payload] : Deliver(B, body)
             \/ \E i \in DOMAIN resp : Forget(i)
             \/ Tick
    BY <2>2, OutsideType
  <2>3. ASSUME NEW s \in Session, Begin(s) \/ Step(s) \/ DeadlockVictim(s) \/ Cancel(s)
        PROVE  TypeOK'
    <3>1. CASE Begin(s) BY <3>1, BeginType
    <3>2. CASE Finish(s) BY <3>2, FinishType
    <3>3. ASSUME NEW i \in DOMAIN log, LookUp(s, i) PROVE TypeOK'
      BY <3>3, LookUpType
    <3>4. ASSUME NEW i \in DOMAIN log,
                 \/ LogFailed(s, i) \/ LogDuplicate(s, i)
                 \/ StoreStatus(s, i) \/ StoreInformation(s, i)
          PROVE  TypeOK'
      BY <3>4, TurnType
    <3>5. CASE (\E i \in DOMAIN log : Raise(s, i)) \/ DeadlockVictim(s) \/ Cancel(s)
      BY <3>5, RollbackType
    <3> QED BY <2>3, <3>1, <3>2, <3>3, <3>4, <3>5 DEF Step
  <2>4. CASE Crash
    BY <2>4, CrashType
  <2>5. CASE UNCHANGED vars
    BY <2>5, CallSurvives DEF vars, TypeOK
  <2> QED BY <2>1, <2>2, <2>3, <2>4, <2>5 DEF Next
<1> QED BY <1>1, InitType, PTL DEF Spec

-----------------------------------------------------------------------------
(* One caller                                                              *)

(* What the committed log says follows from what the call sees of it: the  *)
(* rows the call has rewritten are the pending ones.                       *)
LEMMA OnceCommitted == IInv => OneIngestPerPublication
<1> SUFFICES ASSUME IInv, NEW i \in DOMAIN log, NEW j \in DOMAIN log,
                    log[i].state = "ingested", log[j].state = "ingested",
                    log[i].feed = log[j].feed,
                    log[i].source_last_updated = log[j].source_last_updated,
                    log[i].source_last_updated # NoStamp
             PROVE  i = j
  BY DEF OneIngestPerPublication
<1>1. Cron \in Session BY ConstantsAssumption
<1>2. Unsettled(Cron) /\ SeenOnce(Cron) BY <1>1 DEF IInv
<1>3. i \notin DOMAIN tx[Cron].log /\ j \notin DOMAIN tx[Cron].log BY <1>2 DEF Unsettled
<1>4. Seen(Cron)[i] = log[i] /\ Seen(Cron)[j] = log[j] BY <1>3 DEF Seen
<1> QED BY <1>2, <1>4 DEF SeenOnce, IngestOf

(* A call that has written nothing yet sees the committed log.             *)
LEMMA NothingWritten ==
  ASSUME OneIngestPerPublication',
         \A s \in Session :
           /\ DOMAIN tx'[s].log = {} /\ tx'[s].pc # "found"
           /\ \A i \in DOMAIN tx'[s].cursor : log'[i].state = "pending"
  PROVE  IInv'
<1> SUFFICES ASSUME NEW s \in Session PROVE (Unsettled(s) /\ SeenOnce(s) /\ LookedUp(s))'
  BY DEF IInv
<1>1. Unsettled(s)' BY DEF Unsettled
<1>2. LookedUp(s)' BY DEF LookedUp
<1>3. Seen(s)' = [i \in DOMAIN log' |-> log'[i]] BY DEF Seen
<1>4. SeenOnce(s)' BY <1>3 DEF SeenOnce, IngestOf, OneIngestPerPublication
<1> QED BY <1>1, <1>2, <1>4

LEMMA BeginKeeps ==
  ASSUME OneCaller, TypeOK, IInv, NEW s \in Session, Begin(s)
  PROVE  IInv'
<1>1. log' = log /\ OneIngestPerPublication'
  BY OnceCommitted DEF Begin, OneIngestPerPublication
<1>2. tx'[s].pc = "loop" /\ DOMAIN tx'[s].log = {}
      /\ DOMAIN tx'[s].cursor = {j \in DOMAIN log : log[j].state = "pending" /\ j \in DOMAIN resp}
  BY DEF Begin, Idle, Nothing, TypeOK
<1>3. \A t \in Session : t = s BY DEF OneCaller
<1> QED BY <1>1, <1>2, <1>3, NothingWritten

LEMMA LookUpKeeps ==
  ASSUME OneCaller, TypeOK, IInv, NEW s \in Session, NEW i \in DOMAIN log, LookUp(s, i)
  PROVE  IInv'
<1>1. \A t \in Session : t = s BY DEF OneCaller
<1>2. IsCall(tx[s], DOMAIN log) /\ Unsettled(s) /\ SeenOnce(s)
  BY DEF TypeOK, IInv
<1>3. log' = log /\ tx'[s].cursor = tx[s].cursor /\ tx'[s].log = tx[s].log
  BY <1>2 DEF LookUp, TypeOK, IsCall, Idle
<1>4. Seen(s)' = Seen(s) /\ Unsettled(s)' /\ SeenOnce(s)'
  BY <1>2, <1>3 DEF Seen, Unsettled, SeenOnce
<1>5. tx'[s].dup = \E x \in DOMAIN log :
                     IngestOf(Seen(s)[x], log[i].feed, BodyOf(s, i).last_updated)
  <2>1. tx'[s].dup = \E x \in DOMAIN log :
                    /\ Seen(s)[x].feed = log[i].feed
                    /\ Seen(s)[x].state = "ingested"
                    /\ Seen(s)[x].source_last_updated = BodyOf(s, i).last_updated
                    /\ BodyOf(s, i).last_updated # NoStamp
    BY <1>2 DEF LookUp, TypeOK, IsCall, Idle
  <2> QED BY <2>1 DEF IngestOf
<1>6. \A j \in DOMAIN log : Current(s, j)' => j = i
  <2> SUFFICES ASSUME NEW j \in DOMAIN log, Current(s, j)' PROVE j = i
    OBVIOUS
  <2>1. i <= j /\ j <= i BY <1>3 DEF Current, LookUp
  <2> QED BY <2>1, LogShape
<1>7. LookedUp(s)'
  BY <1>3, <1>4, <1>5, <1>6 DEF LookedUp, BodyOf
<1> QED BY <1>1, <1>4, <1>7 DEF IInv

(* The end of a turn: an ingest is written only for a publication that the *)
(* call sees no ingest of.                                                 *)
LEMMA EndTurnKeeps ==
  ASSUME OneCaller, TypeOK, IInv, NEW s \in Session, NEW i \in DOMAIN log,
         i \in DOMAIN tx[s].cursor,
         NEW row \in LogRow, row.feed = log[i].feed, row.state # "pending",
         row.state = "ingested" => \A x \in DOMAIN log :
           ~IngestOf(Seen(s)[x], log[i].feed, row.source_last_updated),
         NEW p, NEW m, EndTurn(s, i, row, p, m)
  PROVE  IInv'
<1>1. \A t \in Session : t = s BY DEF OneCaller
<1>2. IsCall(tx[s], DOMAIN log) /\ Unsettled(s) /\ SeenOnce(s)
  BY DEF TypeOK, IInv
<1>3. /\ log' = log /\ tx'[s].pc = "loop"
      /\ DOMAIN tx'[s].cursor = DOMAIN tx[s].cursor \ {i}
      /\ tx'[s].log = [j \in DOMAIN tx[s].log \union {i} |-> IF j = i THEN row ELSE tx[s].log[j]]
  BY <1>2 DEF EndTurn, TypeOK, IsCall, Idle
<1>4. Unsettled(s)'
  BY <1>2, <1>3 DEF Unsettled
<1>5. \A j \in DOMAIN log : Seen(s)'[j] = IF j = i THEN row ELSE Seen(s)[j]
  BY <1>3 DEF Seen
<1>6. SeenOnce(s)'
  <2> SUFFICES ASSUME NEW x \in DOMAIN log, NEW y \in DOMAIN log,
                      IngestOf(Seen(s)'[x], Seen(s)'[y].feed, Seen(s)'[y].source_last_updated),
                      Seen(s)'[y].state = "ingested"
               PROVE  x = y
    BY <1>3 DEF SeenOnce
  <2>1. CASE x # i /\ y # i
    BY <1>2, <1>5, <2>1 DEF SeenOnce
  <2>2. CASE x = i /\ y # i
    BY <1>5, <2>2 DEF IngestOf
  <2>3. CASE x # i /\ y = i
    BY <1>5, <2>3 DEF IngestOf
  <2> QED BY <2>1, <2>2, <2>3
<1>7. LookedUp(s)' BY <1>3 DEF LookedUp
<1> QED BY <1>1, <1>4, <1>6, <1>7 DEF IInv

LEMMA TurnKeeps ==
  ASSUME OneCaller, TypeOK, IInv, NEW s \in Session, NEW i \in DOMAIN log,
         \/ LogFailed(s, i) \/ LogDuplicate(s, i)
         \/ StoreStatus(s, i) \/ StoreInformation(s, i)
  PROVE  IInv'
<1>1. Current(s, i) /\ i \in DOMAIN tx[s].cursor
  BY DEF LogFailed, LogDuplicate, StoreStatus, StoreInformation, Current
<1>2. Seen(s)[i] \in LogRow /\ Seen(s)[i] = log[i]
  BY <1>1, SeenIsLog DEF Seen, IInv, Unsettled
<1>3. FetchedAt(s, i) \in Nat /\ BodyOf(s, i).last_updated \in Nat
      /\ IsFiniteSet(BodyOf(s, i).stations)
  <2>1. FetchedAt(s, i) \in Nat /\ BodyOf(s, i) \in Body
    BY <1>1, ConstantsAssumption DEF TypeOK, IsCall, Response, FetchedAt, BodyOf
  <2> QED BY <2>1, ConstantsAssumption, FS_Subset DEF Body
<1>4. CASE LogFailed(s, i)
  <2> DEFINE row == [Seen(s)[i] EXCEPT !.state = "failed", !.error = "response",
                                       !.fetched_at = FetchedAt(s, i)]
  <2>1. row \in LogRow /\ row.feed = log[i].feed /\ row.state = "failed"
    BY <1>2, <1>3 DEF LogRow
  <2>2. EndTurn(s, i, row, {}, {}) BY <1>4 DEF LogFailed
  <2> HIDE DEF row
  <2> QED BY <1>1, <2>1, <2>2, EndTurnKeeps
<1>5. CASE LogDuplicate(s, i)
  <2> DEFINE row == [Seen(s)[i] EXCEPT !.state = "duplicate", !.n_rows = 0,
                       !.fetched_at = FetchedAt(s, i),
                       !.source_last_updated = BodyOf(s, i).last_updated]
  <2>1. row \in LogRow /\ row.feed = log[i].feed /\ row.state = "duplicate"
    BY <1>2, <1>3 DEF LogRow
  <2>2. EndTurn(s, i, row, {}, {}) BY <1>5 DEF LogDuplicate
  <2> HIDE DEF row
  <2> QED BY <1>1, <2>1, <2>2, EndTurnKeeps
<1>6. ASSUME NEW n \in Nat, NEW p, NEW m, tx[s].pc = "found", ~tx[s].dup,
             EndTurn(s, i, Ingested(s, i, n), p, m)
      PROVE  IInv'
  <2>1. /\ Ingested(s, i, n) \in LogRow
        /\ Ingested(s, i, n).feed = log[i].feed
        /\ Ingested(s, i, n).state = "ingested"
        /\ Ingested(s, i, n).source_last_updated = BodyOf(s, i).last_updated
    BY <1>2, <1>3 DEF LogRow, Ingested
  <2>2. \A x \in DOMAIN log : ~IngestOf(Seen(s)[x], log[i].feed, BodyOf(s, i).last_updated)
    BY <1>1, <1>6 DEF IInv, LookedUp
  <2> QED BY <1>1, <1>6, <2>1, <2>2, EndTurnKeeps
<1>7. CASE StoreStatus(s, i)
  <2>1. Cardinality(NewRows(s, i)) \in Nat BY <1>3, FewRows
  <2> QED BY <1>6, <1>7, <2>1 DEF StoreStatus
<1>8. CASE StoreInformation(s, i)
  <2>1. Cardinality(BodyOf(s, i).stations) \in Nat BY <1>3, FS_CardinalityType
  <2> QED BY <1>6, <1>8, <2>1 DEF StoreInformation
<1> QED BY <1>4, <1>5, <1>7, <1>8

(* The commit: it publishes what the call saw, and fails what it still     *)
(* sees pending.                                                           *)
LEMMA FinishKeeps ==
  ASSUME OneCaller, TypeOK, IInv, NEW s \in Session, Finish(s)
  PROVE  IInv' /\ (\A i \in DOMAIN log : log[i].state # "pending" => log'[i] = log[i])
<1>1. \A t \in Session : t = s BY DEF OneCaller
<1>2. Unsettled(s) /\ SeenOnce(s) BY DEF IInv
<1>3. DOMAIN log' = DOMAIN log /\ tx'[s] = Idle
  BY DEF Finish, TypeOK
<1>4. \A i \in DOMAIN log : log[i].state # "pending" => log'[i] = log[i]
  <2> SUFFICES ASSUME NEW i \in DOMAIN log, log[i].state # "pending" PROVE log'[i] = log[i]
    OBVIOUS
  <2>1. Seen(s)[i] = log[i] BY <1>2 DEF Unsettled, Seen
  <2>2. i \notin Expired(s) BY <2>1 DEF Expired
  <2> QED BY <2>1, <2>2 DEF Finish
<1>5. ASSUME NEW i \in DOMAIN log, log'[i].state = "ingested" PROVE log'[i] = Seen(s)[i]
  <2>1. Seen(s)[i] \in LogRow BY SeenIsLog
  <2>2. [Seen(s)[i] EXCEPT !.state = "failed", !.error = "no response"].state = "failed"
    BY <2>1 DEF LogRow
  <2> QED BY <1>5, <2>2 DEF Finish
<1>6. OneIngestPerPublication'
  BY <1>2, <1>3, <1>5 DEF OneIngestPerPublication, SeenOnce, IngestOf
<1>7. tx'[s].pc = "idle" /\ DOMAIN tx'[s].log = {} /\ DOMAIN tx'[s].cursor = {}
  BY <1>3 DEF Idle, Nothing
<1> QED BY <1>1, <1>4, <1>6, <1>7, NothingWritten

LEMMA RollbackKeeps ==
  ASSUME OneCaller, TypeOK, IInv, log' = log,
         \A s \in Session : tx'[s] = Idle
  PROVE  IInv'
<1>1. OneIngestPerPublication' BY OnceCommitted DEF OneIngestPerPublication
<1> QED BY <1>1, NothingWritten DEF Idle, Nothing

(* A new request is pending and no call has it in hand.                    *)
LEMMA RequestKeeps ==
  ASSUME TypeOK, IInv, NEW feed \in Feed, Request(feed)
  PROVE  IInv' /\ (\A i \in DOMAIN log : log'[i] = log[i])
<1>1. Pending(feed) \in LogRow /\ Pending(feed).state = "pending"
  BY DEF Pending, LogRow, NoStamp
<1>2. /\ Len(log) \in Nat /\ DOMAIN log = 1..Len(log)
      /\ DOMAIN log' = 1..(Len(log) + 1)
      /\ \A i \in DOMAIN log : log'[i] = log[i]
      /\ log'[Len(log) + 1] = Pending(feed)
  BY <1>1, LogShape, AppendProperties, LenProperties DEF TypeOK, Request
<1>3. SUFFICES ASSUME NEW s \in Session PROVE (Unsettled(s) /\ SeenOnce(s) /\ LookedUp(s))'
  BY <1>2 DEF IInv
<1>4. /\ IsCall(tx[s], DOMAIN log) /\ Unsettled(s) /\ SeenOnce(s) /\ LookedUp(s)
      /\ tx' = tx
  BY DEF TypeOK, IInv, Request
<1>5. /\ \A i \in DOMAIN log : Seen(s)'[i] = Seen(s)[i]
      /\ Seen(s)'[Len(log) + 1] = Pending(feed)
  BY <1>2, <1>4 DEF Seen, IsCall
<1>6. Unsettled(s)' BY <1>2, <1>4 DEF Unsettled, IsCall
<1>7. \A i \in DOMAIN log' : i \in DOMAIN log \/ i = Len(log) + 1
  BY <1>2
<1>8. SeenOnce(s)' BY <1>1, <1>4, <1>5, <1>7 DEF SeenOnce, IngestOf
<1>9. LookedUp(s)'
  <2> SUFFICES ASSUME tx[s].pc = "found", ~tx[s].dup, NEW i \in DOMAIN log', Current(s, i)',
                      NEW x \in DOMAIN log'
               PROVE  ~IngestOf(Seen(s)'[x], log'[i].feed, BodyOf(s, i)'.last_updated)
    BY <1>4 DEF LookedUp
  <2>1. Current(s, i) /\ i \in DOMAIN log /\ BodyOf(s, i)' = BodyOf(s, i)
    BY <1>4 DEF Current, BodyOf, IsCall
  <2> QED BY <1>1, <1>2, <1>4, <1>5, <1>7, <2>1 DEF LookedUp, IngestOf
<1> QED BY <1>6, <1>8, <1>9

LEMMA NextKeeps ==
  ASSUME OneCaller, TypeOK, IInv, [Next]_vars
  PROVE  IInv' /\ (\A i \in DOMAIN log : log[i].state # "pending" => log'[i] = log[i])
<1>1. CASE \E feed \in Feed : Request(feed)
  BY <1>1, RequestKeeps
<1>2. CASE log' = log /\ tx' = tx
  BY <1>2 DEF IInv, Unsettled, SeenOnce, LookedUp, Seen, Current, BodyOf
<1>3. CASE \/ \E B \in SUBSET queue : \E body \in [B -> Payload] : Deliver(B, body)
           \/ \E i \in DOMAIN resp : Forget(i)
           \/ Tick
           \/ UNCHANGED vars
  BY <1>2, <1>3 DEF Deliver, Forget, Tick, vars
<1>4. ASSUME NEW s \in Session, Begin(s) \/ Step(s) \/ DeadlockVictim(s) \/ Cancel(s)
      PROVE  IInv' /\ (\A i \in DOMAIN log : log[i].state # "pending" => log'[i] = log[i])
  <2>1. CASE Begin(s) BY <2>1, BeginKeeps DEF Begin
  <2>2. CASE Finish(s) BY <2>2, FinishKeeps
  <2>3. ASSUME NEW i \in DOMAIN log, LookUp(s, i)
        PROVE  IInv' /\ log' = log
    BY <2>3, LookUpKeeps DEF LookUp
  <2>4. ASSUME NEW i \in DOMAIN log,
               \/ LogFailed(s, i) \/ LogDuplicate(s, i)
               \/ StoreStatus(s, i) \/ StoreInformation(s, i)
        PROVE  IInv' /\ log' = log
    BY <2>4, TurnKeeps DEF LogFailed, LogDuplicate, StoreStatus, StoreInformation, EndTurn
  <2>5. CASE (\E i \in DOMAIN log : Raise(s, i)) \/ DeadlockVictim(s) \/ Cancel(s)
    <3>1. log' = log /\ tx' = [tx EXCEPT ![s] = Idle]
      BY <2>5 DEF Raise, DeadlockVictim, Cancel
    <3>2. \A t \in Session : tx'[t] = Idle
      BY <3>1 DEF OneCaller, TypeOK
    <3> QED BY <3>1, <3>2, RollbackKeeps
  <2> QED BY <1>4, <2>1, <2>2, <2>3, <2>4, <2>5 DEF Step
<1>5. CASE Crash
  BY <1>5, RollbackKeeps DEF Crash
<1> QED BY <1>1, <1>3, <1>4, <1>5 DEF Next

LEMMA InitIInv == Init => IInv
<1> SUFFICES ASSUME Init PROVE IInv
  OBVIOUS
<1>1. DOMAIN log = {} BY EmptySeq, LenProperties DEF Init
<1>2. \A s \in Session : tx[s] = Idle BY DEF Init
<1> QED BY <1>1, <1>2 DEF IInv, Unsettled, SeenOnce, LookedUp, Idle, Nothing

LEMMA IInvAlways == ASSUME OneCaller PROVE Spec => []IInv
<1>1. TypeOK /\ IInv /\ [Next]_vars => IInv'
  BY NextKeeps
<1> QED BY <1>1, InitIInv, TypeCorrect, PTL DEF Spec

(* One publication of a feed is ingested by one request at most, however   *)
(* often gbfs_request fetches it and whichever calls of gbfs_ingest raise, *)
(* are cancelled or are lost in a crash: README "re-running the ingest is  *)
(* idempotent", while one session runs it.                                 *)
THEOREM PublicationIngestedOnce == ASSUME OneCaller PROVE Spec => []OneIngestPerPublication
BY IInvAlways, OnceCommitted, PTL

(* The fetch audit is append-only in its outcomes: a request that has one  *)
(* keeps it, with its row count and time, while one session runs           *)
(* gbfs_ingest.                                                            *)
THEOREM OutcomeKept == ASSUME OneCaller PROVE Spec => OutcomeIsFinal
<1>1. TypeOK /\ IInv /\ [Next]_vars =>
        [\A i \in DOMAIN log : log[i].state # "pending" => log'[i] = log[i]]_vars
  BY NextKeeps
<1> QED BY <1>1, IInvAlways, TypeCorrect, PTL DEF Spec, OutcomeIsFinal

-----------------------------------------------------------------------------
(***************************************************************************)
(* Any number of callers.  A request is fetched once, so all that is held  *)
(* of its answer - the stored response, the calls that have it in hand,    *)
(* what they wrote and what is committed - is about one body of one pg_net *)
(* batch: two calls that handle the same request cannot disagree on        *)
(* whether its rows are stored.                                            *)
(***************************************************************************)
Answer == [body : Body, created : Nat]

Parsed(a) == a.body.kind \in {"ok", "unreadable"}

(* Row r, if it has an outcome that stores or repeats, is about answer a.  *)
Records(r, a) ==
  r.state \in {"ingested", "duplicate"} =>
    Parsed(a) /\ r.fetched_at = a.created /\ r.source_last_updated = a.body.last_updated

(* c holds the answer a: a stored response, or one in a call's cursor.     *)
Holds(c, a) == c.body = a.body /\ c.created = a.created

(* The call c is about the answers a.                                      *)
CallHolds(c, a) ==
  /\ \A i \in DOMAIN c.cursor : Holds(c.cursor[i], a[i])
  /\ \A i \in DOMAIN c.log :
       Records(c.log[i], a[i]) /\ (c.log[i].state = "failed" => ~Parsed(a[i]))

AnswersAre(a) ==
  /\ \A i \in DOMAIN resp : Holds(resp[i], a[i])
  /\ \A i \in DOMAIN log : Records(log[i], a[i])
  /\ \A s \in Session : CallHolds(tx[s], a)

OneAnswer == \E a \in [Nat -> Answer] : AnswersAre(a)

(* Nothing is known of a request that pg_net has yet to perform.           *)
Unanswered ==
  \A i \in queue :
    /\ i \notin DOMAIN resp /\ log[i].state \notin {"ingested", "duplicate"}
    /\ \A s \in Session : i \notin DOMAIN tx[s].cursor /\ i \notin DOMAIN tx[s].log

(* A call rewrites a row once, gives it an outcome and keeps its feed; it  *)
(* has logged what it has inserted; and it looks up readable bodies only.  *)
Accounted(c) ==
  /\ c.pc = "found" =>
       \A i \in DOMAIN c.cursor :
         (\A j \in DOMAIN c.cursor : i <= j) => Parsed(c.cursor[i])
  /\ \A i \in DOMAIN c.log :
       /\ i \notin DOMAIN c.cursor
       /\ c.log[i].state # "pending" /\ c.log[i].feed = log[i].feed
  /\ \A p \in c.snapshots : \E i \in DOMAIN c.log :
       /\ c.log[i].feed = "station_status" /\ c.log[i].state = "ingested"
       /\ p.fetched_at = c.log[i].fetched_at
       /\ p.source_last_updated = c.log[i].source_last_updated

CInv ==
  /\ OneAnswer /\ Unanswered /\ StoredNeverFailed
  /\ \A s \in Session : Accounted(tx[s])

(* A step of session s that leaves it with the call c.                     *)
LEMMA CallStep ==
  ASSUME TypeOK, CInv, NEW s \in Session, NEW c, tx' = [tx EXCEPT ![s] = c],
         UNCHANGED <<log, queue, resp, snapshots>>,
         \A a \in [Nat -> Answer] : AnswersAre(a) => CallHolds(c, a),
         \A i \in queue : i \notin DOMAIN c.cursor /\ i \notin DOMAIN c.log,
         Accounted(c)
  PROVE  CInv'
<1>1. \A t \in Session : tx'[t] = IF t = s THEN c ELSE tx[t]
  BY DEF TypeOK
<1>2. OneAnswer'
  <2>1. PICK a \in [Nat -> Answer] : AnswersAre(a)
    BY DEF CInv, OneAnswer
  <2>2. AnswersAre(a)'
    BY <1>1, <2>1 DEF AnswersAre
  <2> QED BY <2>2 DEF OneAnswer
<1>3. Unanswered'
  BY <1>1 DEF CInv, Unanswered
<1>4. StoredNeverFailed'
  BY DEF CInv, StoredNeverFailed, RowsOf
<1>5. \A t \in Session : Accounted(tx[t])'
  BY <1>1 DEF CInv, Accounted
<1> QED BY <1>2, <1>3, <1>4, <1>5 DEF CInv

LEMMA IdleHoldsNothing ==
  /\ \A a : CallHolds(Idle, a)
  /\ Accounted(Idle) /\ DOMAIN Idle.cursor = {} /\ DOMAIN Idle.log = {}
BY DEF CallHolds, Accounted, Idle, Nothing

LEMMA BeginC ==
  ASSUME TypeOK, CInv, NEW s \in Session, Begin(s)
  PROVE  CInv'
<1> DEFINE cursor == [i \in {j \in DOMAIN log : log[j].state = "pending" /\ j \in DOMAIN resp}
                        |-> resp[i]]
           c == [Idle EXCEPT !.pc = "loop", !.cursor = cursor,
                             !.stale = {j \in DOMAIN log : age[j] > Keep}]
<1>1. tx' = [tx EXCEPT ![s] = c] /\ UNCHANGED <<log, queue, resp, snapshots>>
  BY DEF Begin
<1>2. c.pc = "loop" /\ c.cursor = cursor /\ DOMAIN c.log = {} /\ c.snapshots = {}
  BY DEF Idle, Nothing
<1>3. \A i \in DOMAIN cursor : i \in DOMAIN resp /\ cursor[i] = resp[i]
  OBVIOUS
<1> HIDE DEF c, cursor
<1>4. \A a \in [Nat -> Answer] : AnswersAre(a) => CallHolds(c, a)
  BY <1>2, <1>3 DEF AnswersAre, CallHolds
<1>5. \A i \in queue : i \notin DOMAIN c.cursor /\ i \notin DOMAIN c.log
  BY <1>2, <1>3 DEF CInv, Unanswered
<1>6. Accounted(c)
  BY <1>2 DEF Accounted
<1> QED BY <1>1, <1>4, <1>5, <1>6, CallStep

LEMMA LookUpC ==
  ASSUME TypeOK, CInv, NEW s \in Session, NEW i \in DOMAIN log, LookUp(s, i)
  PROVE  CInv'
<1>1. PICK b \in BOOLEAN : tx' = [tx EXCEPT ![s] = [tx[s] EXCEPT !.pc = "found", !.dup = b]]
  BY DEF LookUp
<1> DEFINE c == [tx[s] EXCEPT !.pc = "found", !.dup = b]
<1>2. c.cursor = tx[s].cursor /\ c.log = tx[s].log /\ c.snapshots = tx[s].snapshots
  BY DEF TypeOK, IsCall, Idle
<1> HIDE DEF c
<1>3. \A a \in [Nat -> Answer] : AnswersAre(a) => CallHolds(c, a)
  BY <1>2 DEF AnswersAre, CallHolds
<1>4. \A j \in queue : j \notin DOMAIN c.cursor /\ j \notin DOMAIN c.log
  BY <1>2 DEF CInv, Unanswered
<1>6. ASSUME NEW j \in DOMAIN c.cursor, \A k \in DOMAIN c.cursor : j <= k
      PROVE  Parsed(c.cursor[j])
  <2>1. j \in DOMAIN log /\ i \in DOMAIN c.cursor /\ Current(s, i)
    BY <1>2 DEF LookUp, Current, TypeOK, IsCall
  <2>2. j = i
    BY <1>6, <2>1, <1>2, LogShape DEF Current
  <2> QED BY <1>2, <2>2 DEF LookUp, BodyOf, Parsed
<1>7. Accounted(c)
  BY <1>2, <1>6 DEF CInv, Accounted
<1>5. UNCHANGED <<log, queue, resp, snapshots>>
  BY DEF LookUp
<1> QED BY <1>1, <1>3, <1>4, <1>5, <1>7, CallStep DEF c

(* The end of a turn: the row written is about the answer in hand.         *)
LEMMA EndTurnC ==
  ASSUME TypeOK, CInv, NEW s \in Session, NEW i \in DOMAIN log,
         i \in DOMAIN tx[s].cursor,
         NEW row \in LogRow, row.feed = log[i].feed, row.state # "pending",
         Records(row, tx[s].cursor[i]), row.state = "failed" => ~Parsed(tx[s].cursor[i]),
         NEW p, NEW m,
         \A q \in p : /\ row.feed = "station_status" /\ row.state = "ingested"
                      /\ q.fetched_at = row.fetched_at
                      /\ q.source_last_updated = row.source_last_updated,
         EndTurn(s, i, row, p, m)
  PROVE  CInv'
<1> DEFINE cursor == [j \in DOMAIN tx[s].cursor \ {i} |-> tx[s].cursor[j]]
           rows == [j \in DOMAIN tx[s].log \union {i} |-> IF j = i THEN row ELSE tx[s].log[j]]
           masters == {x \in tx[s].stations : \A n \in m : n.station_id # x.station_id} \union m
           c == [tx[s] EXCEPT !.pc = "loop", !.cursor = cursor, !.log = rows,
                              !.snapshots = tx[s].snapshots \union p, !.stations = masters]
<1>1. tx' = [tx EXCEPT ![s] = c] /\ UNCHANGED <<log, queue, resp, snapshots>>
  BY DEF EndTurn
<1>2. IsCall(tx[s], DOMAIN log) /\ Accounted(tx[s])
  BY DEF TypeOK, CInv
<1>3. c.pc = "loop" /\ c.cursor = cursor /\ c.log = rows /\ c.snapshots = tx[s].snapshots \union p
  <2> HIDE DEF cursor, rows, masters
  <2> QED BY <1>2 DEF IsCall, Idle
<1>4. /\ DOMAIN cursor = DOMAIN tx[s].cursor \ {i}
      /\ \A j \in DOMAIN cursor : cursor[j] = tx[s].cursor[j]
      /\ DOMAIN rows = DOMAIN tx[s].log \union {i}
      /\ rows[i] = row /\ \A j \in DOMAIN tx[s].log : j # i => rows[j] = tx[s].log[j]
  OBVIOUS
<1> HIDE DEF c, cursor, rows
<1>5. ASSUME NEW a \in [Nat -> Answer], AnswersAre(a)
      PROVE  CallHolds(c, a)
  <2>1. CallHolds(tx[s], a) BY <1>5 DEF AnswersAre
  <2>2. Records(row, a[i]) /\ (row.state = "failed" => ~Parsed(a[i]))
    BY <2>1 DEF CallHolds, Holds, Records, Parsed
  <2>3. \A j \in DOMAIN c.log : Records(c.log[j], a[j]) /\ (c.log[j].state = "failed" => ~Parsed(a[j]))
    BY <1>3, <1>4, <2>1, <2>2 DEF CallHolds
  <2> QED BY <1>3, <1>4, <2>1, <2>3 DEF CallHolds
<1>6. \A j \in queue : j \notin DOMAIN c.cursor /\ j \notin DOMAIN c.log
  BY <1>3, <1>4 DEF CInv, Unanswered
<1>7. Accounted(c)
  <2>1. \A j \in DOMAIN c.log :
          /\ j \notin DOMAIN c.cursor
          /\ c.log[j].state # "pending" /\ c.log[j].feed = log[j].feed
    BY <1>2, <1>3, <1>4 DEF Accounted
  <2>2. ASSUME NEW q \in c.snapshots
        PROVE  \E j \in DOMAIN c.log :
                 /\ c.log[j].feed = "station_status" /\ c.log[j].state = "ingested"
                 /\ q.fetched_at = c.log[j].fetched_at
                 /\ q.source_last_updated = c.log[j].source_last_updated
    <3>1. CASE q \in p
      BY <1>3, <1>4, <3>1
    <3>2. CASE q \in tx[s].snapshots
      <4>1. PICK j \in DOMAIN tx[s].log :
              /\ tx[s].log[j].feed = "station_status" /\ tx[s].log[j].state = "ingested"
              /\ q.fetched_at = tx[s].log[j].fetched_at
              /\ q.source_last_updated = tx[s].log[j].source_last_updated
        BY <1>2, <3>2 DEF Accounted
      <4>2. j # i
        BY <1>2 DEF Accounted
      <4> QED BY <1>3, <1>4, <4>1, <4>2
    <3> QED BY <1>3, <3>1, <3>2
  <2> QED BY <1>3, <2>1, <2>2 DEF Accounted
<1> QED BY <1>1, <1>5, <1>6, <1>7, CallStep

LEMMA TurnC ==
  ASSUME TypeOK, CInv, NEW s \in Session, NEW i \in DOMAIN log,
         \/ LogFailed(s, i) \/ LogDuplicate(s, i)
         \/ StoreStatus(s, i) \/ StoreInformation(s, i)
  PROVE  CInv'
<1>1. i \in DOMAIN tx[s].cursor
  BY DEF LogFailed, LogDuplicate, StoreStatus, StoreInformation, Current
<1>2. tx[s].cursor[i] \in Response
  BY <1>1 DEF TypeOK, IsCall
<1>3. FetchedAt(s, i) \in Nat /\ BodyOf(s, i) \in Body /\ BodyOf(s, i).last_updated \in Nat
      /\ IsFiniteSet(BodyOf(s, i).stations)
      /\ tx[s].cursor[i].body = BodyOf(s, i) /\ tx[s].cursor[i].created = FetchedAt(s, i)
  <2>1. FetchedAt(s, i) \in Nat /\ BodyOf(s, i) \in Body
    BY <1>2, ConstantsAssumption DEF Response, FetchedAt, BodyOf
  <2> QED BY <2>1, ConstantsAssumption, FS_Subset DEF Body, BodyOf, FetchedAt
<1>4. Seen(s)[i] \in LogRow /\ Seen(s)[i].feed = log[i].feed
  BY SeenIsLog DEF Seen, CInv, Accounted
<1>5. CASE LogFailed(s, i)
  <2> DEFINE row == [Seen(s)[i] EXCEPT !.state = "failed", !.error = "response",
                                       !.fetched_at = FetchedAt(s, i)]
  <2>1. row \in LogRow /\ row.feed = log[i].feed /\ row.state = "failed"
    BY <1>3, <1>4 DEF LogRow
  <2>2. EndTurn(s, i, row, {}, {}) BY <1>5 DEF LogFailed
  <2> HIDE DEF row
  <2>3. ~Parsed(tx[s].cursor[i]) /\ Records(row, tx[s].cursor[i])
    BY <1>3, <1>5, <2>1 DEF LogFailed, Parsed, Records
  <2> QED BY <1>1, <2>1, <2>2, <2>3, EndTurnC
<1>6. CASE LogDuplicate(s, i)
  <2> DEFINE row == [Seen(s)[i] EXCEPT !.state = "duplicate", !.n_rows = 0,
                       !.fetched_at = FetchedAt(s, i),
                       !.source_last_updated = BodyOf(s, i).last_updated]
  <2>1. /\ row \in LogRow /\ row.feed = log[i].feed /\ row.state = "duplicate"
        /\ row.fetched_at = FetchedAt(s, i)
        /\ row.source_last_updated = BodyOf(s, i).last_updated
    BY <1>3, <1>4 DEF LogRow
  <2>2. EndTurn(s, i, row, {}, {}) BY <1>6 DEF LogDuplicate
  <2> HIDE DEF row
  <2>3. Parsed(tx[s].cursor[i])
    BY <1>1, <1>6 DEF LogDuplicate, Current, CInv, Accounted
  <2>4. Records(row, tx[s].cursor[i])
    BY <1>3, <2>1, <2>3 DEF Records
  <2> QED BY <1>1, <2>1, <2>2, <2>4, EndTurnC
<1>7. ASSUME NEW n \in Nat, NEW p, NEW m, Storable(s, i), EndTurn(s, i, Ingested(s, i, n), p, m),
             p # {} => log[i].feed = "station_status" /\ p \subseteq StatusRows(s, i)
      PROVE  CInv'
  <2>1. /\ Ingested(s, i, n) \in LogRow
        /\ Ingested(s, i, n).feed = log[i].feed
        /\ Ingested(s, i, n).state = "ingested"
        /\ Ingested(s, i, n).fetched_at = FetchedAt(s, i)
        /\ Ingested(s, i, n).source_last_updated = BodyOf(s, i).last_updated
    BY <1>3, <1>4 DEF LogRow, Ingested
  <2>2. Records(Ingested(s, i, n), tx[s].cursor[i])
    BY <1>3, <1>7, <2>1 DEF Records, Parsed, Storable
  <2>3. \A q \in p : q.fetched_at = FetchedAt(s, i) /\ q.source_last_updated = BodyOf(s, i).last_updated
                     /\ log[i].feed = "station_status"
    BY <1>7 DEF StatusRows
  <2> QED BY <1>1, <1>7, <2>1, <2>2, <2>3, EndTurnC
<1>8. CASE StoreStatus(s, i)
  <2>1. Cardinality(NewRows(s, i)) \in Nat BY <1>3, FewRows
  <2>2. NewRows(s, i) \subseteq StatusRows(s, i) BY DEF NewRows
  <2> QED BY <1>7, <1>8, <2>1, <2>2 DEF StoreStatus
<1>9. CASE StoreInformation(s, i)
  <2>1. Cardinality(BodyOf(s, i).stations) \in Nat BY <1>3, FS_CardinalityType
  <2> QED BY <1>7, <1>9, <2>1 DEF StoreInformation
<1> QED BY <1>5, <1>6, <1>8, <1>9

(* What a call publishes: its own rows where it has any, which agree with  *)
(* whatever another call has committed about the same request.             *)
LEMMA FinishC ==
  ASSUME TypeOK, CInv, NEW s \in Session, Finish(s)
  PROVE  CInv'
<1>1. Accounted(tx[s]) /\ IsCall(tx[s], DOMAIN log)
  BY DEF CInv, TypeOK
<1>2. tx' = [tx EXCEPT ![s] = Idle] /\ UNCHANGED <<queue, resp>> /\ DOMAIN log' = DOMAIN log
  BY DEF Finish
<1>3. \A t \in Session : tx'[t] = IF t = s THEN Idle ELSE tx[t]
  BY <1>2 DEF TypeOK
<1>4. ASSUME NEW i \in DOMAIN log
      PROVE  /\ log'[i].feed = log[i].feed
             /\ log'[i] = Seen(s)[i] \/ (log'[i].state = "failed" /\ Seen(s)[i].state = "pending")
  <2>1. Seen(s)[i] \in LogRow /\ Seen(s)[i].feed = log[i].feed
    BY <1>1, SeenIsLog DEF Seen, Accounted
  <2>2. CASE i \in Expired(s)
    <3>1. log'[i] = [Seen(s)[i] EXCEPT !.state = "failed", !.error = "no response"]
      BY <2>2 DEF Finish
    <3> QED BY <2>1, <2>2, <3>1 DEF Expired, LogRow
  <2>3. CASE i \notin Expired(s)
    BY <2>1, <2>3 DEF Finish
  <2> QED BY <2>2, <2>3
<1>5. OneAnswer'
  <2>1. PICK a \in [Nat -> Answer] : AnswersAre(a)
    BY DEF CInv, OneAnswer
  <2>2. \A i \in DOMAIN log : Records(log'[i], a[i])
    BY <1>4, <2>1 DEF AnswersAre, CallHolds, Seen, Records
  <2>3. \A t \in Session : CallHolds(tx'[t], a)
    BY <1>3, <2>1, IdleHoldsNothing DEF AnswersAre
  <2> QED BY <1>2, <2>1, <2>2, <2>3 DEF OneAnswer, AnswersAre
<1>6. Unanswered'
  <2>1. \A i \in queue : i \in DOMAIN log /\ i \notin DOMAIN tx[s].log
    BY DEF CInv, Unanswered, TypeOK
  <2>2. \A i \in queue : Seen(s)[i] = log[i]
    BY <2>1 DEF Seen
  <2> QED BY <1>2, <1>3, <1>4, <2>1, <2>2, IdleHoldsNothing DEF CInv, Unanswered
<1>7. ASSUME NEW p \in snapshots'
      PROVE  \E i \in DOMAIN log' :
               /\ log'[i].feed = "station_status" /\ log'[i].state \in {"ingested", "duplicate"}
               /\ p.fetched_at = log'[i].fetched_at
               /\ p.source_last_updated = log'[i].source_last_updated
  <2>1. CASE p \in snapshots
    <3>1. PICK i \in DOMAIN log :
            /\ log[i].feed = "station_status" /\ log[i].state \in {"ingested", "duplicate"}
            /\ p.fetched_at = log[i].fetched_at
            /\ p.source_last_updated = log[i].source_last_updated
      BY <2>1 DEF CInv, StoredNeverFailed, RowsOf
    <3>2. PICK a \in [Nat -> Answer] : AnswersAre(a)
      BY DEF CInv, OneAnswer
    <3>3. Records(log[i], a[i]) /\ Parsed(a[i])
      BY <3>1, <3>2 DEF AnswersAre, Records
    <3>4. Seen(s)[i].state \in {"ingested", "duplicate"} /\ Records(Seen(s)[i], a[i])
      <4>1. CASE i \in DOMAIN tx[s].log
        <5>1. tx[s].log[i] \in LogRow /\ tx[s].log[i].state # "pending"
              /\ Records(tx[s].log[i], a[i]) /\ tx[s].log[i].state # "failed"
          BY <1>1, <3>2, <3>3, <4>1 DEF IsCall, Accounted, AnswersAre, CallHolds
        <5> QED BY <4>1, <5>1 DEF Seen, LogRow
      <4>2. CASE i \notin DOMAIN tx[s].log
        BY <3>1, <3>3, <4>2 DEF Seen
      <4> QED BY <4>1, <4>2
    <3> QED BY <1>2, <1>4, <3>1, <3>3, <3>4 DEF Records
  <2>2. CASE p \in tx[s].snapshots
    <3>1. PICK i \in DOMAIN tx[s].log :
            /\ tx[s].log[i].feed = "station_status" /\ tx[s].log[i].state = "ingested"
            /\ p.fetched_at = tx[s].log[i].fetched_at
            /\ p.source_last_updated = tx[s].log[i].source_last_updated
      BY <1>1, <2>2 DEF Accounted
    <3>2. i \in DOMAIN log /\ Seen(s)[i] = tx[s].log[i]
      BY <1>1 DEF IsCall, Seen
    <3> QED BY <1>2, <1>4, <3>1, <3>2
  <2> QED BY <2>1, <2>2 DEF Finish
<1>8. StoredNeverFailed'
  BY <1>7 DEF StoredNeverFailed, RowsOf
<1>9. \A t \in Session : Accounted(tx[t])'
  <2> SUFFICES ASSUME NEW t \in Session PROVE Accounted(tx[t])'
    OBVIOUS
  <2>1. CASE t = s
    BY <1>3, <2>1 DEF Accounted, Idle, Nothing
  <2>2. CASE t # s
    <3>1. tx'[t] = tx[t] /\ Accounted(tx[t]) /\ IsCall(tx[t], DOMAIN log)
      BY <1>3, <2>2 DEF CInv, TypeOK
    <3> QED BY <1>4, <3>1 DEF Accounted, IsCall
  <2> QED BY <2>1, <2>2
<1> QED BY <1>5, <1>6, <1>8, <1>9 DEF CInv

LEMMA RequestC ==
  ASSUME TypeOK, CInv, NEW feed \in Feed, Request(feed)
  PROVE  CInv'
<1>1. Pending(feed) \in LogRow /\ Pending(feed).state = "pending"
  BY DEF Pending, LogRow, NoStamp
<1>2. /\ Len(log) \in Nat /\ DOMAIN log = 1..Len(log)
      /\ DOMAIN log' = 1..(Len(log) + 1)
      /\ \A i \in DOMAIN log : log'[i] = log[i]
      /\ log'[Len(log) + 1] = Pending(feed)
  BY <1>1, LogShape, AppendProperties, LenProperties DEF TypeOK, Request
<1>3. \A i \in DOMAIN log' : i \in DOMAIN log \/ i = Len(log) + 1
  BY <1>2
<1>4. /\ \A t \in Session : IsCall(tx[t], DOMAIN log)
      /\ DOMAIN resp \subseteq DOMAIN log /\ queue \subseteq DOMAIN log
      /\ UNCHANGED <<tx, resp, snapshots>> /\ queue' = queue \union {Len(log) + 1}
  BY DEF TypeOK, Request
<1>5. OneAnswer'
  <2>1. PICK a \in [Nat -> Answer] : AnswersAre(a)
    BY DEF CInv, OneAnswer
  <2>2. \A i \in DOMAIN log' : Records(log'[i], a[i])
    BY <1>1, <1>2, <1>3, <2>1 DEF AnswersAre, Records
  <2>3. AnswersAre(a)'
    BY <1>4, <2>1, <2>2 DEF AnswersAre
  <2> QED BY <2>3 DEF OneAnswer
<1>6. Unanswered'
  <2>1. Len(log) + 1 \notin DOMAIN log BY <1>2
  <2> QED BY <1>1, <1>2, <1>4, <2>1 DEF CInv, Unanswered, IsCall
<1>7. StoredNeverFailed'
  BY <1>2, <1>3, <1>4 DEF CInv, StoredNeverFailed, RowsOf
<1>8. \A t \in Session : Accounted(tx[t])'
  BY <1>2, <1>4 DEF CInv, Accounted, IsCall
<1> QED BY <1>5, <1>6, <1>7, <1>8 DEF CInv

(* The answers of a batch are new: nothing was known of its requests.      *)
LEMMA DeliverC ==
  ASSUME TypeOK, CInv, NEW B \in SUBSET queue, NEW body \in [B -> Payload], Deliver(B, body)
  PROVE  CInv'
<1>1. /\ UNCHANGED <<log, snapshots, tx>> /\ queue' = queue \ B
      /\ resp' = [i \in DOMAIN resp \union B |->
                    IF i \in B THEN [body |-> body[i], created |-> batches + 1, age |-> 0]
                    ELSE resp[i]]
  BY DEF Deliver
<1>2. OneAnswer'
  <2>1. PICK a \in [Nat -> Answer] : AnswersAre(a)
    BY DEF CInv, OneAnswer
  <2>2. B \subseteq Nat /\ DOMAIN resp \subseteq Nat /\ DOMAIN log \subseteq Nat
    BY LogShape DEF TypeOK
  <2>3. PICK b \in [Nat -> Answer] :
          b = [i \in Nat |-> IF i \in B THEN [body |-> body[i], created |-> batches + 1] ELSE a[i]]
    <3>1. \A i \in B : body[i] \in Body BY ConstantsAssumption
    <3>2. batches + 1 \in Nat BY DEF TypeOK
    <3>3. \A i \in Nat : (IF i \in B THEN [body |-> body[i], created |-> batches + 1] ELSE a[i]) \in Answer
      BY <3>1, <3>2 DEF Answer
    <3> QED BY <3>3
  <2>4. /\ \A i \in B : b[i].body = body[i] /\ b[i].created = batches + 1
        /\ \A i \in Nat \ B : b[i] = a[i]
    BY <2>2, <2>3
  <2>5. \A i \in DOMAIN resp' : Holds(resp'[i], b[i])
    BY <1>1, <2>1, <2>2, <2>4 DEF AnswersAre, Holds
  <2>6. \A i \in DOMAIN log : Records(log[i], b[i])
    BY <2>1, <2>2, <2>4 DEF AnswersAre, Records, CInv, Unanswered
  <2>7. ASSUME NEW t \in Session PROVE CallHolds(tx[t], b)
    <3>1. IsCall(tx[t], DOMAIN log) /\ CallHolds(tx[t], a)
      BY <2>1 DEF TypeOK, AnswersAre
    <3>2. \A i \in B : i \notin DOMAIN tx[t].cursor /\ i \notin DOMAIN tx[t].log
      BY DEF CInv, Unanswered
    <3> QED BY <2>2, <2>4, <3>1, <3>2 DEF CallHolds, IsCall
  <2>8. AnswersAre(b)'
    BY <1>1, <2>5, <2>6, <2>7 DEF AnswersAre
  <2> QED BY <2>8 DEF OneAnswer
<1>3. Unanswered'
  BY <1>1 DEF CInv, Unanswered
<1>4. StoredNeverFailed' /\ \A t \in Session : Accounted(tx[t])'
  BY <1>1 DEF CInv, StoredNeverFailed, RowsOf, Accounted
<1> QED BY <1>2, <1>3, <1>4 DEF CInv

(* pg_net forgets a response, time passes, or the database restarts: what  *)
(* is left is about the same answers.                                      *)
LEMMA LossC ==
  ASSUME TypeOK, CInv, UNCHANGED <<log, snapshots>>, queue' \subseteq queue,
         DOMAIN resp' \subseteq DOMAIN resp,
         \A i \in DOMAIN resp' : resp'[i].body = resp[i].body /\ resp'[i].created = resp[i].created,
         \A s \in Session : tx'[s] = tx[s] \/ tx'[s] = Idle
  PROVE  CInv'
<1>1. OneAnswer'
  <2>1. PICK a \in [Nat -> Answer] : AnswersAre(a)
    BY DEF CInv, OneAnswer
  <2>2. \A i \in DOMAIN resp' : Holds(resp'[i], a[i])
    BY <2>1 DEF AnswersAre, Holds
  <2>3. \A s \in Session : CallHolds(tx'[s], a)
    BY <2>1, IdleHoldsNothing DEF AnswersAre
  <2>4. AnswersAre(a)'
    BY <2>1, <2>2, <2>3 DEF AnswersAre
  <2> QED BY <2>4 DEF OneAnswer
<1>2. Unanswered'
  BY IdleHoldsNothing DEF CInv, Unanswered
<1>3. StoredNeverFailed'
  BY DEF CInv, StoredNeverFailed, RowsOf
<1>4. \A s \in Session : Accounted(tx[s])'
  BY DEF CInv, Accounted, Idle, Nothing
<1> QED BY <1>1, <1>2, <1>3, <1>4 DEF CInv

LEMMA InitC == Init => CInv
<1> SUFFICES ASSUME Init PROVE CInv
  OBVIOUS
<1>1. DOMAIN log = {} /\ DOMAIN resp = {} /\ \A s \in Session : tx[s] = Idle
  BY EmptySeq, LenProperties DEF Init, Nothing
<1> DEFINE b == [body |-> [kind |-> "ok", last_updated |-> 0, stations |-> {}], created |-> 0]
<1>2. b \in Answer
  BY DEF Answer, Body
<1> HIDE DEF b
<1>3. [i \in Nat |-> b] \in [Nat -> Answer] /\ AnswersAre([i \in Nat |-> b])
  BY <1>1, <1>2, IdleHoldsNothing DEF AnswersAre
<1>4. OneAnswer BY <1>3 DEF OneAnswer
<1>5. queue = {} /\ snapshots = {} BY DEF Init
<1> QED BY <1>1, <1>4, <1>5, IdleHoldsNothing DEF CInv, Unanswered, StoredNeverFailed

LEMMA CInvAlways == Spec => []CInv
<1>1. TypeOK /\ CInv /\ [Next]_vars => CInv'
  <2> SUFFICES ASSUME TypeOK, CInv, [Next]_vars PROVE CInv'
    OBVIOUS
  <2>1. CASE \E feed \in Feed : Request(feed)
    BY <2>1, RequestC
  <2>2. CASE \E B \in SUBSET queue : \E body \in [B -> Payload] : Deliver(B, body)
    BY <2>2, DeliverC
  <2>3. CASE \E i \in DOMAIN resp : Forget(i)
    <3>1. PICK i \in DOMAIN resp : Forget(i) BY <2>3
    <3> QED BY <3>1, LossC DEF Forget
  <2>4. CASE Tick
    <3>1. DOMAIN resp' = DOMAIN resp BY <2>4 DEF Tick
    <3>2. ASSUME NEW i \in DOMAIN resp
          PROVE  resp'[i].body = resp[i].body /\ resp'[i].created = resp[i].created
      <4>1. resp[i] \in Response BY DEF TypeOK
      <4>2. resp'[i] = [resp[i] EXCEPT !.age = Older(resp[i].age)] BY <2>4 DEF Tick
      <4> QED BY <4>1, <4>2 DEF Response
    <3> QED BY <2>4, <3>1, <3>2, LossC DEF Tick
  <2>5. ASSUME NEW s \in Session, Begin(s) \/ Step(s) \/ DeadlockVictim(s) \/ Cancel(s)
        PROVE  CInv'
    <3>1. CASE Begin(s) BY <3>1, BeginC
    <3>2. CASE Finish(s) BY <3>2, FinishC
    <3>3. ASSUME NEW i \in DOMAIN log, LookUp(s, i) PROVE CInv'
      BY <3>3, LookUpC
    <3>4. ASSUME NEW i \in DOMAIN log,
                 \/ LogFailed(s, i) \/ LogDuplicate(s, i)
                 \/ StoreStatus(s, i) \/ StoreInformation(s, i)
          PROVE  CInv'
      BY <3>4, TurnC
    <3>5. CASE (\E i \in DOMAIN log : Raise(s, i)) \/ DeadlockVictim(s) \/ Cancel(s)
      <4>1. tx' = [tx EXCEPT ![s] = Idle] /\ UNCHANGED <<log, queue, resp, snapshots>>
        BY <3>5 DEF Raise, DeadlockVictim, Cancel
      <4>2. \A t \in Session : tx'[t] = tx[t] \/ tx'[t] = Idle
        BY <4>1 DEF TypeOK
      <4> QED BY <4>1, <4>2, LossC
    <3> QED BY <2>5, <3>1, <3>2, <3>3, <3>4, <3>5 DEF Step
  <2>6. CASE Crash
    BY <2>6, LossC DEF Crash, Nothing
  <2>7. CASE UNCHANGED vars
    BY <2>7, LossC DEF vars
  <2> QED BY <2>1, <2>2, <2>3, <2>4, <2>5, <2>6, <2>7 DEF Next
<1> QED BY <1>1, InitC, TypeCorrect, PTL DEF Spec

(* Whatever overlap of calls, cancellations and crashes: the rows of a     *)
(* snapshot are never reported as failed or still pending, because the     *)
(* last update of gbfs_ingest looks at the state again and two calls judge *)
(* the same answer alike.                                                  *)
THEOREM StoredRowsNeverFailed == Spec => []StoredNeverFailed
BY CInvAlways, PTL DEF CInv

-----------------------------------------------------------------------------
(***************************************************************************)
(* One caller: the audit.  The log as a call sees it agrees with the rows  *)
(* as it sees them after every turn, and the committed log with the        *)
(* committed rows; the answer of a look-up that found an ingest still      *)
(* holds when the row is logged as a duplicate.                            *)
(***************************************************************************)
StoresStatus(r) == r.feed = "station_status" /\ r.state = "ingested"

RowsFor(r, P) ==
  {p \in P : p.fetched_at = r.fetched_at /\ p.source_last_updated = r.source_last_updated}

(* Log L accounts for the snapshot rows P, and counts them.                *)
Counted(L, P) ==
  /\ \A p \in P : /\ p.source_last_updated # NoStamp
                  /\ \E i \in DOMAIN L : StoresStatus(L[i]) /\ p \in RowsFor(L[i], P)
  /\ \A i \in DOMAIN L : StoresStatus(L[i]) => L[i].n_rows = Cardinality(RowsFor(L[i], P))

(* Log L accounts for the master rows M.                                   *)
Attributed(L, M) ==
  \A m \in M : \E i \in DOMAIN L :
    /\ L[i].feed = "station_information" /\ L[i].state = "ingested"
    /\ L[i].fetched_at = m.updated_at

(* What L calls a duplicate repeats a publication it says is ingested.     *)
Repeated(L) ==
  \A i \in DOMAIN L : L[i].state = "duplicate" =>
    \E j \in DOMAIN L : IngestOf(L[j], L[i].feed, L[i].source_last_updated)

SeenSnapshots(s) == snapshots \union tx[s].snapshots

SeenMasters(s) ==
  {m \in stations : \A n \in tx[s].stations : n.station_id # m.station_id} \union tx[s].stations

FoundIngest(s) ==
  tx[s].pc = "found" /\ tx[s].dup =>
    \A i \in DOMAIN log : Current(s, i) =>
      \E x \in DOMAIN log : IngestOf(Seen(s)[x], log[i].feed, BodyOf(s, i).last_updated)

SeenAudited(s) ==
  /\ Counted(Seen(s), SeenSnapshots(s))
  /\ Attributed(Seen(s), SeenMasters(s))
  /\ Repeated(Seen(s)) /\ FoundIngest(s)

Audited == Counted(log, snapshots) /\ Attributed(log, stations) /\ Repeated(log)

AInv == Audited /\ \A s \in Session : SeenAudited(s)

(* Two logs with the same ingests account for the same rows.               *)
LEMMA SameIngests ==
  ASSUME NEW L, NEW K,
         \A i \in DOMAIN K : K[i].state = "ingested" => i \in DOMAIN L /\ L[i] = K[i],
         \A i \in DOMAIN L : L[i].state = "ingested" => i \in DOMAIN K /\ K[i] = L[i]
  PROVE  /\ \A P : Counted(L, P) => Counted(K, P)
         /\ \A M : Attributed(L, M) => Attributed(K, M)
         /\ (\A i \in DOMAIN K : K[i].state = "duplicate" => i \in DOMAIN L /\ L[i] = K[i])
              => (Repeated(L) => Repeated(K))
<1>1. ASSUME NEW P, Counted(L, P) PROVE Counted(K, P)
  <2>1. ASSUME NEW p \in P
        PROVE  /\ p.source_last_updated # NoStamp
               /\ \E i \in DOMAIN K : StoresStatus(K[i]) /\ p \in RowsFor(K[i], P)
    <3>1. PICK i \in DOMAIN L : StoresStatus(L[i]) /\ p \in RowsFor(L[i], P)
      BY <1>1 DEF Counted
    <3>2. i \in DOMAIN K /\ K[i] = L[i]
      BY <3>1 DEF StoresStatus
    <3> QED BY <1>1, <3>1, <3>2 DEF Counted
  <2>2. ASSUME NEW i \in DOMAIN K, StoresStatus(K[i])
        PROVE  K[i].n_rows = Cardinality(RowsFor(K[i], P))
    <3>1. i \in DOMAIN L /\ L[i] = K[i] BY <2>2 DEF StoresStatus
    <3>2. L[i].n_rows = Cardinality(RowsFor(L[i], P)) BY <1>1, <2>2, <3>1 DEF Counted
    <3> QED BY <3>1, <3>2
  <2> QED BY <2>1, <2>2 DEF Counted
<1>2. ASSUME NEW M, Attributed(L, M) PROVE Attributed(K, M)
  BY <1>2 DEF Attributed
<1>3. ASSUME Repeated(L),
             \A i \in DOMAIN K : K[i].state = "duplicate" => i \in DOMAIN L /\ L[i] = K[i]
      PROVE  Repeated(K)
  BY <1>3 DEF Repeated, IngestOf
<1> QED BY <1>1, <1>2, <1>3

(* A call that has written nothing sees what is committed.                 *)
LEMMA NothingSeen ==
  ASSUME Audited', NEW s \in Session,
         DOMAIN tx'[s].log = {}, tx'[s].snapshots = {}, tx'[s].stations = {}, tx'[s].pc # "found"
  PROVE  SeenAudited(s)'
<1>1. DOMAIN Seen(s)' = DOMAIN log' /\ \A i \in DOMAIN log' : Seen(s)'[i] = log'[i]
  BY DEF Seen
<1>2. SeenSnapshots(s)' = snapshots' /\ SeenMasters(s)' = stations'
  BY DEF SeenSnapshots, SeenMasters
<1>3. Counted(Seen(s)', snapshots') /\ Attributed(Seen(s)', stations') /\ Repeated(Seen(s)')
  BY <1>1, SameIngests DEF Audited
<1> QED BY <1>2, <1>3 DEF SeenAudited, FoundIngest

LEMMA IdleSeesCommitted ==
  ASSUME Audited, UNCHANGED <<log, snapshots, stations>>,
         \A s \in Session : tx'[s] = Idle
  PROVE  AInv'
<1>1. Audited' BY DEF Audited, Counted, Attributed, Repeated
<1> QED BY <1>1, NothingSeen DEF AInv, Idle, Nothing

LEMMA BeginA ==
  ASSUME OneCaller, TypeOK, AInv, NEW s \in Session, Begin(s)
  PROVE  AInv'
<1>1. Audited' BY DEF AInv, Audited, Begin
<1>2. /\ tx'[s].pc = "loop" /\ DOMAIN tx'[s].log = {}
      /\ tx'[s].snapshots = {} /\ tx'[s].stations = {}
  BY DEF Begin, Idle, Nothing, TypeOK
<1>3. \A t \in Session : t = s BY DEF OneCaller
<1> QED BY <1>1, <1>2, <1>3, NothingSeen DEF AInv

LEMMA LookUpA ==
  ASSUME OneCaller, TypeOK, AInv, NEW s \in Session, NEW i \in DOMAIN log, LookUp(s, i)
  PROVE  AInv'
<1>1. \A t \in Session : t = s BY DEF OneCaller
<1>2. IsCall(tx[s], DOMAIN log) /\ SeenAudited(s) /\ Audited
  BY DEF TypeOK, AInv
<1>3. /\ UNCHANGED <<log, snapshots, stations>>
      /\ tx'[s].cursor = tx[s].cursor /\ tx'[s].log = tx[s].log
      /\ tx'[s].snapshots = tx[s].snapshots /\ tx'[s].stations = tx[s].stations
  BY <1>2 DEF LookUp, TypeOK, IsCall, Idle
<1>4. Seen(s)' = Seen(s) /\ SeenSnapshots(s)' = SeenSnapshots(s) /\ SeenMasters(s)' = SeenMasters(s)
  BY <1>3 DEF Seen, SeenSnapshots, SeenMasters
<1>5. tx'[s].dup = \E x \in DOMAIN log :
                     IngestOf(Seen(s)[x], log[i].feed, BodyOf(s, i).last_updated)
  <2>1. tx'[s].dup = \E x \in DOMAIN log :
                    /\ Seen(s)[x].feed = log[i].feed
                    /\ Seen(s)[x].state = "ingested"
                    /\ Seen(s)[x].source_last_updated = BodyOf(s, i).last_updated
                    /\ BodyOf(s, i).last_updated # NoStamp
    BY <1>2 DEF LookUp, TypeOK, IsCall, Idle
  <2> QED BY <2>1 DEF IngestOf
<1>6. \A j \in DOMAIN log : Current(s, j)' => j = i
  <2> SUFFICES ASSUME NEW j \in DOMAIN log, Current(s, j)' PROVE j = i
    OBVIOUS
  <2>1. i <= j /\ j <= i BY <1>3 DEF Current, LookUp
  <2> QED BY <2>1, LogShape
<1>7. FoundIngest(s)'
  BY <1>3, <1>4, <1>5, <1>6 DEF FoundIngest, BodyOf
<1>8. SeenAudited(s)'
  BY <1>2, <1>4, <1>7 DEF SeenAudited
<1>9. Audited' BY <1>2, <1>3 DEF Audited
<1> QED BY <1>1, <1>8, <1>9 DEF AInv

(* What the end of a turn changes of what the call sees.                   *)
LEMMA EndTurnSees ==
  ASSUME OneCaller, TypeOK, IInv, NEW s \in Session, NEW i \in DOMAIN log,
         i \in DOMAIN tx[s].cursor, NEW row, NEW p, NEW m, EndTurn(s, i, row, p, m)
  PROVE  /\ DOMAIN Seen(s)' = DOMAIN Seen(s) /\ DOMAIN Seen(s) = DOMAIN log
         /\ Seen(s)'[i] = row /\ Seen(s)[i] = log[i] /\ log[i].state = "pending"
         /\ \A j \in DOMAIN log : j # i => Seen(s)'[j] = Seen(s)[j]
         /\ SeenSnapshots(s)' = SeenSnapshots(s) \union p
         /\ SeenMasters(s)' \subseteq SeenMasters(s) \union m
         /\ tx'[s].pc = "loop" /\ UNCHANGED <<log, snapshots, stations>>
<1>1. IsCall(tx[s], DOMAIN log) /\ Unsettled(s)
  BY DEF TypeOK, IInv
<1>2. /\ UNCHANGED <<log, snapshots, stations>> /\ tx'[s].pc = "loop"
      /\ tx'[s].log = [j \in DOMAIN tx[s].log \union {i} |-> IF j = i THEN row ELSE tx[s].log[j]]
      /\ tx'[s].snapshots = tx[s].snapshots \union p
      /\ tx'[s].stations = {x \in tx[s].stations : \A n \in m : n.station_id # x.station_id} \union m
  BY <1>1 DEF EndTurn, TypeOK, IsCall, Idle
<1>3. \A j \in DOMAIN log : Seen(s)'[j] = IF j = i THEN row ELSE Seen(s)[j]
  BY <1>2 DEF Seen
<1>4. Seen(s)[i] = log[i] /\ log[i].state = "pending"
  BY <1>1 DEF Seen, Unsettled
<1>5. SeenSnapshots(s)' = SeenSnapshots(s) \union p
  BY <1>2 DEF SeenSnapshots
<1>6. SeenMasters(s)' \subseteq SeenMasters(s) \union m
  <2> SUFFICES ASSUME NEW x \in SeenMasters(s)', x \notin m PROVE x \in SeenMasters(s)
    OBVIOUS
  <2>1. CASE x \in tx'[s].stations
    BY <1>2, <2>1 DEF SeenMasters
  <2>2. CASE x \in stations /\ \A n \in tx'[s].stations : n.station_id # x.station_id
    <3>1. ASSUME NEW n \in tx[s].stations PROVE n.station_id # x.station_id
      <4>1. n \in tx'[s].stations \/ \E k \in m : k.station_id = n.station_id
        BY <1>2
      <4> QED BY <1>2, <2>2, <4>1
    <3> QED BY <2>2, <3>1 DEF SeenMasters
  <2> QED BY <1>2, <2>1, <2>2 DEF SeenMasters
<1> QED BY <1>2, <1>3, <1>4, <1>5, <1>6 DEF Seen

(* A turn that stores nothing.                                             *)
LEMMA EndTurnEmptyA ==
  ASSUME OneCaller, TypeOK, IInv, AInv, NEW s \in Session, NEW i \in DOMAIN log,
         i \in DOMAIN tx[s].cursor, NEW row, row.state \in {"failed", "duplicate"},
         row.state = "duplicate" =>
           \E x \in DOMAIN log : IngestOf(Seen(s)[x], row.feed, row.source_last_updated),
         EndTurn(s, i, row, {}, {})
  PROVE  AInv'
<1>1. /\ DOMAIN Seen(s)' = DOMAIN Seen(s) /\ DOMAIN Seen(s) = DOMAIN log
      /\ Seen(s)'[i] = row /\ Seen(s)[i].state = "pending"
      /\ \A j \in DOMAIN log : j # i => Seen(s)'[j] = Seen(s)[j]
      /\ SeenSnapshots(s)' = SeenSnapshots(s) /\ SeenMasters(s)' \subseteq SeenMasters(s)
      /\ tx'[s].pc = "loop" /\ UNCHANGED <<log, snapshots, stations>>
  BY EndTurnSees
<1>2. SeenAudited(s) /\ Audited BY DEF AInv
<1>3. Counted(Seen(s)', SeenSnapshots(s)) /\ Attributed(Seen(s)', SeenMasters(s))
  BY <1>1, <1>2, SameIngests DEF SeenAudited
<1>4. Repeated(Seen(s)')
  BY <1>1, <1>2 DEF SeenAudited, Repeated, IngestOf
<1>5. SeenAudited(s)'
  BY <1>1, <1>3, <1>4 DEF SeenAudited, FoundIngest, Attributed
<1>6. Audited' BY <1>1, <1>2 DEF Audited
<1> QED BY <1>5, <1>6 DEF AInv, OneCaller

(* A turn that stores the rows p of a snapshot or the rows m of the master.*)
LEMMA EndTurnStoresA ==
  ASSUME OneCaller, TypeOK, IInv, AInv, NEW s \in Session, NEW i \in DOMAIN log,
         i \in DOMAIN tx[s].cursor, NEW row, row.state = "ingested",
         \A x \in DOMAIN log : ~IngestOf(Seen(s)[x], row.feed, row.source_last_updated),
         NEW p, NEW m, EndTurn(s, i, row, p, m),
         \A q \in p : /\ row.feed = "station_status" /\ row.source_last_updated # NoStamp
                      /\ q.fetched_at = row.fetched_at
                      /\ q.source_last_updated = row.source_last_updated,
         row.feed = "station_status" => row.n_rows = Cardinality(p),
         \A n \in m : row.feed = "station_information" /\ n.updated_at = row.fetched_at
  PROVE  AInv'
<1>1. /\ DOMAIN Seen(s)' = DOMAIN log /\ DOMAIN Seen(s) = DOMAIN log
      /\ Seen(s)'[i] = row /\ Seen(s)[i].state = "pending"
      /\ \A j \in DOMAIN log : j # i => Seen(s)'[j] = Seen(s)[j]
      /\ SeenSnapshots(s)' = SeenSnapshots(s) \union p
      /\ SeenMasters(s)' \subseteq SeenMasters(s) \union m
      /\ tx'[s].pc = "loop" /\ UNCHANGED <<log, snapshots, stations>>
  BY EndTurnSees
<1>2. SeenAudited(s) /\ Audited BY DEF AInv
<1>3. Counted(Seen(s), SeenSnapshots(s)) BY <1>2 DEF SeenAudited
<1>4. ASSUME NEW q \in SeenSnapshots(s)'
      PROVE  /\ q.source_last_updated # NoStamp
             /\ \E j \in DOMAIN log : /\ StoresStatus(Seen(s)'[j])
                                      /\ q \in RowsFor(Seen(s)'[j], SeenSnapshots(s)')
  <2>1. CASE q \in p
    BY <1>1, <2>1 DEF StoresStatus, RowsFor
  <2>2. CASE q \in SeenSnapshots(s)
    <3>1. PICK j \in DOMAIN log : StoresStatus(Seen(s)[j]) /\ q \in RowsFor(Seen(s)[j], SeenSnapshots(s))
      BY <1>1, <1>3, <2>2 DEF Counted
    <3>2. j # i BY <1>1, <3>1 DEF StoresStatus
    <3> QED BY <1>1, <1>3, <2>2, <3>1, <3>2 DEF Counted, RowsFor
  <2> QED BY <1>1, <2>1, <2>2
<1>5. ASSUME NEW j \in DOMAIN log, StoresStatus(Seen(s)'[j])
      PROVE  Seen(s)'[j].n_rows = Cardinality(RowsFor(Seen(s)'[j], SeenSnapshots(s)'))
  <2>1. CASE j = i
    <3>1. ASSUME NEW q \in SeenSnapshots(s), q.source_last_updated = row.source_last_updated
          PROVE  FALSE
      <4>1. PICK x \in DOMAIN log : StoresStatus(Seen(s)[x]) /\ q \in RowsFor(Seen(s)[x], SeenSnapshots(s))
        BY <1>1, <1>3 DEF Counted
      <4>2. q.source_last_updated # NoStamp BY <1>3 DEF Counted
      <4>3. row.feed = "station_status" BY <1>1, <1>5, <2>1 DEF StoresStatus
      <4> QED BY <3>1, <4>1, <4>2, <4>3 DEF StoresStatus, RowsFor, IngestOf
    <3>2. RowsFor(row, SeenSnapshots(s)') = p
      BY <1>1, <3>1 DEF RowsFor
    <3> QED BY <1>1, <1>5, <2>1, <3>2 DEF StoresStatus
  <2>2. CASE j # i
    <3>1. Seen(s)'[j] = Seen(s)[j] /\ StoresStatus(Seen(s)[j])
      BY <1>1, <1>5, <2>2
    <3>2. ASSUME NEW q \in p, q.source_last_updated = Seen(s)[j].source_last_updated
          PROVE  FALSE
      BY <3>1, <3>2 DEF StoresStatus, IngestOf
    <3>3. RowsFor(Seen(s)[j], SeenSnapshots(s)') = RowsFor(Seen(s)[j], SeenSnapshots(s))
      BY <1>1, <3>2 DEF RowsFor
    <3>4. Seen(s)[j].n_rows = Cardinality(RowsFor(Seen(s)[j], SeenSnapshots(s)))
      BY <1>1, <1>3, <3>1 DEF Counted
    <3> QED BY <3>1, <3>3, <3>4
  <2> QED BY <2>1, <2>2
<1>6. Counted(Seen(s)', SeenSnapshots(s)')
  BY <1>1, <1>4, <1>5 DEF Counted
<1>7. Attributed(Seen(s)', SeenMasters(s)')
  <2> SUFFICES ASSUME NEW n \in SeenMasters(s)'
               PROVE  \E j \in DOMAIN log :
                        /\ Seen(s)'[j].feed = "station_information" /\ Seen(s)'[j].state = "ingested"
                        /\ Seen(s)'[j].fetched_at = n.updated_at
    BY <1>1 DEF Attributed
  <2>1. CASE n \in m BY <1>1, <2>1
  <2>2. CASE n \in SeenMasters(s)
    BY <1>1, <1>2, <2>2 DEF SeenAudited, Attributed
  <2> QED BY <1>1, <2>1, <2>2
<1>8. Repeated(Seen(s)')
  BY <1>1, <1>2 DEF SeenAudited, Repeated, IngestOf
<1>9. SeenAudited(s)'
  BY <1>1, <1>6, <1>7, <1>8 DEF SeenAudited, FoundIngest
<1>10. Audited' BY <1>1, <1>2 DEF Audited
<1> QED BY <1>9, <1>10 DEF AInv, OneCaller

LEMMA TurnA ==
  ASSUME OneCaller, TypeOK, IInv, AInv, NEW s \in Session, NEW i \in DOMAIN log,
         \/ LogFailed(s, i) \/ LogDuplicate(s, i)
         \/ StoreStatus(s, i) \/ StoreInformation(s, i)
  PROVE  AInv'
<1>1. Current(s, i) /\ i \in DOMAIN tx[s].cursor
  BY DEF LogFailed, LogDuplicate, StoreStatus, StoreInformation, Current
<1>2. Seen(s)[i] \in LogRow /\ Seen(s)[i] = log[i]
  BY <1>1, SeenIsLog DEF Seen, IInv, Unsettled
<1>3. FetchedAt(s, i) \in Nat /\ BodyOf(s, i).last_updated \in Nat
      /\ IsFiniteSet(BodyOf(s, i).stations)
  <2>1. FetchedAt(s, i) \in Nat /\ BodyOf(s, i) \in Body
    BY <1>1, ConstantsAssumption DEF TypeOK, IsCall, Response, FetchedAt, BodyOf
  <2> QED BY <2>1, ConstantsAssumption, FS_Subset DEF Body
<1>4. CASE LogFailed(s, i)
  <2> DEFINE row == [Seen(s)[i] EXCEPT !.state = "failed", !.error = "response",
                                       !.fetched_at = FetchedAt(s, i)]
  <2>1. row.state = "failed"
    BY <1>2, <1>3 DEF LogRow
  <2>2. EndTurn(s, i, row, {}, {}) BY <1>4 DEF LogFailed
  <2> HIDE DEF row
  <2> QED BY <1>1, <2>1, <2>2, EndTurnEmptyA
<1>5. CASE LogDuplicate(s, i)
  <2> DEFINE row == [Seen(s)[i] EXCEPT !.state = "duplicate", !.n_rows = 0,
                       !.fetched_at = FetchedAt(s, i),
                       !.source_last_updated = BodyOf(s, i).last_updated]
  <2>1. /\ row.feed = log[i].feed /\ row.state = "duplicate"
        /\ row.source_last_updated = BodyOf(s, i).last_updated
    BY <1>2, <1>3 DEF LogRow
  <2>2. EndTurn(s, i, row, {}, {}) BY <1>5 DEF LogDuplicate
  <2> HIDE DEF row
  <2>3. \E x \in DOMAIN log : IngestOf(Seen(s)[x], log[i].feed, BodyOf(s, i).last_updated)
    BY <1>1, <1>5 DEF LogDuplicate, AInv, SeenAudited, FoundIngest
  <2> QED BY <1>1, <2>1, <2>2, <2>3, EndTurnEmptyA
<1>6. ASSUME tx[s].pc = "found", ~tx[s].dup, NEW n \in Nat
      PROVE  /\ Ingested(s, i, n).feed = log[i].feed
             /\ Ingested(s, i, n).state = "ingested" /\ Ingested(s, i, n).n_rows = n
             /\ Ingested(s, i, n).fetched_at = FetchedAt(s, i)
             /\ Ingested(s, i, n).source_last_updated = BodyOf(s, i).last_updated
             /\ \A x \in DOMAIN log : ~IngestOf(Seen(s)[x], log[i].feed, BodyOf(s, i).last_updated)
  <2>1. \A x \in DOMAIN log : ~IngestOf(Seen(s)[x], log[i].feed, BodyOf(s, i).last_updated)
    BY <1>1, <1>6 DEF IInv, LookedUp
  <2> QED BY <1>2, <1>3, <2>1 DEF LogRow, Ingested
<1>7. CASE StoreStatus(s, i)
  <2> DEFINE n == Cardinality(NewRows(s, i))
  <2>1. n \in Nat BY <1>3, FewRows
  <2>2. /\ tx[s].pc = "found" /\ ~tx[s].dup /\ Storable(s, i)
        /\ log[i].feed = "station_status"
        /\ EndTurn(s, i, Ingested(s, i, n), NewRows(s, i), {})
    BY <1>7 DEF StoreStatus
  <2>3. \A q \in NewRows(s, i) :
          /\ q.fetched_at = FetchedAt(s, i) /\ q.source_last_updated = BodyOf(s, i).last_updated
          /\ BodyOf(s, i).last_updated # NoStamp
    BY <2>2 DEF NewRows, StatusRows, Storable
  <2> HIDE DEF n
  <2>4. n = Cardinality(NewRows(s, i)) BY DEF n
  <2> QED BY <1>1, <1>6, <2>1, <2>2, <2>3, <2>4, EndTurnStoresA
<1>8. CASE StoreInformation(s, i)
  <2> DEFINE n == Cardinality(BodyOf(s, i).stations)
  <2>1. n \in Nat BY <1>3, FS_CardinalityType
  <2>2. /\ tx[s].pc = "found" /\ ~tx[s].dup
        /\ log[i].feed = "station_information"
        /\ EndTurn(s, i, Ingested(s, i, n), {}, MasterRows(s, i))
    BY <1>8 DEF StoreInformation
  <2>3. \A q \in MasterRows(s, i) : q.updated_at = FetchedAt(s, i)
    BY DEF MasterRows
  <2> HIDE DEF n
  <2> QED BY <1>1, <1>6, <2>1, <2>2, <2>3, EndTurnStoresA
<1> QED BY <1>4, <1>5, <1>7, <1>8

LEMMA FinishA ==
  ASSUME OneCaller, TypeOK, IInv, AInv, NEW s \in Session, Finish(s)
  PROVE  AInv'
<1>1. \A i \in DOMAIN log :
        log'[i] = Seen(s)[i] \/ (log'[i].state = "failed" /\ Seen(s)[i].state = "pending")
  <2> SUFFICES ASSUME NEW i \in DOMAIN log, i \in Expired(s)
               PROVE  log'[i].state = "failed" /\ Seen(s)[i].state = "pending"
    BY DEF Finish
  <2>1. Seen(s)[i] \in LogRow BY SeenIsLog
  <2>2. log'[i] = [Seen(s)[i] EXCEPT !.state = "failed", !.error = "no response"]
    BY DEF Finish
  <2> QED BY <2>1, <2>2 DEF Expired, LogRow
<1>2. DOMAIN log' = DOMAIN log /\ DOMAIN Seen(s) = DOMAIN log
  BY DEF Finish, Seen
<1>3. snapshots' = SeenSnapshots(s) /\ stations' = SeenMasters(s)
  BY DEF Finish, SeenSnapshots, SeenMasters
<1>4. SeenAudited(s) BY DEF AInv
<1>5. Counted(log', snapshots') /\ Attributed(log', stations') /\ Repeated(log')
  BY <1>1, <1>2, <1>3, <1>4, SameIngests DEF SeenAudited
<1>6. Audited' BY <1>5 DEF Audited
<1>7. tx'[s] = Idle BY DEF Finish, TypeOK
<1> QED BY <1>6, <1>7, NothingSeen DEF AInv, OneCaller, Idle, Nothing

LEMMA RequestA ==
  ASSUME TypeOK, AInv, NEW feed \in Feed, Request(feed)
  PROVE  AInv'
<1>1. Pending(feed) \in LogRow /\ Pending(feed).state = "pending"
  BY DEF Pending, LogRow, NoStamp
<1>2. /\ Len(log) \in Nat /\ DOMAIN log = 1..Len(log)
      /\ DOMAIN log' = 1..(Len(log) + 1)
      /\ \A i \in DOMAIN log : log'[i] = log[i]
      /\ log'[Len(log) + 1] = Pending(feed)
  BY <1>1, LogShape, AppendProperties, LenProperties DEF TypeOK, Request
<1>3. \A i \in DOMAIN log' : i \in DOMAIN log \/ (i = Len(log) + 1 /\ log'[i].state = "pending")
  BY <1>1, <1>2
<1>4. UNCHANGED <<tx, snapshots, stations>> /\ DOMAIN log \subseteq DOMAIN log'
  BY <1>2 DEF Request
<1>5. Audited'
  <2>1. Counted(log', snapshots) /\ Attributed(log', stations) /\ Repeated(log')
    BY <1>2, <1>3, <1>4, SameIngests DEF AInv, Audited
  <2> QED BY <1>4, <2>1 DEF Audited
<1>6. ASSUME NEW s \in Session PROVE SeenAudited(s)'
  <2>1. IsCall(tx[s], DOMAIN log) /\ SeenAudited(s)
    BY DEF TypeOK, AInv
  <2>2. /\ \A i \in DOMAIN log : Seen(s)'[i] = Seen(s)[i]
        /\ DOMAIN Seen(s) = DOMAIN log /\ DOMAIN Seen(s)' = DOMAIN log'
        /\ \A i \in DOMAIN log' : i \in DOMAIN log \/ Seen(s)'[i].state = "pending"
    BY <1>2, <1>3, <1>4, <2>1 DEF Seen, IsCall
  <2>3. SeenSnapshots(s)' = SeenSnapshots(s) /\ SeenMasters(s)' = SeenMasters(s)
    BY <1>4 DEF SeenSnapshots, SeenMasters
  <2>4. Counted(Seen(s)', SeenSnapshots(s)) /\ Attributed(Seen(s)', SeenMasters(s))
        /\ Repeated(Seen(s)')
    BY <1>4, <2>1, <2>2, SameIngests DEF SeenAudited
  <2>5. FoundIngest(s)'
    <3> SUFFICES ASSUME tx[s].pc = "found", tx[s].dup, NEW i \in DOMAIN log', Current(s, i)'
                 PROVE  \E x \in DOMAIN log' :
                          IngestOf(Seen(s)'[x], log'[i].feed, BodyOf(s, i)'.last_updated)
      BY <1>4 DEF FoundIngest
    <3>1. Current(s, i) /\ i \in DOMAIN log /\ BodyOf(s, i)' = BodyOf(s, i)
      BY <1>4, <2>1 DEF Current, BodyOf, IsCall
    <3>2. PICK x \in DOMAIN log : IngestOf(Seen(s)[x], log[i].feed, BodyOf(s, i).last_updated)
      BY <2>1, <3>1 DEF SeenAudited, FoundIngest
    <3> QED BY <1>2, <1>4, <2>2, <3>1, <3>2
  <2> QED BY <2>3, <2>4, <2>5 DEF SeenAudited
<1> QED BY <1>5, <1>6 DEF AInv

LEMMA NextA ==
  ASSUME OneCaller, TypeOK, IInv, AInv, [Next]_vars
  PROVE  AInv'
<1>1. CASE \E feed \in Feed : Request(feed)
  BY <1>1, RequestA
<1>2. CASE UNCHANGED <<log, tx, snapshots, stations>>
  <2>1. \A s \in Session : Seen(s)' = Seen(s) /\ SeenSnapshots(s)' = SeenSnapshots(s)
                           /\ SeenMasters(s)' = SeenMasters(s)
    BY <1>2 DEF Seen, SeenSnapshots, SeenMasters
  <2>2. \A s \in Session : FoundIngest(s) => FoundIngest(s)'
    BY <1>2, <2>1 DEF FoundIngest, Current, BodyOf
  <2> QED BY <1>2, <2>1, <2>2 DEF AInv, SeenAudited, Audited
<1>3. CASE \/ \E B \in SUBSET queue : \E body \in [B -> Payload] : Deliver(B, body)
           \/ \E i \in DOMAIN resp : Forget(i)
           \/ Tick
           \/ UNCHANGED vars
  BY <1>2, <1>3 DEF Deliver, Forget, Tick, vars
<1>4. ASSUME NEW s \in Session, Begin(s) \/ Step(s) \/ DeadlockVictim(s) \/ Cancel(s)
      PROVE  AInv'
  <2>1. CASE Begin(s) BY <2>1, BeginA
  <2>2. CASE Finish(s) BY <2>2, FinishA
  <2>3. ASSUME NEW i \in DOMAIN log, LookUp(s, i) PROVE AInv'
    BY <2>3, LookUpA
  <2>4. ASSUME NEW i \in DOMAIN log,
               \/ LogFailed(s, i) \/ LogDuplicate(s, i)
               \/ StoreStatus(s, i) \/ StoreInformation(s, i)
        PROVE  AInv'
    BY <2>4, TurnA
  <2>5. CASE (\E i \in DOMAIN log : Raise(s, i)) \/ DeadlockVictim(s) \/ Cancel(s)
    <3>1. UNCHANGED <<log, snapshots, stations>> /\ tx' = [tx EXCEPT ![s] = Idle]
      BY <2>5 DEF Raise, DeadlockVictim, Cancel
    <3>2. \A t \in Session : tx'[t] = Idle
      BY <3>1 DEF OneCaller, TypeOK
    <3> QED BY <3>1, <3>2, IdleSeesCommitted DEF AInv
  <2> QED BY <1>4, <2>1, <2>2, <2>3, <2>4, <2>5 DEF Step
<1>5. CASE Crash
  BY <1>5, IdleSeesCommitted DEF Crash, AInv
<1> QED BY <1>1, <1>3, <1>4, <1>5 DEF Next

LEMMA InitA == Init => AInv
<1> SUFFICES ASSUME Init PROVE AInv
  OBVIOUS
<1>1. DOMAIN log = {} /\ snapshots = {} /\ stations = {} BY EmptySeq, LenProperties DEF Init
<1>2. \A s \in Session : tx[s] = Idle BY DEF Init
<1>3. Audited BY <1>1 DEF Audited, Counted, Attributed, Repeated
<1>4. ASSUME NEW s \in Session PROVE SeenAudited(s)
  <2>1. SeenSnapshots(s) = {} /\ SeenMasters(s) = {} /\ DOMAIN Seen(s) = {} /\ tx[s].pc = "idle"
    BY <1>1, <1>2 DEF SeenSnapshots, SeenMasters, Seen, Idle
  <2> QED BY <2>1 DEF SeenAudited, Counted, Attributed, Repeated, FoundIngest
<1> QED BY <1>3, <1>4 DEF AInv

LEMMA AInvAlways == ASSUME OneCaller PROVE Spec => []AInv
<1>1. TypeOK /\ IInv /\ AInv /\ [Next]_vars => AInv'
  BY NextA
<1> QED BY <1>1, InitA, TypeCorrect, IInvAlways, PTL DEF Spec

(* The audit agrees with the tables while one session calls gbfs_ingest:   *)
(* every snapshot row is accounted for by a request logged as ingested,    *)
(* whose n_rows counts the rows it stored, whatever is rolled back.        *)
THEOREM SnapshotRowsAudited == ASSUME OneCaller PROVE Spec => []SnapshotsAudited
<1>1. AInv => SnapshotsAudited
  <2>1. \A i : RowsOf(i) = RowsFor(log[i], snapshots) BY DEF RowsOf, RowsFor
  <2> QED BY <2>1 DEF AInv, Audited, Counted, StoresStatus, SnapshotsAudited
<1> QED BY <1>1, AInvAlways, PTL

(* Every row of the station master carries the fetch time of a request     *)
(* logged as an ingested station_information fetch, while one session      *)
(* calls gbfs_ingest.                                                      *)
THEOREM MasterRowsAudited == ASSUME OneCaller PROVE Spec => []MasterAudited
<1>1. AInv => MasterAudited
  BY DEF AInv, Audited, Attributed, MasterAudited
<1> QED BY <1>1, AInvAlways, PTL

-----------------------------------------------------------------------------
(***************************************************************************)
(* The refinement.  A commit settles the requests the call has logged or   *)
(* found expired, a request asks, and every other step changes nothing     *)
(* that the audit shows.                                                   *)
(***************************************************************************)
Outcome == [i \in DOMAIN log |-> [feed |-> log[i].feed, state |-> log[i].state,
                                  published |-> log[i].source_last_updated]]

StoredPublications == {p.source_last_updated : p \in snapshots}

LEMMA InitRefines == Init => Audit!Init
<1> SUFFICES ASSUME Init PROVE Audit!Init
  OBVIOUS
<1>1. DOMAIN log = {} /\ snapshots = {} BY EmptySeq, LenProperties DEF Init
<1>2. Outcome = <<>>
  <2>1. Outcome \in Seq({}) /\ Len(Outcome) = 0
    BY <1>1, LogOf DEF Outcome
  <2> QED BY <2>1, EmptySeq
<1> QED BY <1>1, <1>2 DEF Audit!Init, Outcome

LEMMA RequestRefines ==
  ASSUME TypeOK, NEW feed \in Feed, Request(feed)
  PROVE  Audit!Ask(feed)
<1> DEFINE new == [feed |-> feed, state |-> "pending", published |-> 0]
           next == [i \in DOMAIN log' |-> [feed |-> log'[i].feed, state |-> log'[i].state,
                                           published |-> log'[i].source_last_updated]]
           S == {[feed |-> log[i].feed, state |-> log[i].state,
                  published |-> log[i].source_last_updated] : i \in DOMAIN log} \union {new}
<1>1. /\ Pending(feed) \in LogRow /\ Pending(feed).feed = feed
      /\ Pending(feed).state = "pending" /\ Pending(feed).source_last_updated = 0
  BY DEF Pending, LogRow, NoStamp
<1>2. /\ Len(log) \in Nat /\ DOMAIN log = 1..Len(log)
      /\ DOMAIN log' = 1..(Len(log) + 1)
      /\ \A i \in DOMAIN log : log'[i] = log[i]
      /\ log'[Len(log) + 1] = Pending(feed)
  BY <1>1, LogShape, AppendProperties, LenProperties DEF TypeOK, Request
<1>3. Outcome \in Seq(S) /\ Len(Outcome) = Len(log)
  BY <1>2, LogOf DEF Outcome
<1>4. /\ Append(Outcome, new) \in Seq(S) /\ Len(Append(Outcome, new)) = Len(log) + 1
      /\ \A i \in 1..Len(log) : Append(Outcome, new)[i] = Outcome[i]
      /\ Append(Outcome, new)[Len(log) + 1] = new
  <2>1. new \in S OBVIOUS
  <2> HIDE DEF S, new
  <2> QED BY <1>2, <1>3, <2>1, AppendProperties
<1>5. next \in [1..(Len(log) + 1) -> S]
  <2>1. \A i \in 1..(Len(log) + 1) : i \in DOMAIN log \/ i = Len(log) + 1
    BY <1>2
  <2> QED BY <1>1, <1>2, <2>1
<1>6. \A i \in 1..(Len(log) + 1) : next[i] = Append(Outcome, new)[i]
  <2>1. ASSUME NEW i \in 1..Len(log) PROVE next[i] = Outcome[i]
    BY <1>2, <2>1 DEF Outcome
  <2>2. next[Len(log) + 1] = new
    BY <1>1, <1>2
  <2>3. \A i \in 1..(Len(log) + 1) : i \in 1..Len(log) \/ i = Len(log) + 1
    BY <1>2
  <2> HIDE DEF next, new, S
  <2> QED BY <1>4, <2>1, <2>2, <2>3
<1>7. next = Append(Outcome, new)
  <2> HIDE DEF next, new, S
  <2>1. Append(Outcome, new) \in [1..(Len(log) + 1) -> S]
    BY <1>2, <1>4, LenProperties, ElementOfSeq
  <2> QED BY <1>5, <1>6, <2>1
<1>8. StoredPublications' = StoredPublications
  BY DEF Request, StoredPublications
<1> QED BY <1>7, <1>8 DEF Audit!Ask, Outcome, StoredPublications

LEMMA FinishRefines ==
  ASSUME OneCaller, TypeOK, IInv, OneIngestPerPublication', CInv, AInv, AInv', NEW s \in Session, Finish(s)
  PROVE  Audit!Settle
<1>1. DOMAIN log' = DOMAIN log BY DEF Finish
<1>2. ASSUME NEW i \in DOMAIN log
      PROVE  /\ log'[i].feed = log[i].feed
             /\ log'[i] = log[i] \/ (log[i].state = "pending"
                                       /\ log'[i].state \in {"ingested", "duplicate", "failed"})
  <2>1. /\ Seen(s)[i] \in LogRow /\ Seen(s)[i].feed = log[i].feed
        /\ Seen(s)[i] = log[i] \/ (log[i].state = "pending" /\ Seen(s)[i].state # "pending")
    BY SeenIsLog DEF Seen, IInv, Unsettled
  <2>2. CASE i \in Expired(s)
    <3>1. log'[i] = [Seen(s)[i] EXCEPT !.state = "failed", !.error = "no response"]
      BY <2>2 DEF Finish
    <3> QED BY <2>1, <2>2, <3>1 DEF Expired, LogRow
  <2>3. CASE i \notin Expired(s)
    <3>1. log'[i] = Seen(s)[i] BY <2>3 DEF Finish
    <3> QED BY <2>1, <3>1 DEF LogRow
  <2> QED BY <2>2, <2>3
<1>3. \A i, j \in DOMAIN log :
        /\ log'[i].state = "ingested" /\ log'[j].state = "ingested"
        /\ log'[i].source_last_updated # 0
        /\ log'[i].feed = log'[j].feed
        /\ log'[i].source_last_updated = log'[j].source_last_updated
        => i = j
  BY <1>1 DEF OneIngestPerPublication, NoStamp
<1>4. ASSUME NEW i \in DOMAIN log, log'[i].state = "duplicate"
      PROVE  \E j \in DOMAIN log :
               /\ log'[j].state = "ingested" /\ log'[j].source_last_updated # 0
               /\ log'[j].feed = log'[i].feed
               /\ log'[j].source_last_updated = log'[i].source_last_updated
  BY <1>1, <1>4 DEF AInv, Audited, Repeated, IngestOf, NoStamp
<1>5. StoredPublications \subseteq StoredPublications'
  BY DEF Finish, StoredPublications
<1>6. ASSUME NEW u \in StoredPublications' \ StoredPublications
      PROVE  \E i \in DOMAIN log :
               /\ log[i].state = "pending" /\ log'[i].state = "ingested"
               /\ log'[i].source_last_updated # 0 /\ log'[i].source_last_updated = u
               /\ log'[i].feed = "station_status"
  <2>1. PICK p \in tx[s].snapshots : p.source_last_updated = u
    BY DEF Finish, StoredPublications
  <2>2. PICK i \in DOMAIN tx[s].log :
          /\ tx[s].log[i].feed = "station_status" /\ tx[s].log[i].state = "ingested"
          /\ p.source_last_updated = tx[s].log[i].source_last_updated
    BY <2>1 DEF CInv, Accounted
  <2>3. i \in DOMAIN log /\ Seen(s)[i] = tx[s].log[i] /\ log[i].state = "pending"
    BY DEF TypeOK, IsCall, Seen, IInv, Unsettled
  <2>4. u # 0
    BY <2>1 DEF AInv, SeenAudited, Counted, SeenSnapshots, NoStamp
  <2>5. log'[i] = Seen(s)[i]
    BY <2>2, <2>3 DEF Finish, Expired
  <2> QED BY <2>1, <2>2, <2>3, <2>4, <2>5
<1> USE DEF Audit!Ingested, Audit!Publication
<1>7. DOMAIN Outcome' = DOMAIN log /\ DOMAIN Outcome = DOMAIN log
      /\ \A i \in DOMAIN log :
           /\ Outcome'[i] = [feed |-> log'[i].feed, state |-> log'[i].state,
                             published |-> log'[i].source_last_updated]
           /\ Outcome[i] = [feed |-> log[i].feed, state |-> log[i].state,
                            published |-> log[i].source_last_updated]
  BY <1>1 DEF Outcome
<1>8. \A i \in DOMAIN Outcome :
        \/ Outcome'[i] = Outcome[i]
        \/ /\ Outcome[i].state = "pending"
           /\ Outcome'[i].feed = Outcome[i].feed
           /\ Outcome'[i].state \in {"ingested", "duplicate", "failed"}
  BY <1>2, <1>7
<1>9. \A i, j \in DOMAIN Outcome :
        /\ Audit!Ingested(Outcome'[i]) /\ Audit!Ingested(Outcome'[j])
        /\ Audit!Publication(Outcome'[i]) = Audit!Publication(Outcome'[j])
        => i = j
  BY <1>3, <1>7
<1>10. \A i \in DOMAIN Outcome :
         Outcome'[i].state = "duplicate"
           => \E j \in DOMAIN Outcome :
                /\ Audit!Ingested(Outcome'[j])
                /\ Audit!Publication(Outcome'[j]) = Audit!Publication(Outcome'[i])
  BY <1>4, <1>7
<1>11. \A u \in StoredPublications' \ StoredPublications : \E i \in DOMAIN Outcome :
         /\ Outcome[i].state = "pending"
         /\ Audit!Ingested(Outcome'[i])
         /\ Audit!Publication(Outcome'[i]) = <<"station_status", u>>
  BY <1>6, <1>7
<1>12. DOMAIN Outcome' = DOMAIN Outcome
  BY <1>7
<1> QED BY <1>5, <1>8, <1>9, <1>10, <1>11, <1>12 DEF Audit!Settle, Outcome, StoredPublications

LEMMA StepRefines ==
  ASSUME OneCaller, TypeOK, IInv, OneIngestPerPublication', CInv, AInv, AInv', [Next]_vars
  PROVE  [Audit!Next]_Audit!auditVars
<1>1. CASE \E feed \in Feed : Request(feed)
  BY <1>1, RequestRefines DEF Audit!Next
<1>2. CASE \E s \in Session : Finish(s)
  BY <1>2, FinishRefines DEF Audit!Next
<1>3. CASE UNCHANGED <<log, snapshots>>
  BY <1>3 DEF Audit!auditVars
<1>4. ASSUME NEW s \in Session, Begin(s) \/ Step(s) \/ DeadlockVictim(s) \/ Cancel(s)
      PROVE  Finish(s) \/ UNCHANGED <<log, snapshots>>
  BY <1>4 DEF Begin, Step, DeadlockVictim, Cancel, LookUp, LogFailed, LogDuplicate,
              StoreStatus, StoreInformation, Raise, EndTurn
<1>5. CASE \/ \E B \in SUBSET queue : \E body \in [B -> Payload] : Deliver(B, body)
           \/ \E i \in DOMAIN resp : Forget(i)
           \/ Tick \/ Crash \/ UNCHANGED vars
  BY <1>3, <1>5 DEF Deliver, Forget, Tick, Crash, vars
<1> QED BY <1>1, <1>2, <1>3, <1>4, <1>5 DEF Next

(* With one caller the ingestion implements the audit it promises: every   *)
(* request gets its outcome in one step and once, a publication has one    *)
(* ingest, a duplicate repeats it, and only what a request ingests is      *)
(* stored - whatever turns, rollbacks and crashes lie in between.          *)
THEOREM ImplementsAudit == ASSUME OneCaller PROVE Spec => AuditSpec
<1>1. TypeOK /\ IInv /\ OneIngestPerPublication' /\ CInv /\ AInv /\ AInv' /\ [Next]_vars
        => [Audit!Next]_Audit!auditVars
  BY StepRefines
<1> QED BY <1>1, InitRefines, TypeCorrect, IInvAlways, PublicationIngestedOnce, CInvAlways, AInvAlways, PTL
        DEF Spec, AuditSpec, Audit!Spec
===============================================================================
