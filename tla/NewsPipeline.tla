----------------------------- MODULE NewsPipeline -----------------------------
(***************************************************************************)
(* News collection (pipelines/collectors, services/api/news_sync.py,       *)
(* ml/vectorstore/news_store.py): a collection run fetches articles, drops *)
(* what its checkpoint has seen, and then writes, one after the other, the *)
(* checkpoint, a snapshot of the accepted articles and the vector store; a *)
(* sync request of the API adds what it fetched to the same store.         *)
(*                                                                         *)
(* All of it lives in files that are rewritten in place: opening one for   *)
(* writing empties it, and a process killed before it has written leaves   *)
(* it Torn.  The store is two files, the vectors (index.faiss) and their   *)
(* records (meta.json), and the vector at a position belongs to the record *)
(* at that position.  Nothing is locked.                                   *)
(***************************************************************************)
EXTENDS Naturals, FiniteSets, SequencesExt

CONSTANTS
  Article,    \* articles, identified by their url
  title,      \* article -> normalised title
  Collector,  \* processes of collect_live_news
  Sync,       \* request threads of POST /v2/news/sync
  Stamp,      \* the stamps a collection run may be given
  Absent,     \* a file that does not exist
  Torn,       \* a file that was opened for writing and not written
  MaxRuns,    \* bound: runs and requests
  MaxKills    \* bound: processes killed

ASSUME ConstantsAssumption ==
  /\ IsFiniteSet(Article) /\ DOMAIN title = Article
  /\ Collector \intersect Sync = {}
  /\ Stamp \intersect {"checkpoint", "index", "meta"} = {}
  /\ Absent # Torn
  /\ \A S \in SUBSET ({"u"} \X Article \union {<<"t", title[a]>> : a \in Article}) :
       S \notin {Absent, Torn}
  /\ MaxRuns \in Nat /\ MaxKills \in Nat

VARIABLES
  disk,        \* file -> content
  proc,        \* process -> what it does
  runs,        \* runs and requests so far (bound)
  killed,      \* processes killed so far (bound)
  written,     \* article -> times it was written to a snapshot (history)
  answered,    \* articles whose run or request has completed (history)
  overlapped,  \* whether two processes used the store at a time (history)
  cuts         \* records on disk at kills between the writes of a save (history)

vars == <<disk, proc, runs, killed, written, answered, overlapped, cuts>>

Process == Collector \union Sync

File == Stamp \union {"checkpoint", "index", "meta"}

Key == {<<"u", a>> : a \in Article} \union {<<"t", title[a]>> : a \in Article}

Keys(A) == {<<"u", a>> : a \in A} \union {<<"t", title[a]>> : a \in A}

(* seen: the checkpoint in memory; batch: the articles to store; todo: the *)
(* files to write; index, meta: the store in memory.                       *)
Idle == [pc |-> "idle", stamp |-> Absent, seen |-> {}, batch |-> {},
         todo |-> <<>>, index |-> <<>>, meta |-> <<>>]

Init ==
  /\ disk = [f \in File |-> Absent]
  /\ proc = [p \in Process |-> Idle]
  /\ runs = 0 /\ killed = 0
  /\ written = [a \in Article |-> 0]
  /\ answered = {} /\ overlapped = FALSE /\ cuts = {}

-----------------------------------------------------------------------------
(* backfill_news and sync_live_news                                        *)

(* A collection run begins: _load_checkpoint, which raises on a torn file. *)
Collect(c, stamp) ==
  /\ proc[c].pc = "idle" /\ runs < MaxRuns
  /\ disk["checkpoint"] # Torn
  /\ proc' = [proc EXCEPT ![c] =
       [Idle EXCEPT
          !.pc = "fetching", !.stamp = stamp,
          !.seen = IF disk["checkpoint"] = Absent THEN {} ELSE disk["checkpoint"]]]
  /\ runs' = runs + 1
  /\ UNCHANGED <<disk, killed, written, answered, overlapped, cuts>>

(* Mutant of Accepts: titles are compared with the checkpoint, not within  *)
(* the batch.                                                              *)
AcceptsTwins(A, raw, seen) ==
  A = {a \in raw : Keys({a}) \intersect seen = {}}

(* The articles of a fetch that pass the duplicate filter, in whatever     *)
(* order the provider lists them: the first of several with one title.     *)
Accepts(A, raw, seen) ==
  /\ A \subseteq {a \in raw : Keys({a}) \intersect seen = {}}
  /\ \A a, b \in A : title[a] = title[b] => a = b
  /\ \A b \in raw : Keys({b}) \intersect (seen \union Keys(A)) # {}

Fetch(c, raw, A) ==
  /\ proc[c].pc = "fetching"
  /\ Accepts(A, raw, proc[c].seen)
  /\ proc' = [proc EXCEPT ![c].pc = "writing", ![c].batch = A,
                          ![c].seen = proc[c].seen \union Keys(A),
                          ![c].todo = <<"checkpoint", proc[c].stamp>>]
  /\ UNCHANGED <<disk, runs, killed, written, answered, overlapped, cuts>>

(* The source is unavailable: the checkpoint is saved as it was, and the   *)
(* run ends.                                                               *)
FetchDegraded(c) ==
  /\ proc[c].pc = "fetching"
  /\ proc' = [proc EXCEPT ![c].pc = "writing", ![c].todo = <<"checkpoint">>]
  /\ UNCHANGED <<disk, runs, killed, written, answered, overlapped, cuts>>

(* A sync request has fetched these articles; it asks no checkpoint.       *)
SyncNews(s, A) ==
  /\ proc[s].pc = "idle" /\ runs < MaxRuns
  /\ proc' = [proc EXCEPT ![s] = [Idle EXCEPT !.pc = "loading", !.batch = A]]
  /\ runs' = runs + 1
  /\ UNCHANGED <<disk, killed, written, answered, overlapped, cuts>>

-----------------------------------------------------------------------------
(* The vector store: load_or_new, add, save                                *)

InStore(p) ==
  \/ proc[p].pc = "reading"
  \/ proc[p].pc \in {"writing", "opened"} /\ Head(proc[p].todo) \in {"index", "meta"}

NoteOverlap(p) ==
  overlapped' = (overlapped \/ \E q \in Process \ {p} : InStore(q))

(* Mutant of Fresh: articles are not compared with the records.            *)
FreshAll(A, records) == SetToSeq(A)

(* The articles of a batch that the loaded records do not have.            *)
Fresh(A, records) == SetToSeq(A \ ToSet(records))

(* Mutants of Add: the records are saved first; every vector is added.     *)
AddRecordsFirst(p, index, meta) ==
  proc' = [proc EXCEPT
    ![p].pc = "writing", ![p].todo = <<"meta", "index">>,
    ![p].index = index \o Fresh(proc[p].batch, meta),
    ![p].meta = meta \o Fresh(proc[p].batch, meta)]

AddEveryVector(p, index, meta) ==
  proc' = [proc EXCEPT
    ![p].pc = "writing", ![p].todo = <<"index", "meta">>,
    ![p].index = index \o SetToSeq(proc[p].batch),
    ![p].meta = meta \o Fresh(proc[p].batch, meta)]

(* store.add to the loaded vectors and records; save is next.              *)
Add(p, index, meta) ==
  proc' = [proc EXCEPT
    ![p].pc = "writing", ![p].todo = <<"index", "meta">>,
    ![p].index = index \o Fresh(proc[p].batch, meta),
    ![p].meta = meta \o Fresh(proc[p].batch, meta)]

(* Mutant of LoadNew: a damaged store is started anew.                     *)
LoadNewIfDamaged(p) ==
  /\ proc[p].pc = "loading"
  /\ {Absent, Torn} \intersect {disk["index"], disk["meta"]} # {}
  /\ Add(p, <<>>, <<>>)
  /\ NoteOverlap(p)
  /\ UNCHANGED <<disk, runs, killed, written, answered, cuts>>

(* load_or_new: one of the files is missing, and the store starts empty.   *)
LoadNew(p) ==
  /\ proc[p].pc = "loading"
  /\ Absent \in {disk["index"], disk["meta"]}
  /\ Add(p, <<>>, <<>>)
  /\ NoteOverlap(p)
  /\ UNCHANGED <<disk, runs, killed, written, answered, cuts>>

(* load: the records first, then the vectors.                              *)
LoadMeta(p) ==
  /\ proc[p].pc = "loading"
  /\ Absent \notin {disk["index"], disk["meta"]} /\ disk["meta"] # Torn
  /\ proc' = [proc EXCEPT ![p].pc = "reading", ![p].meta = disk["meta"]]
  /\ NoteOverlap(p)
  /\ UNCHANGED <<disk, runs, killed, written, answered, cuts>>

LoadIndex(p) ==
  /\ proc[p].pc = "reading" /\ disk["index"] # Torn
  /\ Add(p, disk["index"], proc[p].meta)
  /\ UNCHANGED <<disk, runs, killed, written, answered, overlapped, cuts>>

(* The file that is read next is torn: an exception nobody catches.        *)
LoadRaises(p) ==
  /\ \/ /\ proc[p].pc = "loading" /\ disk["meta"] = Torn
        /\ disk["index"] # Absent
     \/ proc[p].pc = "reading" /\ disk["index"] = Torn
  /\ proc' = [proc EXCEPT ![p] = Idle]
  /\ UNCHANGED <<disk, runs, killed, written, answered, overlapped, cuts>>

-----------------------------------------------------------------------------
(* Writing the files                                                       *)

Whole(f) == disk[f] \notin {Absent, Torn}

(* What p writes to a file: _save_checkpoint, _snapshot, save.             *)
Content(p, f) ==
  CASE f = "checkpoint" -> proc[p].seen
    [] f = "index"      -> proc[p].index
    [] f = "meta"       -> proc[p].meta
    [] f \in Stamp      -> proc[p].batch

(* The file is opened with "w" and is empty.                               *)
Open(p) ==
  /\ proc[p].pc = "writing"
  /\ disk' = [disk EXCEPT ![Head(proc[p].todo)] = Torn]
  /\ proc' = [proc EXCEPT ![p].pc = "opened"]
  /\ UNCHANGED <<runs, killed, written, answered, overlapped, cuts>>

(* The content is there.  After the snapshot comes the store; a degraded   *)
(* run ends with the checkpoint.                                           *)
Write(p) ==
  LET file == Head(proc[p].todo)
      rest == Tail(proc[p].todo)
  IN  /\ proc[p].pc = "opened"
      /\ disk' = [disk EXCEPT ![file] = Content(p, file)]
      /\ proc' = [proc EXCEPT ![p] =
           IF rest # <<>> THEN [proc[p] EXCEPT !.pc = "writing", !.todo = rest]
           ELSE IF file \in Stamp THEN [proc[p] EXCEPT !.pc = "loading", !.todo = <<>>]
           ELSE Idle]
      /\ written' = [a \in Article |->
           IF file \in Stamp /\ a \in proc[p].batch THEN written[a] + 1 ELSE written[a]]
      /\ answered' = answered \union IF file = "meta" THEN proc[p].batch ELSE {}
      /\ UNCHANGED <<runs, killed, overlapped, cuts>>

(* A process is killed, or ends with an exception of its own (a date that  *)
(* does not parse, a full disk).  Between the two writes of a save it      *)
(* leaves the new vectors with the old records.                            *)
Kill(p) ==
  /\ proc[p].pc # "idle" /\ killed < MaxKills
  /\ proc' = [proc EXCEPT ![p] = Idle]
  /\ killed' = killed + 1
  /\ cuts' = IF proc[p].pc = "writing" /\ proc[p].todo = <<"meta">> /\ Whole("meta")
             THEN cuts \union {Len(disk["meta"])} ELSE cuts
  /\ UNCHANGED <<disk, runs, written, answered, overlapped>>

Next ==
  \/ \E c \in Collector :
       \/ \E stamp \in Stamp : Collect(c, stamp)
       \/ \E raw \in SUBSET Article : \E A \in SUBSET raw : Fetch(c, raw, A)
       \/ FetchDegraded(c)
  \/ \E s \in Sync, A \in SUBSET Article : SyncNews(s, A)
  \/ \E p \in Process :
       \/ LoadNew(p) \/ LoadMeta(p) \/ LoadIndex(p) \/ LoadRaises(p)
       \/ Open(p) \/ Write(p) \/ Kill(p)

Spec == Init /\ [][Next]_vars

-----------------------------------------------------------------------------
(* Properties                                                              *)

(* Re-running never adds duplicates (backfill.py), also when runs are      *)
(* killed: whatever the order of runs, an article is delivered to the      *)
(* snapshots once at most, and only one article of a title.                *)
DeliveredOnce ==
  /\ \A a \in Article : written[a] <= 1
  /\ \A a, b \in Article :
       title[a] = title[b] /\ written[a] = 1 /\ written[b] = 1 => a = b

(* The same article is in the records once (add is idempotent), whoever    *)
(* overlaps with whom and is killed.                                       *)
NoRecordTwice == Whole("meta") => IsInjective(disk["meta"])

(* While runs and requests use the store one after the other, a record is  *)
(* at the position of its vector, which search relies on, also between the *)
(* two writes of a save, whose vectors come first.  It ends with a save    *)
(* that is killed there: the vectors it leaves over shift every record     *)
(* that is stored from then on, and search answers with another article.   *)
RecordAtItsVector ==
  ~overlapped /\ Whole("index") /\ Whole("meta")
    => \A i \in DOMAIN disk["meta"] :
         (\A n \in cuts : i <= n)
           => i \in DOMAIN disk["index"] /\ disk["index"][i] = disk["meta"][i]

(* ... the store keeps growing: what a run or a request has stored stays,  *)
(* unless a save is killed while it writes meta.json: that leaves no       *)
(* records at all.                                                         *)
StoreAccumulates ==
  ~overlapped /\ Whole("meta") => answered \subseteq ToSet(disk["meta"])

(* ... and when nobody has been killed either, the vector at a position is *)
(* the one of the record at that position, which search relies on.         *)
VectorsMatchRecords ==
  ~overlapped /\ killed = 0 /\ (\A p \in Process : ~InStore(p))
    => disk["index"] = disk["meta"]
=============================================================================
