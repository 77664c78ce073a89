------------------------------ MODULE EventStore ------------------------------
(***************************************************************************)
(* Where extracted events are kept, next to the shadow stream that works   *)
(* on the same articles (LiveShadow):                                      *)
(*                                                                         *)
(*   scripts/build_graph.py           articles -> event graph, exported as *)
(*                                    JSON or merged into a Neo4j server   *)
(*   scripts/supabase_load_history.py graph, forecasts and demand -> tables*)
(*                                                                         *)
(* Both are programs an operator runs by hand, one at a time, and may be   *)
(* killed between any two of their writes.                                 *)
(***************************************************************************)
EXTENDS LiveShadow, Sequences, SequencesExt

CONSTANTS
  file,         \* article -> the news file it is in, files by name
  Permit,       \* permits of the city, each an event of its own
  permitPlace,  \* permit -> the zones of its location
  Requests,     \* sequences of tables a load may be asked for
  MaxJobs       \* bound: programs run, if the stream is not

Tables == {"events", "model_forecasts", "demand_zone_hour"}

ASSUME StoreAssumption ==
  /\ file \in [Article -> Nat]
  /\ \A a, b \in Article :   \* a line of a file is one article
       file[a] = file[b] /\ line[a] = line[b] => a = b
  /\ IsFiniteSet(Permit) /\ Permit \intersect Article = {}
  /\ permitPlace \in [Permit -> SUBSET Zone]
  /\ Requests \subseteq Seq(Tables)
  /\ \A asked \in Requests :   \* each table once
       asked # <<>> /\ \A i, j \in DOMAIN asked : asked[i] = asked[j] => i = j
  /\ MaxJobs \in Nat

VARIABLES
  pc,        \* what the running program does next
  unread,    \* build_graph: news files still to be read
  read,      \* build_graph: articles read
  graph,     \* build_graph: the store it fills
  snapshot,  \* event_graph.json
  server,    \* the graph in Neo4j
  todo,      \* load: tables asked for and not loaded
  rows,      \* load: rows of the upsert's transaction
  stamp,     \* load: loaded_at
  table,     \* table -> key -> row
  audits,    \* history_load_runs
  ordered,   \* articles came as they are read, not during a read, and all are (history)
  cut,       \* loads killed between their rows and their audit row (history)
  jobs,      \* programs so far (bound)
  jobKills   \* programs killed and files skipped so far (bound)

job == <<pc, unread, read, graph, todo, rows, stamp>>
graphs == <<snapshot, server>>
history == <<table, audits>>
ghosts == <<ordered, cut>>
storeVars == <<job, graphs, history, ghosts, jobs, jobKills>>

-----------------------------------------------------------------------------
(* Extraction                                                              *)

(* Mutant of Merge: the later article takes the event over.                *)
MergeIntoLater(kept, a) ==
  {k \in kept : story[k.event] # story[a]}
    \union {[event |-> a,
             sources |-> {a} \union UNION {k.sources : k \in {x \in kept : story[x.event] = story[a]}}]}

(* Mutant of Merge: an event that is dropped leaves no source behind.      *)
MergeForgetful(kept, a) ==
  IF \E k \in kept : story[k.event] = story[a] THEN kept
  ELSE kept \union {[event |-> a, sources |-> {a}]}

(* One step of _deduplicate: an event like one that is kept becomes a      *)
(* source of it and is dropped; the kept event stays as it was extracted.  *)
Merge(kept, a) ==
  IF \E k \in kept : story[k.event] = story[a]
  THEN {IF story[k.event] = story[a] THEN [k EXCEPT !.sources = @ \union {a}] ELSE k : k \in kept}
  ELSE kept \union {[event |-> a, sources |-> {a}]}

Extract(articles) == FoldLeft(Merge, {}, articles)

(* Inside a file articles come as they became available.                   *)
SoonerAvailable(a, b) == at[a] < at[b] \/ (at[a] = at[b] /\ line[a] < line[b])

(* The articles of A, sorted.                                              *)
Sorted(A, Before(_, _)) ==
  CHOOSE s \in [1..Cardinality(A) -> A] : \A i, j \in DOMAIN s : i < j => Before(s[i], s[j])

ByAvailability(A) == Sorted(A, SoonerAvailable)

ReadsBefore(a, b) == file[a] < file[b] \/ (file[a] = file[b] /\ SoonerAvailable(a, b))

ByFile(A) == Sorted(A, ReadsBefore)

-----------------------------------------------------------------------------
(* The graph                                                               *)

EmptyGraph == [events |-> {}, reports |-> {}, affects |-> {}]

(* upsert: nodes and edges are merged by key, nothing is removed.          *)
MergeGraph(g, h) ==
  [events  |-> g.events \union h.events,
   reports |-> g.reports \union h.reports,
   affects |-> g.affects \union h.affects]

(* load_permitted_as_events: a permit, on however many dates, is one event *)
(* with its own record as the article and the centre of its borough.       *)
PermitGraph(P) ==
  [events  |-> P,
   reports |-> {<<p, p>> : p \in P},
   affects |-> UNION {{p} \X permitPlace[p] : p \in P}]

(* build_graph_ops for the events of A: an event, the articles that report *)
(* it, and the zones of its own locations.                                 *)
NewsGraph(A) ==
  LET kept == Extract(ByFile(A))
  IN  [events  |-> {k.event : k \in kept},
       reports |-> UNION {k.sources \X {k.event} : k \in kept},
       affects |-> UNION {{k.event} \X place[k.event] : k \in kept}]

(* audit().clean: the edges an event lacks are those of its provenance.    *)
Clean(g) == \A e \in g.events : \E r \in g.reports : r[2] = e

-----------------------------------------------------------------------------
NoRows == [k \in {} |-> {}]

StoreInit ==
  /\ Init
  /\ pc = "idle" /\ unread = {} /\ read = {} /\ graph = EmptyGraph
  /\ todo = <<>> /\ rows = NoRows /\ stamp = 0
  /\ snapshot = Absent /\ server = EmptyGraph
  /\ table = [t \in Tables |-> NoRows] /\ audits = {}
  /\ ordered = TRUE /\ cut = {}
  /\ jobs = 0 /\ jobKills = 0

(* MaxRuns and MaxKills bound the runs of the stream and the programs      *)
(* together; MaxJobs bounds programs without a run of the stream.          *)
MayStart == runs + jobs < MaxRuns
MayKill == killed + jobKills < MaxKills

StartJob ==
  /\ pc = "idle"
  /\ MayStart \/ (runs = 0 /\ jobs < MaxJobs)
  /\ jobs' = jobs + 1

Quit ==
  /\ pc' = "idle" /\ unread' = {} /\ read' = {} /\ graph' = EmptyGraph
  /\ todo' = <<>> /\ rows' = NoRows /\ stamp' = 0

(* An article is written to its news file.                                 *)
FileArticle(a) ==
  /\ CollectArticle(a)
  /\ ordered' = (ordered /\ pc # "reading" /\ \A b \in collected : ReadsBefore(b, a))
  /\ UNCHANGED <<job, graphs, history, cut, jobs, jobKills>>

(* build_graph.main begins; without any article it would read the demo     *)
(* fixture in their place, which is left out ...                           *)
BeginBuild ==
  /\ StartJob /\ collected # {}
  /\ pc' = "reading" /\ unread' = {file[a] : a \in Article} /\ read' = {}
  /\ UNCHANGED <<graph, todo, rows, stamp, graphs, history, ghosts, jobKills>>

(* ... reads the news files in the order of their names ...                *)
ReadFile(f) ==
  /\ pc = "reading" /\ f \in unread /\ \A g \in unread : f <= g
  /\ unread' = unread \ {f}
  /\ read' = read \union {a \in collected : file[a] = f}
  /\ UNCHANGED <<pc, graph, todo, rows, stamp, graphs, history, ghosts, jobs, jobKills>>

(* ... or skips one it cannot read, though not all that have articles ...  *)
SkipFile(f) ==
  /\ pc = "reading" /\ f \in unread /\ \A g \in unread : f <= g
  /\ \E a \in collected : file[a] = f
  /\ read # {} \/ \E a \in collected : file[a] \in unread \ {f}
  /\ MayKill /\ jobKills' = jobKills + 1
  /\ unread' = unread \ {f}
  /\ ordered' = FALSE
  /\ UNCHANGED <<pc, read, graph, todo, rows, stamp, graphs, history, cut, jobs>>

(* ... extracts and, with --permitted-limit 0, leaves the permits out.     *)
Link(P) ==
  /\ pc = "reading" /\ unread = {}
  /\ pc' = "linked"
  /\ graph' = MergeGraph(NewsGraph(read), PermitGraph(P))
  /\ UNCHANGED <<unread, read, todo, rows, stamp, graphs, history, ghosts, jobs, jobKills>>

(* --backend neo4j: one transaction, and a second one that changes nothing.*)
UpsertServer ==
  /\ pc = "linked"
  /\ server' = MergeGraph(server, graph)
  /\ Quit
  /\ UNCHANGED <<snapshot, history, ghosts, jobs, jobKills>>

(* --backend memory: export_graph opens the file, which empties it ...     *)
OpenExport ==
  /\ pc = "linked"
  /\ pc' = "exporting"
  /\ snapshot' = Torn
  /\ UNCHANGED <<unread, read, graph, todo, rows, stamp, server, history, ghosts, jobs, jobKills>>

(* ... and writes it.                                                      *)
WriteExport ==
  /\ pc = "exporting"
  /\ snapshot' = graph
  /\ Quit
  /\ UNCHANGED <<server, history, ghosts, jobs, jobKills>>

-----------------------------------------------------------------------------
(* supabase_load_history                                                   *)

(* run() takes one `now` for all its tables.                               *)
BeginLoad(asked) ==
  /\ StartJob
  /\ pc' = "choosing" /\ todo' = asked /\ stamp' = jobs'
  /\ UNCHANGED <<unread, read, graph, rows, graphs, history, ghosts, jobKills>>

Readable == snapshot \notin {Absent, Torn}

(* event_rows: the zones an event affects; a prediction or a demand label  *)
(* is a row of its zone.                                                   *)
RowsOf(t) ==
  IF t = "events"
  THEN [e \in snapshot.events |-> {r[2] : r \in {x \in snapshot.affects : x[1] = e}}]
  ELSE [z \in Zone |-> {z}]

(* The upsert's transaction is open and its rows are read.                 *)
ReadRows ==
  /\ pc = "choosing" /\ (Head(todo) = "events" => Readable)
  /\ pc' = "rows" /\ rows' = RowsOf(Head(todo))
  /\ UNCHANGED <<unread, read, graph, todo, stamp, graphs, history, ghosts, jobs, jobKills>>

(* No snapshot or half of one, no artefact, no --trips: the run ends, and  *)
(* with it the transaction if there is one.                                *)
Refuse ==
  /\ pc = "choosing" /\ (Head(todo) = "events" => ~Readable)
  /\ Quit
  /\ UNCHANGED <<graphs, history, ghosts, jobs, jobKills>>

(* insert ... on conflict (key) do update                                  *)
Upsert(old, new) ==
  [k \in DOMAIN old \union DOMAIN new |->
     IF k \in DOMAIN new THEN [value |-> new[k], loaded_at |-> stamp] ELSE old[k]]

(* Mutant of CommitRows: every batch is a transaction of its own.          *)
CommitBatch ==
  /\ pc = "rows"
  /\ \E B \in SUBSET DOMAIN rows :
       /\ table' = [table EXCEPT ![Head(todo)] = Upsert(@, [k \in B |-> rows[k]])]
       /\ pc' = IF B = DOMAIN rows THEN "loaded" ELSE "rows"
  /\ UNCHANGED <<unread, read, graph, todo, rows, stamp, graphs, audits, ghosts, jobs, jobKills>>

(* upsert: its batches commit together.                                    *)
CommitRows ==
  /\ pc = "rows"
  /\ table' = [table EXCEPT ![Head(todo)] = Upsert(@, rows)]
  /\ pc' = "loaded"
  /\ UNCHANGED <<unread, read, graph, todo, rows, stamp, graphs, audits, ghosts, jobs, jobKills>>

(* record_load, in a transaction of its own; then the next table.          *)
RecordLoad ==
  /\ pc = "loaded"
  /\ audits' = audits \union
       {[table_name |-> Head(todo), row_count |-> Cardinality(DOMAIN rows), loaded_at |-> stamp]}
  /\ IF Tail(todo) = <<>>
     THEN Quit
     ELSE /\ pc' = "choosing" /\ todo' = Tail(todo) /\ rows' = NoRows
          /\ UNCHANGED <<unread, read, graph, stamp>>
  /\ UNCHANGED <<graphs, table, ghosts, jobs, jobKills>>

-----------------------------------------------------------------------------
(* The running program is killed; open transactions roll back.             *)
KillJob ==
  /\ pc # "idle" /\ MayKill
  /\ jobKills' = jobKills + 1
  /\ cut' = IF pc = "loaded" THEN cut \union {<<Head(todo), stamp>>} ELSE cut
  /\ Quit
  /\ UNCHANGED <<graphs, history, ordered, jobs>>

JobStep ==
  \/ BeginBuild
  \/ \E f \in unread : ReadFile(f) \/ SkipFile(f)
  \/ \E P \in SUBSET Permit : Link(P)
  \/ UpsertServer \/ OpenExport \/ WriteExport
  \/ \E asked \in Requests : BeginLoad(asked)
  \/ ReadRows \/ Refuse \/ CommitRows \/ RecordLoad
  \/ KillJob

StreamStep ==
  \/ Begin /\ MayStart
  \/ \E i \in Instant : Skip(i) \/ Process(i)
  \/ Open \/ Save \/ Return
  \/ Kill /\ MayKill

StoreNext ==
  \/ \E a \in Article : FileArticle(a)
  \/ StreamStep /\ UNCHANGED storeVars
  \/ JobStep /\ UNCHANGED vars

StoreSpec == StoreInit /\ [][StoreNext]_<<vars, storeVars>>

-----------------------------------------------------------------------------
(* Properties                                                              *)

Same(E) == \A d, e \in E \intersect Article : story[d] = story[e] => d = e

(* The loop of _deduplicate does what is said of it: every article read    *)
(* reports one event, which tells its story, and no event is without       *)
(* provenance.  The events are those the shadow stream works on, unless    *)
(* the files tell a story in another order than it became available.       *)
GraphSound ==
  pc \in {"linked", "exporting"} =>
    /\ Clean(graph) /\ Same(graph.events)
    /\ \A a \in read : \E e \in graph.events \intersect Article :
         /\ story[e] = story[a]
         /\ {r \in graph.reports : r[1] = a} = {<<a, e>>}
    /\ (\A a, b \in read : story[a] = story[b] /\ ReadsBefore(a, b) => SoonerAvailable(a, b))
         => graph.events \intersect Article = Events(read)

(* Re-running upserts instead of duplicating (supabase_load_history): one  *)
(* story is one event of the file, of the server and of the table, through *)
(* builds and loads of a growing corpus, as long as articles come in the   *)
(* order in which they are read and not while they are, and no file is     *)
(* skipped.                                                                *)
OneEventPerStory ==
  ordered =>
    /\ Readable => Same(snapshot.events)
    /\ Same(server.events)
    /\ Same(DOMAIN table["events"])

LastLoaded(t) == {k \in DOMAIN table[t] : \A j \in DOMAIN table[t] :
                    table[t][j].loaded_at <= table[t][k].loaded_at}

(* history_load_runs has one audit row per table per run (README): rows    *)
(* come with an audit row, unless their load is at it or was killed just   *)
(* before it, and the last load of a table is there as it was counted.     *)
AuditedAsLoaded ==
  /\ \A t \in Tables : \A k \in DOMAIN table[t] :
       LET s == table[t][k].loaded_at
       IN  \/ \E a \in audits : a.table_name = t /\ a.loaded_at = s
           \/ <<t, s>> \in cut
           \/ pc = "loaded" /\ t = Head(todo) /\ s = stamp
  /\ \A a \in audits : \A k \in LastLoaded(a.table_name) :
       table[a.table_name][k].loaded_at = a.loaded_at =>
         Cardinality(LastLoaded(a.table_name)) = a.row_count

(* Forbidden: future (post-cutoff) data in any feature (V1_CLAIMS_MATRIX). *)
(* unique_source_count counts the sources of the events near a zone, every *)
(* article being of its own source here: those known at the cutoff, and no *)
(* others.                                                                 *)
CountedSources(A, z, cutoff) ==
  UNION {k.sources : k \in {x \in Extract(ByAvailability(A)) :
           x.event \in AsOf({x.event}, cutoff) /\ z \in near[x.event]}}

SourcesAsOf ==
  run.seen # {} =>
    \A z \in Zone :
      CountedSources(collected, z, run.cutoff)
        = CountedSources({a \in collected : at[a] <= run.cutoff}, z, run.cutoff)
=============================================================================
