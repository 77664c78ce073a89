------------------------------ MODULE LiveShadow ------------------------------
(***************************************************************************)
(* The live-news shadow stream (pipelines/live/shadow.py) with what it is  *)
(* built from: events extracted from articles and deduplicated             *)
(* (pipelines/events/extractor.py), features of the zones as of a cutoff   *)
(* (pipelines/features/graph_features.py), and their incremental refresh   *)
(* (incremental.py).                                                       *)
(*                                                                         *)
(* A run replays all articles collected so far, one micro-batch for each   *)
(* instant at which an event became available, emits predictions for the   *)
(* zones the batch affects, and at its end saves a checkpoint of the       *)
(* instants it has processed.  Between runs more articles are collected,   *)
(* not always in the order in which they became available.                 *)
(***************************************************************************)
EXTENDS Naturals, FiniteSets

CONSTANTS
  Article,    \* articles that tell of an event
  at,         \* article -> when it became available
  line,       \* article -> where it stands in the file
  story,      \* article -> the event it tells of: titles alike, same type
  Accepted,   \* articles whose extraction is accepted and confident
  Zone,
  place,      \* article -> zones of the locations it names
  near,       \* article -> zones whose centre is within the radius
  Around,     \* zone -> its neighbours in the graph
  Absent,     \* no checkpoint file
  Torn,       \* a checkpoint opened for writing and not written
  MaxRuns,    \* bound: runs
  MaxKills    \* bound: runs killed

ASSUME ConstantsAssumption ==
  /\ IsFiniteSet(Article) /\ IsFiniteSet(Zone)
  /\ at \in [Article -> Nat] /\ line \in [Article -> Nat]
  /\ DOMAIN story = Article
  /\ Accepted \subseteq Article
  /\ place \in [Article -> SUBSET Zone] /\ near \in [Article -> SUBSET Zone]
  /\ Around \in [Zone -> SUBSET Zone]
  /\ Absent # Torn
  /\ \A S \in SUBSET {at[a] : a \in Article} : S \notin {Absent, Torn}
  /\ MaxRuns \in Nat /\ MaxKills \in Nat

VARIABLES
  collected,   \* the articles collected so far
  inOrder,     \* whether they were collected as they became available (history)
  checkpoint,  \* the checkpoint file
  run,         \* run_shadow_stream
  predicted,   \* zone and instant -> predictions a caller was given (history)
  batch,       \* instant -> the new events of its batch, when saved (history)
  lost,        \* instants saved by a run that was killed before it returned (history)
  runs,        \* runs so far (bound)
  killed       \* runs killed so far (bound)

vars == <<collected, inOrder, checkpoint, run, predicted, batch, lost, runs, killed>>

Instant == {at[a] : a \in Article}

-----------------------------------------------------------------------------
(* Events, features and their refresh                                      *)

(* Mutant of Events: every article is an event of its own.                 *)
EventsOfAll(A) == A

(* extract_events: articles come in the order they became available, then  *)
(* in that of the file, and of several that tell of one event the first is *)
(* kept, as it was extracted.                                              *)
Events(A) ==
  {a \in A : \A b \in A : story[b] = story[a] =>
     at[a] < at[b] \/ (at[a] = at[b] /\ line[a] <= line[b])}

AsOf(E, cutoff) == {e \in E \intersect Accepted : at[e] <= cutoff}

(* What the features of a zone are computed from: the events within the    *)
(* radius of its centre or of a neighbour's, each with its age.            *)
Features(E, zone, cutoff) ==
  UNION {{[centre |-> n, event |-> e, age |-> cutoff - at[e]] :
            e \in {x \in AsOf(E, cutoff) : n \in near[x]}} :
         n \in {zone} \union Around[zone]}

ZonesOf(E) == UNION {place[e] : e \in E}

(* build_graph_features for the zones of the events.                       *)
FullRebuild(E, cutoff) ==
  [z \in ZonesOf(AsOf(E, cutoff)) |-> Features(E, z, cutoff)]

(* Mutant of Affected: neighbours are forgotten.                           *)
AffectedDirectly(new, known, cutoff) ==
  LET drives == AsOf(new, cutoff)
  IN  ZonesOf(drives)
        \union {z \in known \union ZonesOf(drives) : \E e \in drives : z \in near[e]}

(* affected_zones: the zones of the new events, and those whose centre or  *)
(* a neighbour's is within the radius of one.                              *)
Affected(new, known, cutoff) ==
  LET drives == AsOf(new, cutoff)
  IN  ZonesOf(drives)
        \union {z \in known \union ZonesOf(drives) : \E e \in drives :
                  near[e] \intersect ({z} \union Around[z]) # {}}

(* refresh_incremental: affected zones are computed, the others are kept.  *)
Refresh(snapshots, E, new, cutoff) ==
  LET affected == Affected(new, DOMAIN snapshots, cutoff)
  IN  [z \in DOMAIN snapshots \union affected |->
         IF z \in affected THEN Features(E, z, cutoff) ELSE snapshots[z]]

-----------------------------------------------------------------------------
NoSnapshots == [z \in {} |-> {}]

NoRun == [pc |-> "idle", events |-> {}, todo |-> {}, cutoff |-> 0, processed |-> {},
          seen |-> {}, snapshots |-> NoSnapshots, out |-> {}, new |-> {}]

Init ==
  /\ collected = {} /\ inOrder = TRUE
  /\ checkpoint = Absent
  /\ run = NoRun
  /\ predicted = [p \in Zone \X Instant |-> 0]
  /\ batch = [i \in Instant |-> {}]
  /\ lost = {}
  /\ runs = 0 /\ killed = 0

(* An article is collected, possibly after later ones.                     *)
CollectArticle(a) ==
  /\ run.pc = "idle" /\ a \notin collected
  /\ collected' = collected \union {a}
  /\ inOrder' = (inOrder /\ \A b \in collected : at[b] <= at[a])
  /\ UNCHANGED <<checkpoint, run, predicted, batch, lost, runs, killed>>

(* Mutants of Begin: the checkpoint is not read; a run resumes after the   *)
(* last instant in it.                                                     *)
BeginAnew ==
  /\ run.pc = "idle" /\ runs < MaxRuns /\ checkpoint # Torn
  /\ LET E == Events(collected)
     IN  run' = [NoRun EXCEPT !.pc = "running", !.events = E, !.todo = {at[e] : e \in E}]
  /\ runs' = runs + 1
  /\ UNCHANGED <<collected, inOrder, checkpoint, predicted, batch, lost, killed>>

BeginAfterLast ==
  /\ run.pc = "idle" /\ runs < MaxRuns /\ checkpoint # Torn
  /\ LET E == Events(collected)
         done == IF checkpoint = Absent THEN {} ELSE checkpoint
     IN  run' = [NoRun EXCEPT
           !.pc = "running", !.events = E,
           !.todo = {at[e] : e \in E},
           !.processed = {i \in Instant : \E j \in done : i <= j}]
  /\ runs' = runs + 1
  /\ UNCHANGED <<collected, inOrder, checkpoint, predicted, batch, lost, killed>>

(* A run begins; a torn checkpoint raises.                                 *)
Begin ==
  /\ run.pc = "idle" /\ runs < MaxRuns /\ checkpoint # Torn
  /\ LET E == Events(collected)
     IN  run' = [NoRun EXCEPT
           !.pc = "running", !.events = E,
           !.todo = {at[e] : e \in E},
           !.processed = IF checkpoint = Absent THEN {} ELSE checkpoint]
  /\ runs' = runs + 1
  /\ UNCHANGED <<collected, inOrder, checkpoint, predicted, batch, lost, killed>>

(* The instant that is next, and the events it adds.                       *)
AtInstant(i) == run.pc = "running" /\ i \in run.todo /\ \A j \in run.todo : i <= j

NewEvents(i) == {e \in run.events \ run.seen : at[e] <= i}

(* An instant of an earlier run: its events are folded in by a rebuild,    *)
(* and nothing is emitted.                                                 *)
Skip(i) ==
  /\ AtInstant(i) /\ i \in run.processed
  /\ run' = [run EXCEPT !.todo = run.todo \ {i}, !.cutoff = i,
                        !.seen = run.seen \union NewEvents(i),
                        !.snapshots = FullRebuild(run.events, i)]
  /\ UNCHANGED <<collected, inOrder, checkpoint, predicted, batch, lost, runs, killed>>

(* A micro-batch: the affected zones are refreshed and get a prediction.   *)
Process(i) ==
  /\ AtInstant(i) /\ i \notin run.processed /\ NewEvents(i) # {}
  /\ LET snapshots == Refresh(run.snapshots, run.events, NewEvents(i), i)
         affected == Affected(NewEvents(i), DOMAIN run.snapshots, i)
     IN  run' = [run EXCEPT
           !.todo = run.todo \ {i}, !.cutoff = i,
           !.processed = run.processed \union {i},
           !.seen = run.seen \union NewEvents(i),
           !.snapshots = snapshots,
           !.out = run.out \union (affected \intersect DOMAIN snapshots) \X {i},
           !.new = run.new \union NewEvents(i)]
  /\ UNCHANGED <<collected, inOrder, checkpoint, predicted, batch, lost, runs, killed>>

(* _save_checkpoint opens the file, which empties it ...                   *)
Open ==
  /\ run.pc = "running" /\ run.todo = {}
  /\ run' = [run EXCEPT !.pc = "saving"]
  /\ checkpoint' = Torn
  /\ UNCHANGED <<collected, inOrder, predicted, batch, lost, runs, killed>>

(* Mutant of Save: only the instants of this run are saved.                *)
SaveOwnOnly ==
  /\ run.pc = "saving"
  /\ run' = [run EXCEPT !.pc = "saved"]
  /\ checkpoint' = {p[2] : p \in run.out}
  /\ batch' = [i \in Instant |-> batch[i] \union {e \in run.new : at[e] = i}]
  /\ UNCHANGED <<collected, inOrder, predicted, lost, runs, killed>>

(* ... and writes it.                                                      *)
Save ==
  /\ run.pc = "saving"
  /\ run' = [run EXCEPT !.pc = "saved"]
  /\ checkpoint' = run.processed
  /\ batch' = [i \in Instant |-> batch[i] \union {e \in run.new : at[e] = i}]
  /\ UNCHANGED <<collected, inOrder, predicted, lost, runs, killed>>

(* The caller is given the predictions.                                    *)
Return ==
  /\ run.pc = "saved"
  /\ predicted' = [p \in DOMAIN predicted |->
                     predicted[p] + IF p \in run.out THEN 1 ELSE 0]
  /\ run' = NoRun
  /\ UNCHANGED <<collected, inOrder, checkpoint, batch, lost, runs, killed>>

(* The process is killed.                                                  *)
Kill ==
  /\ run.pc # "idle" /\ killed < MaxKills
  /\ lost' = lost \union IF run.pc = "saved" THEN {p[2] : p \in run.out} ELSE {}
  /\ killed' = killed + 1
  /\ run' = NoRun
  /\ UNCHANGED <<collected, inOrder, checkpoint, predicted, batch, runs>>

Next ==
  \/ \E a \in Article : CollectArticle(a)
  \/ Begin
  \/ \E i \in Instant : Skip(i) \/ Process(i)
  \/ Open \/ Save \/ Return \/ Kill

Spec == Init /\ [][Next]_vars

-----------------------------------------------------------------------------
(* Properties                                                              *)

Processed == IF checkpoint \in {Absent, Torn} THEN {} ELSE checkpoint

(* A run works on events that were collected and has snapshots of zones;   *)
(* it never forgets an instant that the checkpoint has.                    *)
TypeOK ==
  /\ collected \subseteq Article /\ inOrder \in BOOLEAN
  /\ checkpoint \in {Absent, Torn} \/ checkpoint \subseteq Instant
  /\ run.pc \in {"idle", "running", "saving", "saved"}
  /\ run.new \subseteq run.seen /\ run.seen \subseteq run.events /\ run.events \subseteq collected
  /\ run.todo \subseteq Instant
  /\ run.pc # "idle" => Processed \subseteq run.processed
  /\ DOMAIN run.snapshots \subseteq Zone
  /\ run.out \subseteq Zone \X Instant
  /\ predicted \in [Zone \X Instant -> Nat]
  /\ batch \in [Instant -> SUBSET collected]
  /\ lost \subseteq Instant

(* Re-running skips processed batches, so no duplicates (shadow.py): over  *)
(* restarts, kills and articles that come late, a zone is predicted once   *)
(* at an instant.                                                          *)
PredictedOnce == \A p \in Zone \X Instant : predicted[p] <= 1

(* An instant in the checkpoint had a batch, and was predicted for the     *)
(* zones of every accepted event in it, unless the run was killed in the   *)
(* moment between its checkpoint and its return.                           *)
ProcessedIsPredicted ==
  run.pc # "saved" =>
    \A i \in Processed \ lost :
      /\ batch[i] # {}
      /\ \A e \in batch[i] \intersect Accepted : \A z \in place[e] :
           predicted[<<z, i>>] = 1

(* After each batch, and also after a restart, the snapshots are of the    *)
(* zones a full rebuild at the cutoff has, and what is predicted from is   *)
(* what it would give, ages included.  The snapshot of another zone counts *)
(* the events the rebuild counts, so none misses a zone it reaches, but it *)
(* is the rebuild of an earlier cutoff: its ages, and with them decay and  *)
(* the windows of the event counts, have stood still.  So the result is    *)
(* not, as incremental.py has it, identical to a full rebuild.             *)
SnapshotsCurrent ==
  run.seen # {} =>
    LET full == FullRebuild(run.events, run.cutoff)
        Counted(features) == {<<f.centre, f.event>> : f \in features}
    IN  /\ DOMAIN run.snapshots = DOMAIN full
        /\ \A z \in DOMAIN full :
             /\ Counted(run.snapshots[z]) = Counted(full[z])
             /\ <<z, run.cutoff>> \in run.out => run.snapshots[z] = full[z]
             /\ \E c \in Instant :
                  c <= run.cutoff /\ run.snapshots[z] = Features(run.events, z, c)

(* A duplicate event does not trigger a forecast again: articles collected *)
(* as they become available make a batch at one instant for one story.     *)
StoryTriggersOnce ==
  inOrder =>
    \A i, j \in Instant : \A d \in batch[i], e \in batch[j] :
      story[d] = story[e] => i = j

=============================================================================
