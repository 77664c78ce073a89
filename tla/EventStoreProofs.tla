--------------------------- MODULE EventStoreProofs ---------------------------
(***************************************************************************)
(* Theorems about LiveShadow and EventStore, for every set of articles and *)
(* zones, every sequence of tables a load is asked for, and any number of  *)
(* runs, programs and kills: what the shadow stream predicts and counts,   *)
(* what rows and audit rows a load leaves, and what events a build makes   *)
(* of the articles.                                                        *)
(***************************************************************************)
EXTENDS EventStore, SequenceTheorems, SortedSets

(* The shadow stream                                                       *)


Feature == [centre : Zone, event : Article, age : Nat]

Snapshots == UNION {[D -> SUBSET Feature] : D \in SUBSET Zone}

RunType ==
  run \in [pc : {"idle", "running", "saving", "saved"},
           events : SUBSET Article, todo : SUBSET Instant, cutoff : Nat,
           processed : SUBSET Instant, seen : SUBSET Article,
           snapshots : Snapshots, out : SUBSET (Zone \X Instant),
           new : SUBSET Article]

(* The invariant about predictions: what was predicted is in the           *)
(* checkpoint, unless the checkpoint is torn for good; and a run emits     *)
(* nothing for an instant it found there.                                  *)
Emitted ==
  /\ \A p \in Zone \X Instant : predicted[p] \in {0, 1}
  /\ checkpoint # Torn =>
       \A p \in Zone \X Instant : predicted[p] = 1 => p[2] \in Processed
  /\ run.pc # "idle" =>
       \A p \in Zone \X Instant : predicted[p] = 1 => p[2] \in run.processed /\ p \notin run.out
  /\ \A p \in run.out : p[2] \in run.processed
  /\ run.pc = "running" => checkpoint # Torn
  /\ run.pc = "saved" => checkpoint = run.processed

Reaching(E, z) == {p \in ({z} \union Around[z]) \X E : p[1] \in near[p[2]]}

Counted(features) == {<<f.centre, f.event>> : f \in features}

(* Snapshots of the zones of E that count the events of E, no more.        *)
Exact(snapshots, E) ==
  /\ DOMAIN snapshots = ZonesOf(E)
  /\ \A z \in DOMAIN snapshots : Counted(snapshots[z]) = Reaching(E, z)

(* A snapshot is the one of some instant, and at cutoff of what is emitted *)
(* there.                                                                  *)
Aged(snapshots, E, out, cutoff) ==
  \A z \in DOMAIN snapshots :
    /\ \E c \in Instant : c <= cutoff /\ snapshots[z] = Features(E, z, c)
    /\ <<z, cutoff>> \in out => snapshots[z] = Features(E, z, cutoff)

(* The invariant about snapshots: what is left to do are the instants of   *)
(* the events not seen, those seen are the ones up to the cutoff, and the  *)
(* snapshots count just these.                                             *)
Current ==
  /\ run.todo = {at[e] : e \in run.events \ run.seen}
  /\ run.seen = {} \/ run.seen = {e \in run.events : at[e] <= run.cutoff}
  /\ Exact(run.snapshots, run.seen \intersect Accepted)
  /\ Aged(run.snapshots, run.events, run.out, run.cutoff)

IInv == TypeOK /\ RunType /\ Emitted /\ Current

-----------------------------------------------------------------------------
(* Lemmas about events and features                                        *)

LEMMA EventsCollected ==
  ASSUME NEW A \in SUBSET Article
  PROVE  Events(A) \subseteq A
BY DEF Events

LEMMA AffectedZones ==
  ASSUME NEW new \in SUBSET Article, NEW known \in SUBSET Zone, NEW cutoff \in Nat
  PROVE  /\ Affected(new, known, cutoff) \subseteq Zone
         /\ known \union Affected(new, known, cutoff) = known \union ZonesOf(AsOf(new, cutoff))
<1>1. ZonesOf(AsOf(new, cutoff)) \subseteq Zone
  BY ConstantsAssumption DEF ZonesOf, AsOf
<1>2. /\ Affected(new, known, cutoff) \subseteq known \union ZonesOf(AsOf(new, cutoff))
      /\ ZonesOf(AsOf(new, cutoff)) \subseteq Affected(new, known, cutoff)
  BY DEF Affected
<1> QED BY <1>1, <1>2

(* A feature has an age: it is of an event before the cutoff.              *)
LEMMA FeaturesType ==
  ASSUME NEW E \in SUBSET Article, NEW z \in Zone, NEW cutoff \in Nat
  PROVE  Features(E, z, cutoff) \subseteq Feature
<1> SUFFICES ASSUME NEW n \in {z} \union Around[z],
                    NEW e \in {x \in AsOf(E, cutoff) : n \in near[x]}
             PROVE  [centre |-> n, event |-> e, age |-> cutoff - at[e]] \in Feature
  BY DEF Features
<1>1. n \in Zone
  BY ConstantsAssumption
<1>2. e \in Article /\ at[e] \in Nat /\ at[e] <= cutoff
  BY ConstantsAssumption DEF AsOf
<1>3. cutoff - at[e] \in Nat
  BY <1>2
<1> QED BY <1>1, <1>2, <1>3 DEF Feature

LEMMA FeaturesCount ==
  ASSUME NEW E, NEW z, NEW cutoff
  PROVE  Counted(Features(E, z, cutoff)) = Reaching(AsOf(E, cutoff), z)
<1> DEFINE R == Reaching(AsOf(E, cutoff), z)
           C == Counted(Features(E, z, cutoff))
<1>1. ASSUME NEW p \in C PROVE p \in R
  <2>1. PICK n \in {z} \union Around[z], e \in AsOf(E, cutoff) : p = <<n, e>> /\ n \in near[e]
    BY <1>1 DEF Counted, Features
  <2> QED BY <2>1 DEF Reaching
<1>2. ASSUME NEW p \in R PROVE p \in C
  <2>1. PICK n \in {z} \union Around[z], e \in AsOf(E, cutoff) : p = <<n, e>> /\ n \in near[e]
    BY <1>2 DEF Reaching
  <2>2. [centre |-> n, event |-> e, age |-> cutoff - at[e]] \in Features(E, z, cutoff)
    BY <2>1 DEF Features
  <2> QED BY <2>1, <2>2 DEF Counted
<1> QED BY <1>1, <1>2

LEMMA RebuildType ==
  ASSUME NEW E \in SUBSET Article, NEW cutoff \in Nat
  PROVE  FullRebuild(E, cutoff) \in Snapshots
<1>1. ZonesOf(AsOf(E, cutoff)) \in SUBSET Zone
  BY ConstantsAssumption DEF ZonesOf, AsOf
<1>2. \A z \in ZonesOf(AsOf(E, cutoff)) : Features(E, z, cutoff) \in SUBSET Feature
  BY <1>1, FeaturesType
<1>3. FullRebuild(E, cutoff) \in [ZonesOf(AsOf(E, cutoff)) -> SUBSET Feature]
  BY <1>2 DEF FullRebuild
<1> QED BY <1>1, <1>3 DEF Snapshots

LEMMA RefreshType ==
  ASSUME NEW snapshots \in Snapshots, NEW E \in SUBSET Article,
         NEW new \in SUBSET Article, NEW cutoff \in Nat
  PROVE  /\ DOMAIN snapshots \in SUBSET Zone
         /\ Refresh(snapshots, E, new, cutoff) \in Snapshots
<1> DEFINE affected == Affected(new, DOMAIN snapshots, cutoff)
<1>1. PICK D \in SUBSET Zone : snapshots \in [D -> SUBSET Feature]
  BY DEF Snapshots
<1>2. affected \in SUBSET Zone
  BY <1>1, AffectedZones
<1>3. \A z \in affected : Features(E, z, cutoff) \in SUBSET Feature
  BY <1>2, FeaturesType
<1>4. Refresh(snapshots, E, new, cutoff) \in [D \union affected -> SUBSET Feature]
  BY <1>1, <1>3 DEF Refresh
<1> QED BY <1>1, <1>2, <1>4 DEF Snapshots

-----------------------------------------------------------------------------
(* The invariant, action by action                                         *)

LEMMA Initially == Init => IInv
<1> SUFFICES ASSUME Init PROVE IInv
  OBVIOUS
<1>1. NoSnapshots \in Snapshots /\ DOMAIN NoSnapshots = {}
  <2>1. NoSnapshots \in [{} -> SUBSET Feature]
    BY DEF NoSnapshots
  <2> QED BY <2>1 DEF Snapshots
<1>2. RunType
  BY <1>1 DEF RunType, Init, NoRun
<1>3. TypeOK
  BY <1>1 DEF TypeOK, Init, NoRun, Processed
<1>4. Emitted
  BY DEF Emitted, Init, NoRun
<1>5. Current
  BY <1>1 DEF Current, Init, NoRun, ZonesOf, Exact, Aged
<1> QED BY <1>2, <1>3, <1>4, <1>5 DEF IInv

LEMMA NoRunKeeps ==
  ASSUME IInv, run' = NoRun
  PROVE  RunType' /\ Current'
<1>1. NoSnapshots \in Snapshots /\ DOMAIN NoSnapshots = {}
  <2>1. NoSnapshots \in [{} -> SUBSET Feature]
    BY DEF NoSnapshots
  <2> QED BY <2>1 DEF Snapshots
<1>2. RunType'
  BY <1>1 DEF RunType, NoRun
<1>3. Current'
  BY <1>1 DEF Current, NoRun, ZonesOf, Exact, Aged
<1> QED BY <1>2, <1>3

LEMMA CollectKeeps ==
  ASSUME IInv, NEW a \in Article, CollectArticle(a)
  PROVE  IInv'
<1> USE DEF IInv, CollectArticle
<1>1. RunType'
  BY DEF RunType
<1>2. TypeOK'
  BY DEF TypeOK, Processed
<1>3. Emitted'
  BY DEF Emitted, Processed
<1>4. Current'
  BY DEF Current
<1> QED BY <1>1, <1>2, <1>3, <1>4

LEMMA BeginKeeps == IInv /\ Begin => IInv'
<1> SUFFICES ASSUME IInv, Begin PROVE IInv'
  OBVIOUS
<1> USE DEF IInv
<1> DEFINE events == Events(collected)
<1>1. events \subseteq collected /\ collected \subseteq Article
  BY EventsCollected DEF TypeOK
<1>2. UNCHANGED <<collected, inOrder, checkpoint, predicted, batch, lost, killed>> /\ checkpoint # Torn
  BY DEF Begin
<1>3. run' = [pc |-> "running", events |-> events,
              todo |-> {at[e] : e \in events}, cutoff |-> 0,
              processed |-> Processed, seen |-> {}, snapshots |-> NoSnapshots,
              out |-> {}, new |-> {}]
  BY DEF Begin, Processed, NoRun
<1> HIDE DEF events
<1>4. NoSnapshots \in Snapshots /\ DOMAIN NoSnapshots = {}
  <2>1. NoSnapshots \in [{} -> SUBSET Feature]
    BY DEF NoSnapshots
  <2> QED BY <2>1 DEF Snapshots
<1>5. Processed \subseteq Instant
  BY DEF TypeOK, Processed
<1>6. {at[e] : e \in events} \subseteq Instant
  BY <1>1 DEF Instant
<1>7. RunType'
  BY <1>1, <1>3, <1>4, <1>5, <1>6 DEF RunType
<1>8. TypeOK'
  BY <1>1, <1>2, <1>3, <1>4, <1>6 DEF TypeOK, Processed
<1>9. Emitted'
  BY <1>2, <1>3 DEF Emitted, Processed
<1>10. Current'
  BY <1>3, <1>4 DEF Current, ZonesOf, Exact, Aged
<1> QED BY <1>7, <1>8, <1>9, <1>10

LEMMA SaveKeeps == IInv /\ (Open \/ Save) => IInv'
<1> SUFFICES ASSUME IInv, Open \/ Save PROVE IInv'
  OBVIOUS
<1> USE DEF IInv
<1>1. CASE Open
  <2>1. RunType' /\ Current'
    BY <1>1 DEF RunType, Current, Open
  <2>2. TypeOK'
    BY <1>1 DEF TypeOK, RunType, Open, Processed
  <2>3. Emitted'
    BY <1>1 DEF Emitted, RunType, Open, Processed
  <2> QED BY <2>1, <2>2, <2>3
<1>2. CASE Save
  <2>1. RunType' /\ Current'
    BY <1>2 DEF RunType, Current, Save
  <2>2. run.new \subseteq collected
    BY DEF TypeOK
  <2>3. batch' \in [Instant -> SUBSET collected']
    BY <1>2, <2>2 DEF TypeOK, Save
  <2>4. TypeOK'
    BY <1>2, <2>3 DEF TypeOK, RunType, Save, Processed
  <2>5. Emitted'
    BY <1>2, ConstantsAssumption DEF Emitted, RunType, Save, Processed, Instant
  <2> QED BY <2>1, <2>4, <2>5
<1> QED BY <1>1, <1>2

LEMMA ReturnKeeps == IInv /\ Return => IInv'
<1> SUFFICES ASSUME IInv, Return PROVE IInv'
  OBVIOUS
<1> USE DEF IInv, Return
<1>1. RunType' /\ Current'
  BY NoRunKeeps
<1>2. \A p \in Zone \X Instant : predicted[p] \in {0, 1} /\ (p \in run.out => predicted[p] = 0)
  BY DEF Emitted
<1>3. \A p \in Zone \X Instant :
        /\ predicted'[p] \in {0, 1}
        /\ predicted'[p] = 1 => predicted[p] = 1 \/ p \in run.out
  BY <1>2 DEF TypeOK
<1>4. predicted' \in [Zone \X Instant -> Nat]
  BY <1>3 DEF TypeOK
<1>5. TypeOK'
  BY <1>4 DEF TypeOK, NoRun, NoSnapshots, Processed
<1>6. Emitted'
  <2>1. \A p \in Zone \X Instant : predicted'[p] = 1 => p[2] \in run.processed
    BY <1>3 DEF Emitted
  <2>2. checkpoint = run.processed /\ checkpoint' = checkpoint /\ run.processed \subseteq Instant
    BY DEF Emitted, RunType
  <2>3. Processed' = run.processed
    BY <2>2, ConstantsAssumption DEF Processed, Instant
  <2> QED BY <1>3, <2>1, <2>3 DEF Emitted, NoRun
<1> QED BY <1>1, <1>5, <1>6

LEMMA KillKeeps == IInv /\ Kill => IInv'
<1> SUFFICES ASSUME IInv, Kill PROVE IInv'
  OBVIOUS
<1> USE DEF IInv, Kill
<1>1. RunType' /\ Current'
  BY NoRunKeeps
<1>2. lost' \subseteq Instant
  BY DEF TypeOK
<1>3. TypeOK'
  BY <1>2 DEF TypeOK, NoRun, NoSnapshots, Processed
<1>4. Emitted'
  BY DEF Emitted, NoRun, Processed
<1> QED BY <1>1, <1>3, <1>4

(* The events of a batch: there always are some, and with those seen       *)
(* before they are the events up to the instant.                           *)
LEMMA BatchIsNew ==
  ASSUME IInv, NEW i \in Instant, AtInstant(i)
  PROVE  /\ NewEvents(i) # {}
         /\ NewEvents(i) = {e \in run.events \ run.seen : at[e] = i}
         /\ NewEvents(i) \subseteq run.events
         /\ run.seen \union NewEvents(i) = {e \in run.events : at[e] <= i}
         /\ run.todo \ {i} = {at[e] : e \in run.events \ (run.seen \union NewEvents(i))}
<1> USE DEF IInv
<1>1. run.events \subseteq Article /\ \A e \in run.events : at[e] \in Nat
  BY ConstantsAssumption DEF RunType
<1>2. i \in Nat /\ run.cutoff \in Nat
  BY ConstantsAssumption DEF RunType, Instant
<1>3. PICK d \in run.events \ run.seen : i = at[d]
  BY DEF AtInstant, Current
<1>4. \A e \in run.events \ run.seen : i <= at[e]
  BY DEF AtInstant, Current
<1>5. NewEvents(i) = {e \in run.events \ run.seen : at[e] = i}
  BY <1>1, <1>2, <1>4 DEF NewEvents
<1>6. \A e \in run.seen : e \in run.events /\ at[e] <= i
  <2> SUFFICES ASSUME NEW e \in run.seen PROVE e \in run.events /\ at[e] <= i
    OBVIOUS
  <2>1. run.seen = {x \in run.events : at[x] <= run.cutoff}
    BY DEF Current
  <2>2. at[e] <= run.cutoff /\ ~ (at[d] <= run.cutoff)
    BY <2>1, <1>3
  <2> QED BY <2>1, <2>2, <1>1, <1>2, <1>3
<1>7. run.seen \union NewEvents(i) = {e \in run.events : at[e] <= i}
  BY <1>1, <1>2, <1>6 DEF NewEvents
<1>8. run.todo \ {i} = {at[e] : e \in run.events \ (run.seen \union NewEvents(i))}
  BY <1>5 DEF Current
<1> QED BY <1>3, <1>5, <1>7, <1>8

LEMMA SkipKeeps ==
  ASSUME IInv, NEW i \in Instant, Skip(i)
  PROVE  IInv'
<1> USE DEF IInv
<1> DEFINE seen == run.seen \union NewEvents(i)
<1>1. /\ NewEvents(i) \subseteq run.events
      /\ seen = {e \in run.events : at[e] <= i}
      /\ run.todo \ {i} = {at[e] : e \in run.events \ seen}
  BY BatchIsNew DEF Skip
<1>2. run.events \in SUBSET Article /\ i \in Nat /\ run.pc = "running"
  BY ConstantsAssumption DEF RunType, Instant, Skip, AtInstant
<1>3. run' = [pc |-> run.pc, events |-> run.events, todo |-> run.todo \ {i}, cutoff |-> i,
              processed |-> run.processed, seen |-> seen,
              snapshots |-> FullRebuild(run.events, i), out |-> run.out, new |-> run.new]
  BY DEF Skip, RunType
<1>4. FullRebuild(run.events, i) \in Snapshots
  BY <1>2, RebuildType
<1>5. AsOf(run.events, i) = seen \intersect Accepted
  BY <1>1 DEF AsOf
<1> HIDE DEF seen
<1>6. RunType'
  BY <1>1, <1>2, <1>3, <1>4 DEF RunType
<1>7. Exact(FullRebuild(run.events, i), seen \intersect Accepted)
  BY <1>5, FeaturesCount DEF FullRebuild, Exact
<1>8. Current'
  <2>1. Aged(FullRebuild(run.events, i), run.events, run.out, i)
    BY <1>2 DEF Aged, FullRebuild
  <2> QED BY <1>1, <1>3, <1>7, <2>1 DEF Current
<1>9. DOMAIN FullRebuild(run.events, i) = ZonesOf(seen \intersect Accepted)
  BY <1>7 DEF Exact
<1>10. ZonesOf(seen \intersect Accepted) \subseteq Zone
  BY <1>1, <1>2, ConstantsAssumption DEF ZonesOf
<1>11. TypeOK'
  BY <1>1, <1>3, <1>9, <1>10 DEF TypeOK, Skip, Processed, seen
<1>12. Emitted'
  BY <1>3 DEF Emitted, Skip, Processed
<1> QED BY <1>6, <1>8, <1>11, <1>12

(* A batch reaches what it affects: an event that is not in a zone's       *)
(* refresh is near neither the zone nor one of its neighbours.             *)
LEMMA RefreshCounts ==
  ASSUME NEW seen \in SUBSET Article, NEW new \in SUBSET Article,
         NEW E \in SUBSET Article, NEW i \in Nat, NEW snapshots \in Snapshots,
         AsOf(E, i) = (seen \union new) \intersect Accepted,
         AsOf(new, i) = new \intersect Accepted,
         Exact(snapshots, seen \intersect Accepted)
  PROVE  Exact(Refresh(snapshots, E, new, i), (seen \union new) \intersect Accepted)
<1> USE DEF Exact
<1> DEFINE refreshed == Refresh(snapshots, E, new, i)
           affected == Affected(new, DOMAIN snapshots, i)
           all == (seen \union new) \intersect Accepted
<1>1. DOMAIN snapshots \in SUBSET Zone
  BY RefreshType
<1>2. DOMAIN refreshed = DOMAIN snapshots \union affected
  BY DEF Refresh
<1>3. DOMAIN refreshed = DOMAIN snapshots \union ZonesOf(new \intersect Accepted)
  <2>1. DOMAIN snapshots \union affected = DOMAIN snapshots \union ZonesOf(AsOf(new, i))
    BY <1>1, AffectedZones
  <2> QED BY <1>2, <2>1
<1>4. DOMAIN refreshed = ZonesOf(all)
  BY <1>3 DEF ZonesOf
<1>5. ASSUME NEW z \in affected
      PROVE  Counted(refreshed[z]) = Reaching(all, z)
  <2>1. refreshed[z] = Features(E, z, i)
    BY <1>5 DEF Refresh
  <2> QED BY <2>1, FeaturesCount
<1>6. ASSUME NEW z \in DOMAIN snapshots, z \notin affected
      PROVE  Counted(refreshed[z]) = Reaching(all, z)
  <2>1. refreshed[z] = snapshots[z]
    BY <1>6 DEF Refresh
  <2>2. \A e \in new \intersect Accepted : near[e] \intersect ({z} \union Around[z]) = {}
    BY <1>6 DEF Affected
  <2>3. Reaching(all, z) = Reaching(seen \intersect Accepted, z)
    BY <2>2 DEF Reaching
  <2> QED BY <2>1, <2>3
<1> QED BY <1>2, <1>4, <1>5, <1>6

(* It computes what it affects as of now, and nothing else was emitted.    *)
LEMMA RefreshAges ==
  ASSUME NEW snapshots, NEW E, NEW new, NEW i \in Instant, i \in Nat,
         NEW cutoff \in Nat, NEW out, NEW emitted,
         Aged(snapshots, E, out, cutoff),
         DOMAIN snapshots # {} => cutoff <= i,
         \A p \in out : p[2] # i,
         emitted \subseteq Affected(new, DOMAIN snapshots, i) \X {i}
  PROVE  Aged(Refresh(snapshots, E, new, i), E, out \union emitted, i)
<1> DEFINE refreshed == Refresh(snapshots, E, new, i)
           affected == Affected(new, DOMAIN snapshots, i)
<1> SUFFICES ASSUME NEW z \in DOMAIN refreshed
             PROVE  /\ \E c \in Instant : c <= i /\ refreshed[z] = Features(E, z, c)
                    /\ <<z, i>> \in out \union emitted => refreshed[z] = Features(E, z, i)
  BY DEF Aged
<1>1. CASE z \in affected
  <2>1. refreshed[z] = Features(E, z, i)
    BY <1>1 DEF Refresh
  <2> QED BY <2>1
<1>2. CASE z \notin affected
  <2>1. z \in DOMAIN snapshots /\ refreshed[z] = snapshots[z]
    BY <1>2 DEF Refresh
  <2>2. PICK c \in Instant : c <= cutoff /\ snapshots[z] = Features(E, z, c)
    BY <2>1 DEF Aged
  <2>3. c \in Nat
    BY ConstantsAssumption DEF Instant
  <2>4. c <= i
    BY <2>1, <2>2, <2>3
  <2>5. <<z, i>> \notin out \union emitted
    BY <1>2
  <2> QED BY <2>1, <2>2, <2>4, <2>5
<1> QED BY <1>1, <1>2

LEMMA ProcessKeeps ==
  ASSUME IInv, NEW i \in Instant, Process(i)
  PROVE  IInv'
<1> USE DEF IInv
<1> DEFINE seen == run.seen \union NewEvents(i)
           refreshed == Refresh(run.snapshots, run.events, NewEvents(i), i)
           emitted == (Affected(NewEvents(i), DOMAIN run.snapshots, i)
                         \intersect DOMAIN refreshed) \X {i}
<1>1. /\ NewEvents(i) \subseteq run.events
      /\ seen = {e \in run.events : at[e] <= i}
      /\ run.todo \ {i} = {at[e] : e \in run.events \ seen}
  BY BatchIsNew DEF Process
<1>2. /\ run.events \in SUBSET Article /\ i \in Nat /\ run.pc = "running"
      /\ i \notin run.processed
      /\ run.snapshots \in Snapshots
  BY ConstantsAssumption DEF RunType, Instant, Process, AtInstant
<1>3. run' = [pc |-> run.pc, events |-> run.events, todo |-> run.todo \ {i}, cutoff |-> i,
              processed |-> run.processed \union {i}, seen |-> seen,
              snapshots |-> refreshed, out |-> run.out \union emitted,
              new |-> run.new \union NewEvents(i)]
  BY DEF Process, RunType
<1>4. UNCHANGED <<collected, inOrder, checkpoint, predicted, batch, lost, runs, killed>>
  BY DEF Process
<1>5. DOMAIN run.snapshots \in SUBSET Zone /\ refreshed \in Snapshots
  BY <1>1, <1>2, RefreshType
<1>6. Affected(NewEvents(i), DOMAIN run.snapshots, i) \subseteq Zone
  BY <1>1, <1>2, <1>5, AffectedZones
<1>7. emitted \subseteq Zone \X Instant /\ \A p \in emitted : p[2] = i
  BY <1>6
<1>8. Exact(refreshed, seen \intersect Accepted)
  <2>1. AsOf(run.events, i) = seen \intersect Accepted
    BY <1>1 DEF AsOf
  <2>2. AsOf(NewEvents(i), i) = NewEvents(i) \intersect Accepted
    BY DEF AsOf, NewEvents
  <2>3. run.seen \in SUBSET Article /\ NewEvents(i) \in SUBSET Article
    BY <1>1, <1>2 DEF RunType
  <2>4. Exact(run.snapshots, run.seen \intersect Accepted)
    BY DEF Current
  <2> HIDE DEF IInv
  <2> QED BY <2>1, <2>2, <2>3, <2>4, <1>2, RefreshCounts
<1>9. DOMAIN refreshed \subseteq Zone
  BY <1>1, <1>2, <1>8, ConstantsAssumption DEF ZonesOf, Exact
<1>10. seen \subseteq run.events /\ run.new \union NewEvents(i) \subseteq seen
  BY <1>1 DEF TypeOK
<1>15. Aged(refreshed, run.events, run.out \union emitted, i)
  <2>1. Aged(run.snapshots, run.events, run.out, run.cutoff)
    BY DEF Current
  <2>2. run.cutoff \in Nat
    BY DEF RunType
  <2>3. ASSUME DOMAIN run.snapshots # {} PROVE run.cutoff <= i
    <3>1. run.seen # {}
      BY <2>3 DEF Current, Exact, ZonesOf
    <3>2. run.seen = {e \in run.events : at[e] <= run.cutoff}
      BY <3>1 DEF Current
    <3>3. PICK e \in run.events \ run.seen : at[e] = i
      BY DEF Process, AtInstant, Current
    <3>4. ~ (i <= run.cutoff)
      BY <3>2, <3>3
    <3> QED BY <3>4, <2>2, <1>2
  <2>4. \A p \in run.out : p[2] # i
    BY <1>2 DEF Emitted
  <2>5. emitted \subseteq Affected(NewEvents(i), DOMAIN run.snapshots, i) \X {i}
    OBVIOUS
  <2> HIDE DEF IInv, emitted
  <2> QED BY <2>1, <2>2, <2>3, <2>4, <2>5, <1>2, RefreshAges
<1> HIDE DEF seen, refreshed, emitted
<1>11. RunType'
  BY <1>1, <1>2, <1>3, <1>5, <1>7, <1>10 DEF RunType
<1>12. TypeOK'
  BY <1>2, <1>3, <1>4, <1>7, <1>9, <1>10 DEF TypeOK, RunType, Processed
<1>13. Emitted'
  <2>1. \A p \in Zone \X Instant : predicted[p] = 1 => p \notin emitted
    BY <1>2, <1>7 DEF Emitted
  <2> QED BY <1>2, <1>3, <1>4, <1>7, <2>1 DEF Emitted, Processed
<1>14. Current'
  BY <1>1, <1>3, <1>8, <1>15 DEF Current
<1> QED BY <1>11, <1>12, <1>13, <1>14

LEMMA IInvAlways == Spec => []IInv
<1>1. IInv /\ [Next]_vars => IInv'
  <2> SUFFICES ASSUME IInv, [Next]_vars PROVE IInv'
    OBVIOUS
  <2>1. CASE \E a \in Article : CollectArticle(a)
    BY <2>1, CollectKeeps
  <2>2. CASE Begin
    BY <2>2, BeginKeeps
  <2>3. CASE \E i \in Instant : Skip(i)
    BY <2>3, SkipKeeps
  <2>4. CASE \E i \in Instant : Process(i)
    BY <2>4, ProcessKeeps
  <2>5. CASE Open \/ Save
    BY <2>5, SaveKeeps
  <2>6. CASE Return
    BY <2>6, ReturnKeeps
  <2>7. CASE Kill
    BY <2>7, KillKeeps
  <2>8. CASE UNCHANGED vars
    BY <2>8 DEF vars, IInv, TypeOK, RunType, Emitted, Current, Processed
  <2> QED BY <2>1, <2>2, <2>3, <2>4, <2>5, <2>6, <2>7, <2>8 DEF Next
<1> QED BY Initially, <1>1, PTL DEF Spec

-----------------------------------------------------------------------------
(***************************************************************************)
(* What was predicted.  Told(i) are the events of instant i that some run  *)
(* has told or is about to tell of.  The instants a run counts as          *)
(* processed have such events, and their zones are predicted or in the     *)
(* run's output; and no batch was ever saved for an instant that is        *)
(* missing in a readable checkpoint, so that a run never takes up again    *)
(* what an earlier one has done.                                           *)
(***************************************************************************)
Told(i) == batch[i] \union {e \in run.new : at[e] = i}

Served ==
  \A i \in run.processed \ lost :
    /\ Told(i) # {}
    /\ \A e \in Told(i) \intersect Accepted : \A z \in place[e] :
         predicted[<<z, i>>] = 1 \/ <<z, i>> \in run.out

Remembered ==
  /\ checkpoint # Torn => \A i \in Instant : batch[i] # {} => i \in Processed
  /\ run.pc # "idle" => \A i \in Instant : batch[i] # {} => i \in run.processed

(* No article collected so far tells of e's event earlier.                 *)
Earliest(e) == \A b \in collected : story[b] = story[e] => at[e] <= at[b]

FirstTold ==
  /\ inOrder => \A i \in Instant : \A e \in batch[i] : at[e] = i /\ Earliest(e)
  /\ \A e \in run.events : Earliest(e)

(* What the run tells of is of instants it counts as processed, and is in  *)
(* the saved batches once the checkpoint is written.                       *)
NewProcessed == \A e \in run.new : at[e] \in run.processed

SavedNew == run.pc = "saved" => \A e \in run.new : e \in batch[at[e]]

PInv ==
  /\ ProcessedIsPredicted /\ Remembered /\ FirstTold
  /\ NewProcessed /\ SavedNew
  /\ run.pc = "idle" => run = NoRun
  /\ run.pc # "idle" => Served

LEMMA InitP == Init => PInv
BY DEF Init, PInv, ProcessedIsPredicted, Processed, Remembered, FirstTold,
           NewProcessed, SavedNew, NoRun

LEMMA CollectP ==
  ASSUME IInv, PInv, NEW a \in Article, CollectArticle(a)
  PROVE  PInv'
<1> USE DEF CollectArticle
<1>1. ProcessedIsPredicted' /\ Remembered'
  BY DEF PInv, ProcessedIsPredicted, Processed, Remembered
<1>2. FirstTold'
  <2>1. run'.events = {} BY DEF PInv, NoRun
  <2>2. ASSUME inOrder', NEW i \in Instant, NEW e \in batch[i]
        PROVE  at[e] = i /\ Earliest(e)'
    <3>1. at[e] = i /\ Earliest(e) /\ e \in collected
      BY <2>2 DEF PInv, FirstTold, IInv, TypeOK
    <3>2. at[e] <= at[a] BY <2>2, <3>1
    <3> QED BY <3>1, <3>2 DEF Earliest
  <2> QED BY <2>1, <2>2 DEF FirstTold
<1> QED BY <1>1, <1>2 DEF PInv, NewProcessed, SavedNew, Served, Told

LEMMA BeginP == IInv /\ PInv /\ Begin => PInv'
<1> SUFFICES ASSUME IInv, PInv, Begin PROVE PInv'
  OBVIOUS
<1> DEFINE events == Events(collected)
<1>1. UNCHANGED <<collected, inOrder, checkpoint, predicted, batch, lost, killed>> /\ checkpoint # Torn
      /\ run.pc = "idle"
  BY DEF Begin
<1>2. /\ run'.pc = "running" /\ run'.events = events /\ run'.processed = Processed
      /\ run'.out = {} /\ run'.new = {}
  BY DEF Begin, Processed, NoRun
<1> HIDE DEF events
<1>3. ProcessedIsPredicted' /\ Remembered'
  BY <1>1, <1>2 DEF PInv, ProcessedIsPredicted, Processed, Remembered
<1>4. \A e \in events : Earliest(e)
  <2> SUFFICES ASSUME NEW e \in events, NEW b \in collected, story[b] = story[e]
               PROVE  at[e] <= at[b]
    BY DEF Earliest
  <2>1. b \in Article /\ at[b] \in Nat /\ e \in Article /\ at[e] \in Nat
    BY ConstantsAssumption, EventsCollected DEF IInv, TypeOK, events
  <2>2. at[e] < at[b] \/ at[e] = at[b]
    BY DEF events, Events
  <2> QED BY <2>1, <2>2
<1>5. FirstTold'
  BY <1>1, <1>2, <1>4 DEF PInv, FirstTold, Earliest
<1>6. Served'
  BY <1>1, <1>2 DEF PInv, ProcessedIsPredicted, Served, Told
<1> QED BY <1>2, <1>3, <1>5, <1>6 DEF PInv, NewProcessed, SavedNew

LEMMA SkipP ==
  ASSUME IInv, PInv, NEW i \in Instant, Skip(i)
  PROVE  PInv'
<1>1. /\ UNCHANGED <<collected, inOrder, checkpoint, predicted, batch, lost>>
      /\ run.pc = "running" /\ run'.pc = run.pc /\ run'.events = run.events
      /\ run'.processed = run.processed /\ run'.out = run.out /\ run'.new = run.new
  BY DEF Skip, AtInstant, IInv, RunType
<1> QED BY <1>1 DEF PInv, ProcessedIsPredicted, Processed, Remembered, FirstTold, Earliest,
                    Served, Told, NewProcessed, SavedNew

(* A batch adds to the output the zones of its accepted events.            *)
LEMMA ProcessP ==
  ASSUME IInv, PInv, NEW i \in Instant, Process(i)
  PROVE  PInv'
<1> DEFINE affected == Affected(NewEvents(i), DOMAIN run.snapshots, i)
           refreshed == Refresh(run.snapshots, run.events, NewEvents(i), i)
<1>1. /\ UNCHANGED <<collected, inOrder, checkpoint, predicted, batch, lost>>
      /\ run.pc = "running" /\ run'.pc = run.pc /\ run'.events = run.events
      /\ run'.processed = run.processed \union {i} /\ i \notin run.processed
      /\ run'.out = run.out \union (affected \intersect DOMAIN refreshed) \X {i}
      /\ run'.new = run.new \union NewEvents(i)
  BY DEF Process, AtInstant, IInv, RunType
<1>2. NewEvents(i) # {} /\ \A e \in NewEvents(i) : at[e] = i
  BY BatchIsNew DEF Process
<1>3. ASSUME NEW e \in NewEvents(i), e \in Accepted, NEW z \in place[e]
      PROVE  <<z, i>> \in run'.out
  <2>1. i \in Nat BY ConstantsAssumption DEF Instant
  <2>2. e \in AsOf(NewEvents(i), i) BY <1>2, <1>3, <2>1 DEF AsOf
  <2>3. z \in affected BY <2>2 DEF Affected, ZonesOf
  <2>4. z \in DOMAIN refreshed BY <2>3 DEF Refresh
  <2> HIDE DEF affected, refreshed
  <2> QED BY <1>1, <2>3, <2>4
<1> HIDE DEF affected, refreshed
<1>4. batch[i] = {}
  BY <1>1 DEF PInv, Remembered
<1>5. ASSUME NEW j \in run'.processed \ lost'
      PROVE  /\ Told(j)' # {}
             /\ \A e \in Told(j)' \intersect Accepted : \A z \in place[e] :
                  predicted'[<<z, j>>] = 1 \/ <<z, j>> \in run'.out
  <2>1. CASE j = i
    <3>1. \A e \in Told(i)' : e \in NewEvents(i) \/ (e \in run.new /\ at[e] = i)
      BY <1>1, <1>4 DEF Told
    <3>2. \A e \in run.new : at[e] # i
      BY <1>1, <2>1 DEF PInv, NewProcessed
    <3> QED BY <1>1, <1>2, <1>3, <2>1, <3>1, <3>2 DEF Told
  <2>2. CASE j # i
    <3>1. j \in run.processed \ lost BY <1>1, <1>5, <2>2
    <3>2. Told(j)' = Told(j) BY <1>1, <1>2, <2>2 DEF Told
    <3> QED BY <1>1, <3>1, <3>2 DEF PInv, Served
  <2> QED BY <2>1, <2>2
<1>6. Served' BY <1>5 DEF Served
<1>7. ProcessedIsPredicted' /\ Remembered' /\ FirstTold'
  BY <1>1 DEF PInv, ProcessedIsPredicted, Processed, Remembered, FirstTold, Earliest
<1>8. NewProcessed' /\ SavedNew'
  BY <1>1, <1>2 DEF PInv, NewProcessed, SavedNew
<1> QED BY <1>1, <1>6, <1>7, <1>8 DEF PInv

LEMMA OpenP == IInv /\ PInv /\ Open => PInv'
<1> SUFFICES ASSUME IInv, PInv, Open PROVE PInv'
  OBVIOUS
<1>1. /\ UNCHANGED <<collected, inOrder, predicted, batch, lost>>
      /\ run.pc = "running" /\ run'.pc = "saving" /\ run'.events = run.events
      /\ run'.processed = run.processed /\ run'.out = run.out /\ run'.new = run.new
      /\ checkpoint' = Torn
  BY DEF Open, IInv, RunType
<1> QED BY <1>1 DEF PInv, ProcessedIsPredicted, Processed, Remembered, FirstTold, Earliest,
                    Served, Told, NewProcessed, SavedNew

LEMMA SaveP == IInv /\ PInv /\ Save => PInv'
<1> SUFFICES ASSUME IInv, PInv, Save PROVE PInv'
  OBVIOUS
<1>1. /\ UNCHANGED <<collected, inOrder, predicted, lost>>
      /\ run.pc = "saving" /\ run'.pc = "saved" /\ run'.events = run.events
      /\ run'.processed = run.processed /\ run'.out = run.out /\ run'.new = run.new
      /\ checkpoint' = run.processed
      /\ batch' = [i \in Instant |-> batch[i] \union {e \in run.new : at[e] = i}]
      /\ run.processed \subseteq Instant
      /\ run.new \subseteq run.events
  BY DEF Save, IInv, RunType, TypeOK
<1>2. Processed' = run.processed /\ checkpoint' # Torn
  BY <1>1, ConstantsAssumption DEF Processed, Instant
<1>3. \A i \in Instant : batch'[i] = Told(i)
  BY <1>1 DEF Told
<1>4. ProcessedIsPredicted' BY <1>1 DEF ProcessedIsPredicted
<1>5. Remembered'
  BY <1>1, <1>2, <1>3 DEF PInv, Remembered, NewProcessed, Told
<1>6. FirstTold'
  BY <1>1, <1>3 DEF PInv, FirstTold, Earliest, Told
<1>7. Served'
  <2>1. \A i \in Instant : Told(i)' = Told(i) BY <1>1, <1>3 DEF Told
  <2> QED BY <1>1, <2>1 DEF PInv, Served
<1>8. NewProcessed' /\ SavedNew'
  <2>1. \A e \in run.new : at[e] \in Instant BY <1>1 DEF PInv, NewProcessed
  <2> QED BY <1>1, <2>1 DEF PInv, NewProcessed, SavedNew
<1> QED BY <1>1, <1>4, <1>5, <1>6, <1>7, <1>8 DEF PInv

(* When the run returns, what it has in its output is predicted, and when  *)
(* it is killed before, the instants of its output are lost.               *)
LEMMA ReturnP == IInv /\ PInv /\ Return => PInv'
<1> SUFFICES ASSUME IInv, PInv, Return PROVE PInv'
  OBVIOUS
<1>1. /\ UNCHANGED <<collected, inOrder, checkpoint, batch, lost>>
      /\ run.pc = "saved" /\ run' = NoRun
      /\ predicted' = [p \in DOMAIN predicted |->
                         predicted[p] + IF p \in run.out THEN 1 ELSE 0]
      /\ checkpoint = run.processed /\ run.processed \subseteq Instant
      /\ batch \in [Instant -> SUBSET Article]
  BY DEF Return, IInv, Emitted, RunType, TypeOK
<1>2. Processed = run.processed /\ Processed' = Processed
  BY <1>1, ConstantsAssumption DEF Processed, Instant
<1>3. ASSUME NEW p \in Zone \X Instant, predicted[p] = 1 \/ p \in run.out
      PROVE  predicted'[p] = 1
  <2>1. p \in DOMAIN predicted /\ predicted[p] \in {0, 1}
        /\ (predicted[p] = 1 => p \notin run.out)
    BY <1>1 DEF IInv, Emitted, TypeOK
  <2> QED BY <1>1, <1>3, <2>1
<1>4. ASSUME NEW i \in Processed' \ lost'
      PROVE  /\ batch'[i] # {}
             /\ \A e \in batch'[i] \intersect Accepted : \A z \in place[e] :
                  predicted'[<<z, i>>] = 1
  <2>1. i \in run.processed \ lost /\ i \in Instant
    BY <1>1, <1>2
  <2>2. Told(i) = batch[i]
    BY <1>1, <2>1 DEF PInv, SavedNew, Told
  <2>3. \A e \in batch[i] : place[e] \subseteq Zone
    BY <1>1, <2>1, ConstantsAssumption
  <2> QED BY <1>1, <1>3, <2>1, <2>2, <2>3 DEF PInv, Served
<1>5. ProcessedIsPredicted' BY <1>4 DEF ProcessedIsPredicted
<1>6. Remembered' /\ FirstTold' /\ NewProcessed' /\ SavedNew'
  BY <1>1, <1>2 DEF PInv, Remembered, FirstTold, Earliest, NewProcessed, SavedNew, NoRun
<1> QED BY <1>1, <1>5, <1>6 DEF PInv, NoRun

LEMMA KillP == IInv /\ PInv /\ Kill => PInv'
<1> SUFFICES ASSUME IInv, PInv, Kill PROVE PInv'
  OBVIOUS
<1>1. /\ UNCHANGED <<collected, inOrder, checkpoint, predicted, batch>>
      /\ run.pc # "idle" /\ run' = NoRun /\ lost \subseteq lost'
      /\ run.pc = "saved" => \A p \in run.out : p[2] \in lost'
      /\ batch \in [Instant -> SUBSET Article]
  BY DEF Kill, IInv, TypeOK
<1>2. Remembered' /\ FirstTold' /\ NewProcessed' /\ SavedNew'
  BY <1>1 DEF PInv, Remembered, Processed, FirstTold, Earliest, NewProcessed, SavedNew, NoRun
<1>3. ASSUME NEW i \in Processed' \ lost'
      PROVE  /\ batch'[i] # {}
             /\ \A e \in batch'[i] \intersect Accepted : \A z \in place[e] :
                  predicted'[<<z, i>>] = 1
  <2>1. i \in Processed \ lost /\ Processed' = Processed
    BY <1>1 DEF Processed
  <2>2. CASE run.pc # "saved"
    BY <1>1, <2>1, <2>2 DEF PInv, ProcessedIsPredicted
  <2>3. CASE run.pc = "saved"
    <3>1. checkpoint = run.processed /\ run.processed \subseteq Instant
      BY <2>3 DEF IInv, Emitted, RunType
    <3>2. i \in run.processed \ lost /\ i \in Instant
      BY <2>1, <3>1 DEF Processed
    <3>3. Told(i) = batch[i]
      BY <2>3, <3>2 DEF PInv, SavedNew, Told
    <3>4. \A z : <<z, i>> \notin run.out
      BY <1>1, <1>3, <2>3
    <3> QED BY <1>1, <2>3, <3>2, <3>3, <3>4 DEF PInv, Served
  <2> QED BY <2>2, <2>3
<1>4. ProcessedIsPredicted' BY <1>3 DEF ProcessedIsPredicted
<1> QED BY <1>1, <1>2, <1>4 DEF PInv, NoRun

LEMMA PInvAlways == Spec => []PInv
<1>1. IInv /\ PInv /\ [Next]_vars => PInv'
  <2> SUFFICES ASSUME IInv, PInv, [Next]_vars PROVE PInv'
    OBVIOUS
  <2>1. CASE \E a \in Article : CollectArticle(a)
    BY <2>1, CollectP
  <2>2. CASE \E i \in Instant : Skip(i)
    BY <2>2, SkipP
  <2>3. CASE \E i \in Instant : Process(i)
    BY <2>3, ProcessP
  <2>4. CASE UNCHANGED vars
    BY <2>4 DEF vars, PInv, ProcessedIsPredicted, Processed, Remembered, FirstTold, Earliest,
                Served, Told, NewProcessed, SavedNew
  <2> QED BY <2>1, <2>2, <2>3, <2>4, BeginP, OpenP, SaveP, ReturnP, KillP DEF Next
<1> QED BY <1>1, InitP, IInvAlways, PTL DEF Spec

-----------------------------------------------------------------------------
(* The theorems                                                            *)

(* Type correctness of the stream and its checkpoint, with what a run      *)
(* knows: it never forgets an instant the checkpoint has.                  *)
THEOREM TypeCorrect == Spec => []TypeOK
BY IInvAlways, PTL DEF IInv

(* Restarts, kills and late articles notwithstanding, run_shadow_stream    *)
(* gives its callers one prediction for a zone at an instant.              *)
THEOREM PredictionsAreOnce == Spec => []PredictedOnce
<1>1. IInv => PredictedOnce
  BY DEF IInv, Emitted, PredictedOnce
<1> QED BY IInvAlways, <1>1, PTL

(* Whatever instants were skipped or processed, incremental refreshes      *)
(* leave the zones of a full rebuild: those that are predicted as it gives *)
(* them, the others counting the same events with the ages of some earlier *)
(* instant.                                                                *)
THEOREM SnapshotsAreCurrent == Spec => []SnapshotsCurrent
<1>1. IInv => SnapshotsCurrent
  <2> SUFFICES ASSUME IInv, run.seen # {} PROVE SnapshotsCurrent
    BY DEF SnapshotsCurrent
  <2> DEFINE full == FullRebuild(run.events, run.cutoff)
  <2>1. AsOf(run.events, run.cutoff) = run.seen \intersect Accepted
    BY DEF IInv, Current, AsOf
  <2>2. DOMAIN run.snapshots = DOMAIN full
    BY <2>1 DEF IInv, Current, Exact, FullRebuild
  <2>3. \A z \in DOMAIN full : Counted(run.snapshots[z]) = Counted(full[z])
    BY <2>1, <2>2, FeaturesCount DEF IInv, Current, Exact, FullRebuild
  <2>4. \A z \in DOMAIN full :
          /\ <<z, run.cutoff>> \in run.out => run.snapshots[z] = full[z]
          /\ \E c \in Instant :
               c <= run.cutoff /\ run.snapshots[z] = Features(run.events, z, c)
    BY <2>2 DEF IInv, Current, Aged, FullRebuild
  <2> QED BY <2>2, <2>3, <2>4 DEF SnapshotsCurrent, Counted
<1> QED BY IInvAlways, <1>1, PTL

(* run_shadow_stream's test for a batch without new events never applies:  *)
(* an instant that is due always has one.                                  *)
THEOREM BatchHasEvents ==
  Spec => [](\A i \in Instant : AtInstant(i) => NewEvents(i) # {})
<1>1. IInv => \A i \in Instant : AtInstant(i) => NewEvents(i) # {}
  BY BatchIsNew
<1> QED BY IInvAlways, <1>1, PTL

(* Of an instant in the checkpoint there was a batch, and every zone of an *)
(* accepted event in it was predicted, over restarts, kills and late       *)
(* articles; only what a run killed between its checkpoint and its return  *)
(* has emitted is lost.                                                    *)
THEOREM CheckpointIsPredicted == Spec => []ProcessedIsPredicted
BY PInvAlways, PTL DEF PInv

(* A story makes one batch while articles are collected as they become     *)
(* available: the article that stood for it in one run stands for it in    *)
(* all later ones.                                                         *)
THEOREM StoryTriggersOneBatch == Spec => []StoryTriggersOnce
<1>1. IInv /\ PInv => StoryTriggersOnce
  <2> SUFFICES ASSUME IInv, PInv, inOrder, NEW i \in Instant, NEW j \in Instant,
                      NEW d \in batch[i], NEW e \in batch[j], story[d] = story[e]
               PROVE  i = j
    BY DEF StoryTriggersOnce
  <2>1. d \in collected /\ e \in collected /\ collected \subseteq Article
    BY DEF IInv, TypeOK
  <2>2. at[d] = i /\ at[e] = j /\ at[d] <= at[e] /\ at[e] <= at[d]
    BY <2>1 DEF PInv, FirstTold, Earliest
  <2>3. at[d] \in Nat /\ at[e] \in Nat
    BY <2>1, ConstantsAssumption
  <2> QED BY <2>2, <2>3
<1> QED BY <1>1, IInvAlways, PInvAlways, PTL

-----------------------------------------------------------------------------
(* Loads                                                                   *)

Loading == pc \in {"choosing", "rows", "loaded"}

(* What a load still has to do is a sequence of different tables, and its  *)
(* stamp is the latest there is.                                           *)
LoadType ==
  /\ jobs \in Nat /\ stamp \in Nat
  /\ Loading =>
       /\ stamp = jobs
       /\ todo \in Seq(Tables) /\ todo # <<>>
       /\ \A i, j \in DOMAIN todo : todo[i] = todo[j] => i = j

(* Nothing in the tables is from a load that has yet to begin.             *)
Stamped ==
  /\ DOMAIN table = Tables
  /\ \A t \in Tables : \A k \in DOMAIN table[t] :
       table[t][k].loaded_at \in Nat /\ table[t][k].loaded_at <= jobs
  /\ \A a \in audits : a.table_name \in Tables /\ a.loaded_at \in Nat /\ a.loaded_at <= jobs

RowsBefore(t) == \A k \in DOMAIN table[t] : table[t][k].loaded_at < stamp

AuditsBefore(t) == \A a \in audits : a.table_name = t => a.loaded_at < stamp

(* The rows of the running load in table t are the rows it read.           *)
RowsLoaded(t) ==
  /\ DOMAIN rows \subseteq DOMAIN table[t]
  /\ \A k \in DOMAIN table[t] :
       IF k \in DOMAIN rows THEN table[t][k].loaded_at = stamp ELSE table[t][k].loaded_at < stamp

(* A running load has touched no table it has still to load.               *)
Progress ==
  /\ pc \in {"choosing", "rows"} =>
       \A i \in DOMAIN todo : RowsBefore(todo[i]) /\ AuditsBefore(todo[i])
  /\ pc = "loaded" =>
       /\ RowsLoaded(todo[1]) /\ AuditsBefore(todo[1])
       /\ \A i \in DOMAIN todo : i # 1 => RowsBefore(todo[i]) /\ AuditsBefore(todo[i])

(* The two halves of AuditedAsLoaded.                                      *)
Accounted ==
  \A t \in Tables : \A k \in DOMAIN table[t] :
    \/ \E a \in audits : a.table_name = t /\ a.loaded_at = table[t][k].loaded_at
    \/ <<t, table[t][k].loaded_at>> \in cut
    \/ pc = "loaded" /\ t = todo[1] /\ table[t][k].loaded_at = stamp

CountedRight ==
  \A a \in audits : \A k \in LastLoaded(a.table_name) :
    table[a.table_name][k].loaded_at = a.loaded_at =>
      Cardinality(LastLoaded(a.table_name)) = a.row_count

LoadInv == LoadType /\ Stamped /\ Progress /\ Accounted /\ CountedRight

loadVars == <<pc, todo, rows, stamp, table, audits, cut, jobs>>

-----------------------------------------------------------------------------
LEMMA HeadIsFirst ==
  ASSUME NEW s \in Seq(Tables), s # <<>>
  PROVE  /\ 1 \in DOMAIN s /\ Head(s) = s[1] /\ s[1] \in Tables
         /\ \A i \in DOMAIN s : s[i] \in Tables
OBVIOUS

(* The rest of a sequence of different tables.                             *)
LEMMA RestOfTables ==
  ASSUME NEW s \in Seq(Tables), s # <<>>,
         \A i, j \in DOMAIN s : s[i] = s[j] => i = j
  PROVE  /\ Tail(s) \in Seq(Tables)
         /\ \A i, j \in DOMAIN Tail(s) : Tail(s)[i] = Tail(s)[j] => i = j
         /\ \A i \in DOMAIN Tail(s) :
              \E j \in DOMAIN s : j # 1 /\ Tail(s)[i] = s[j] /\ s[j] # s[1]
<1>1. /\ Tail(s) \in Seq(Tables) /\ Len(Tail(s)) = Len(s) - 1
      /\ \A i \in 1..Len(Tail(s)) : Tail(s)[i] = s[i + 1]
  BY HeadTailProperties
<1>2. DOMAIN s = 1..Len(s) /\ DOMAIN Tail(s) = 1..Len(Tail(s)) /\ Len(s) \in Nat /\ Len(s) # 0
  BY <1>1
<1>3. ASSUME NEW i \in DOMAIN Tail(s)
      PROVE  i + 1 \in DOMAIN s /\ i + 1 # 1 /\ 1 \in DOMAIN s /\ Tail(s)[i] = s[i + 1]
  BY <1>1, <1>2
<1>4. ASSUME NEW i \in DOMAIN Tail(s), NEW j \in DOMAIN Tail(s), Tail(s)[i] = Tail(s)[j]
      PROVE  i = j
  <2>1. s[i + 1] = s[j + 1] /\ i + 1 \in DOMAIN s /\ j + 1 \in DOMAIN s
    BY <1>3, <1>4
  <2>2. i + 1 = j + 1
    BY <2>1
  <2> QED BY <2>2, <1>2
<1>5. ASSUME NEW i \in DOMAIN Tail(s)
      PROVE  \E j \in DOMAIN s : j # 1 /\ Tail(s)[i] = s[j] /\ s[j] # s[1]
  BY <1>3
<1> QED BY <1>1, <1>4, <1>5

(* What an upsert leaves in a table.                                       *)
LEMMA UpsertRows ==
  ASSUME NEW old, NEW new
  PROVE  /\ DOMAIN Upsert(old, new) = DOMAIN old \union DOMAIN new
         /\ \A k \in DOMAIN new : Upsert(old, new)[k].loaded_at = stamp
         /\ \A k \in DOMAIN old : k \notin DOMAIN new => Upsert(old, new)[k] = old[k]
BY DEF Upsert

(* The rows of a load that is loading a table are its last loaded ones.    *)
LEMMA LastAreRows ==
  ASSUME NEW t \in Tables, Stamped, stamp \in Nat, RowsLoaded(t),
         NEW k \in LastLoaded(t), table[t][k].loaded_at = stamp
  PROVE  LastLoaded(t) = DOMAIN rows
<1>1. \A j \in DOMAIN table[t] : table[t][j].loaded_at \in Nat
  BY DEF Stamped
<1>2. \A j \in DOMAIN rows : j \in DOMAIN table[t] /\ table[t][j].loaded_at = stamp
  BY DEF RowsLoaded
<1>3. \A j \in DOMAIN table[t] : table[t][j].loaded_at <= stamp
  BY <1>1 DEF RowsLoaded
<1>4. \A j \in DOMAIN rows : j \in LastLoaded(t)
  BY <1>2, <1>3 DEF LastLoaded
<1>5. k \in DOMAIN table[t]
  BY DEF LastLoaded
<1>6. \A j \in LastLoaded(t) : j \in DOMAIN table[t] /\ stamp <= table[t][j].loaded_at
  BY <1>5 DEF LastLoaded
<1>7. \A j \in LastLoaded(t) : table[t][j].loaded_at = stamp
  BY <1>1, <1>3, <1>6
<1>8. \A j \in LastLoaded(t) : j \in DOMAIN rows
  BY <1>6, <1>7 DEF RowsLoaded
<1> QED BY <1>4, <1>8

-----------------------------------------------------------------------------
LEMMA InitInvariant == StoreInit => LoadInv
BY StoreAssumption DEF StoreInit, NoRows, LoadInv, LoadType, Loading, Stamped, Progress, Accounted,
   CountedRight, RowsBefore, AuditsBefore, RowsLoaded, LastLoaded, Tables

(* The loader's state and its tables are left alone.                       *)
LEMMA LoadStutter == LoadInv /\ UNCHANGED loadVars => LoadInv'
BY DEF loadVars, LoadInv, LoadType, Loading, Stamped, Progress, Accounted, CountedRight,
   RowsBefore, AuditsBefore, RowsLoaded, LastLoaded

(* A step that is none of a load, or ends one.                             *)
LEMMA NoLoad ==
  ASSUME LoadInv, pc' \notin {"choosing", "rows", "loaded"}, stamp' \in Nat, jobs' \in Nat, jobs <= jobs',
         UNCHANGED <<table, audits>>,
         cut \subseteq cut',
         pc = "loaded" => <<todo[1], stamp>> \in cut'
  PROVE  LoadInv'
<1>1. LoadType'
  BY DEF LoadInv, LoadType, Loading
<1>2. Stamped'
  <2>1. \A n \in Nat : n <= jobs => n <= jobs'
    BY DEF LoadInv, LoadType
  <2> QED BY <2>1 DEF LoadInv, Stamped
<1>3. Progress'
  BY DEF Progress
<1>4. Accounted'
  <2> SUFFICES ASSUME NEW t \in Tables, NEW k \in DOMAIN table[t]
               PROVE  \/ \E a \in audits : a.table_name = t /\ a.loaded_at = table[t][k].loaded_at
                      \/ <<t, table[t][k].loaded_at>> \in cut'
    BY DEF Accounted
  <2> QED BY DEF LoadInv, Accounted
<1>5. CountedRight'
  BY DEF LoadInv, CountedRight, LastLoaded
<1> QED BY <1>1, <1>2, <1>3, <1>4, <1>5 DEF LoadInv

(* A new load: everything there is older than it.                          *)
LEMMA BeginLoadStep ==
  ASSUME LoadInv, NEW asked \in Requests, BeginLoad(asked)
  PROVE  LoadInv'
<1>1. /\ jobs' = jobs + 1 /\ stamp' = jobs' /\ todo' = asked /\ pc' = "choosing" /\ pc = "idle"
      /\ UNCHANGED <<table, audits, cut>>
  BY DEF BeginLoad, StartJob, history, ghosts
<1>2. asked \in Seq(Tables) /\ asked # <<>> /\ \A i, j \in DOMAIN asked : asked[i] = asked[j] => i = j
  BY StoreAssumption
<1>3. jobs \in Nat /\ jobs' \in Nat /\ \A n \in Nat : n <= jobs => n <= jobs' /\ n < stamp'
  BY <1>1 DEF LoadInv, LoadType
<1>4. LoadType'
  BY <1>1, <1>2, <1>3 DEF LoadType, Loading
<1>5. Stamped'
  BY <1>1, <1>3 DEF LoadInv, Stamped
<1>6. Progress'
  <2>1. \A t \in Tables : RowsBefore(t)' /\ AuditsBefore(t)'
    BY <1>1, <1>3 DEF LoadInv, Stamped, RowsBefore, AuditsBefore
  <2>2. \A i \in DOMAIN asked : asked[i] \in Tables
    BY <1>2, HeadIsFirst
  <2> QED BY <1>1, <2>1, <2>2 DEF Progress
<1>7. Accounted'
  BY <1>1 DEF LoadInv, Accounted
<1>8. CountedRight'
  BY <1>1 DEF LoadInv, CountedRight, LastLoaded
<1> QED BY <1>4, <1>5, <1>6, <1>7, <1>8 DEF LoadInv

(* The rows are read: the tables still wait.                               *)
LEMMA ReadRowsStep ==
  ASSUME LoadInv, ReadRows
  PROVE  LoadInv'
<1>1. /\ pc = "choosing" /\ pc' = "rows"
      /\ UNCHANGED <<todo, stamp, table, audits, cut, jobs>>
  BY DEF ReadRows, history, ghosts
<1>2. LoadType' /\ Stamped'
  BY <1>1 DEF LoadInv, LoadType, Loading, Stamped
<1>3. Progress'
  BY <1>1 DEF LoadInv, Progress, RowsBefore, AuditsBefore
<1>4. Accounted' /\ CountedRight'
  BY <1>1 DEF LoadInv, Accounted, CountedRight, LastLoaded
<1> QED BY <1>2, <1>3, <1>4 DEF LoadInv

(* The rows are committed: every one of them bears the stamp of the load,  *)
(* and no other row does, because the table had none of it.                *)
LEMMA CommitRowsStep ==
  ASSUME LoadInv, CommitRows
  PROVE  LoadInv'
<1> DEFINE h == todo[1]
           T == Upsert(table[h], rows)
<1>1. /\ pc = "rows" /\ pc' = "loaded" /\ table' = [table EXCEPT ![Head(todo)] = Upsert(@, rows)]
      /\ UNCHANGED <<todo, rows, stamp, audits, cut, jobs>>
  BY DEF CommitRows, ghosts
<1>2. /\ stamp = jobs /\ stamp \in Nat /\ todo \in Seq(Tables) /\ todo # <<>>
      /\ \A i, j \in DOMAIN todo : todo[i] = todo[j] => i = j
  BY <1>1 DEF LoadInv, LoadType, Loading
<1>3. Head(todo) = h /\ h \in Tables /\ 1 \in DOMAIN todo /\ \A i \in DOMAIN todo : todo[i] \in Tables
  BY <1>2, HeadIsFirst
<1>4. /\ DOMAIN table' = Tables /\ table'[h] = T
      /\ \A t \in Tables : t # h => table'[t] = table[t]
  BY <1>1, <1>3 DEF LoadInv, Stamped
<1>5. /\ DOMAIN T = DOMAIN table[h] \union DOMAIN rows
      /\ \A k \in DOMAIN rows : T[k].loaded_at = stamp
      /\ \A k \in DOMAIN table[h] : k \notin DOMAIN rows => T[k] = table[h][k]
  BY UpsertRows
<1>6. RowsBefore(h) /\ AuditsBefore(h)
  BY <1>1, <1>3 DEF LoadInv, Progress
<1> HIDE DEF T
<1>7. LoadType'
  BY <1>1 DEF LoadInv, LoadType, Loading
<1>8. Stamped'
  <2>1. ASSUME NEW t \in Tables, NEW k \in DOMAIN table'[t]
        PROVE  table'[t][k].loaded_at \in Nat /\ table'[t][k].loaded_at <= jobs
    <3>1. CASE t = h
      <4>1. CASE k \in DOMAIN rows
        BY <1>2, <1>4, <1>5, <3>1, <4>1
      <4>2. CASE k \notin DOMAIN rows
        BY <1>3, <1>4, <1>5, <2>1, <3>1, <4>2 DEF LoadInv, Stamped
      <4> QED BY <4>1, <4>2
    <3>2. CASE t # h
      BY <1>4, <2>1, <3>2 DEF LoadInv, Stamped
    <3> QED BY <3>1, <3>2
  <2> QED BY <1>1, <1>4, <2>1 DEF LoadInv, Stamped
<1>9. Progress'
  <2>1. RowsLoaded(h)'
    <3>1. DOMAIN rows \subseteq DOMAIN T
      BY <1>5
    <3>2. \A k \in DOMAIN T :
            IF k \in DOMAIN rows THEN T[k].loaded_at = stamp ELSE T[k].loaded_at < stamp
      BY <1>5, <1>6 DEF RowsBefore
    <3> QED BY <1>1, <1>4, <3>1, <3>2 DEF RowsLoaded
  <2>2. AuditsBefore(h)'
    BY <1>1, <1>6 DEF AuditsBefore
  <2>3. ASSUME NEW i \in DOMAIN todo, i # 1
        PROVE  RowsBefore(todo[i])' /\ AuditsBefore(todo[i])'
    <3>1. todo[i] # h /\ todo[i] \in Tables
      BY <1>2, <1>3, <2>3
    <3>2. RowsBefore(todo[i]) /\ AuditsBefore(todo[i])
      BY <1>1 DEF LoadInv, Progress
    <3> QED BY <1>1, <1>4, <3>1, <3>2 DEF RowsBefore, AuditsBefore
  <2> QED BY <1>1, <2>1, <2>2, <2>3 DEF Progress
<1>10. Accounted'
  <2> SUFFICES ASSUME NEW t \in Tables, NEW k \in DOMAIN table'[t]
               PROVE  \/ \E a \in audits : a.table_name = t /\ a.loaded_at = table'[t][k].loaded_at
                      \/ <<t, table'[t][k].loaded_at>> \in cut
                      \/ t = h /\ table'[t][k].loaded_at = stamp
    BY <1>1 DEF Accounted
  <2>1. CASE t = h /\ k \in DOMAIN rows
    BY <1>4, <1>5, <2>1
  <2>2. CASE ~(t = h /\ k \in DOMAIN rows)
    <3>1. k \in DOMAIN table[t] /\ table'[t][k] = table[t][k]
      BY <1>3, <1>4, <1>5, <2>2
    <3> QED BY <1>1, <3>1 DEF LoadInv, Accounted
  <2> QED BY <2>1, <2>2
<1>11. CountedRight'
  <2> SUFFICES ASSUME NEW a \in audits, NEW k \in LastLoaded(a.table_name)',
                      table'[a.table_name][k].loaded_at = a.loaded_at
               PROVE  Cardinality(LastLoaded(a.table_name)') = a.row_count
    BY <1>1 DEF CountedRight
  <2>1. a.table_name \in Tables /\ a.loaded_at \in Nat
    BY DEF LoadInv, Stamped
  <2>2. CASE a.table_name # h
    <3>1. LastLoaded(a.table_name)' = LastLoaded(a.table_name)
      BY <1>4, <2>1, <2>2 DEF LastLoaded
    <3> QED BY <1>4, <2>1, <2>2, <3>1 DEF LoadInv, CountedRight
  <2>3. CASE a.table_name = h
    <3>1. a.loaded_at < stamp
      BY <1>6, <2>3 DEF AuditsBefore
    <3>2. k \in DOMAIN T /\ \A j \in DOMAIN T : T[j].loaded_at <= T[k].loaded_at
      BY <1>4, <2>3 DEF LastLoaded
    <3>3. T[k].loaded_at = a.loaded_at
      BY <1>4, <2>3
    <3>4. \A j \in DOMAIN rows : FALSE
      BY <1>2, <1>5, <2>1, <3>1, <3>2, <3>3
    <3>5. DOMAIN T = DOMAIN table[h] /\ \A j \in DOMAIN T : T[j] = table[h][j]
      BY <1>5, <3>4
    <3>6. LastLoaded(h)' = LastLoaded(h)
      BY <1>1, <1>4, <3>5 DEF LastLoaded
    <3>7. k \in LastLoaded(h) /\ table[h][k].loaded_at = a.loaded_at
      BY <3>2, <3>3, <3>5 DEF LastLoaded
    <3> QED BY <1>1, <2>3, <3>6, <3>7 DEF LoadInv, CountedRight
  <2> QED BY <2>2, <2>3
<1> QED BY <1>7, <1>8, <1>9, <1>10, <1>11 DEF LoadInv

(* The audit row: it counts the rows of the load, which are the last of    *)
(* their table, and the next table is one the load has not touched.        *)
LEMMA RecordLoadStep ==
  ASSUME LoadInv, RecordLoad
  PROVE  LoadInv'
<1> DEFINE h == todo[1]
           new == [table_name |-> Head(todo), row_count |-> Cardinality(DOMAIN rows), loaded_at |-> stamp]
<1>1. /\ pc = "loaded" /\ audits' = audits \union {new}
      /\ UNCHANGED <<table, cut, jobs>>
  BY DEF RecordLoad, ghosts
<1>2. /\ stamp = jobs /\ stamp \in Nat /\ jobs \in Nat /\ todo \in Seq(Tables) /\ todo # <<>>
      /\ \A i, j \in DOMAIN todo : todo[i] = todo[j] => i = j
  BY <1>1 DEF LoadInv, LoadType, Loading
<1>3. Head(todo) = h /\ h \in Tables /\ 1 \in DOMAIN todo /\ \A i \in DOMAIN todo : todo[i] \in Tables
  BY <1>2, HeadIsFirst
<1>4. new.table_name = h /\ new.loaded_at = stamp /\ new.row_count = Cardinality(DOMAIN rows)
  BY <1>3
<1> HIDE DEF new
<1>5. RowsLoaded(h)
  BY <1>1 DEF LoadInv, Progress
<1>6. \/ pc' = "idle" /\ stamp' = 0
      \/ pc' = "choosing" /\ todo' = Tail(todo) /\ Tail(todo) # <<>> /\ stamp' = stamp
  BY DEF RecordLoad, Quit
<1>7. LoadType' /\ Progress'
  <2>1. CASE pc' = "idle" /\ stamp' = 0
    BY <1>1, <1>2, <2>1 DEF LoadType, Loading, Progress
  <2>2. CASE pc' = "choosing" /\ todo' = Tail(todo) /\ Tail(todo) # <<>> /\ stamp' = stamp
    <3>1. /\ Tail(todo) \in Seq(Tables)
          /\ \A i, j \in DOMAIN Tail(todo) : Tail(todo)[i] = Tail(todo)[j] => i = j
          /\ \A i \in DOMAIN Tail(todo) :
               \E j \in DOMAIN todo : j # 1 /\ Tail(todo)[i] = todo[j] /\ todo[j] # h
      BY <1>2, RestOfTables
    <3>2. LoadType'
      BY <1>1, <1>2, <2>2, <3>1 DEF LoadType, Loading
    <3>3. ASSUME NEW i \in DOMAIN todo'
          PROVE  (RowsBefore(todo[i]) /\ AuditsBefore(todo[i]))'
      <4>1. PICK j \in DOMAIN todo : j # 1 /\ todo'[i] = todo[j] /\ todo[j] # h
        BY <2>2, <3>1, <3>3
      <4>2. RowsBefore(todo[j]) /\ AuditsBefore(todo[j])
        BY <1>1, <4>1 DEF LoadInv, Progress
      <4>3. todo'[i] # h /\ RowsBefore(todo'[i]) /\ AuditsBefore(todo'[i])
        BY <4>1, <4>2
      <4>4. \A k \in DOMAIN table[todo'[i]] : table[todo'[i]][k].loaded_at < stamp
        BY <4>3 DEF RowsBefore
      <4>5. \A a \in audits' : a.table_name = todo'[i] => a.loaded_at < stamp
        BY <1>1, <1>4, <4>3 DEF AuditsBefore
      <4> QED BY <1>1, <2>2, <4>4, <4>5 DEF RowsBefore, AuditsBefore
    <3> QED BY <2>2, <3>2, <3>3 DEF Progress
  <2> QED BY <1>6, <2>1, <2>2
<1>8. Stamped'
  BY <1>1, <1>2, <1>3, <1>4 DEF LoadInv, Stamped
<1>9. Accounted'
  <2> SUFFICES ASSUME NEW t \in Tables, NEW k \in DOMAIN table[t]
               PROVE  \/ \E a \in audits' : a.table_name = t /\ a.loaded_at = table[t][k].loaded_at
                      \/ <<t, table[t][k].loaded_at>> \in cut
    BY <1>1 DEF Accounted
  <2>1. CASE t = h /\ table[t][k].loaded_at = stamp
    BY <1>1, <1>4, <2>1
  <2>2. CASE ~(t = h /\ table[t][k].loaded_at = stamp)
    BY <1>1, <2>2 DEF LoadInv, Accounted
  <2> QED BY <2>1, <2>2
<1>10. CountedRight'
  <2> SUFFICES ASSUME NEW a \in audits', NEW k \in LastLoaded(a.table_name),
                      table[a.table_name][k].loaded_at = a.loaded_at
               PROVE  Cardinality(LastLoaded(a.table_name)) = a.row_count
    BY <1>1 DEF CountedRight, LastLoaded
  <2>1. CASE a \in audits
    BY <2>1 DEF LoadInv, CountedRight
  <2>2. CASE a = new
    <3>1. k \in LastLoaded(h) /\ table[h][k].loaded_at = stamp
      BY <1>4, <2>2
    <3>2. LastLoaded(h) = DOMAIN rows
      BY <1>2, <1>3, <1>5, <3>1, LastAreRows DEF LoadInv
    <3> QED BY <1>4, <2>2, <3>2
  <2> QED BY <1>1, <2>1, <2>2
<1> QED BY <1>7, <1>8, <1>9, <1>10 DEF LoadInv

-----------------------------------------------------------------------------
LEMMA NextInvariant ==
  ASSUME LoadInv, [StoreNext]_<<vars, storeVars>>
  PROVE  LoadInv'
<1> USE DEF job, graphs, history, ghosts
<1>1. jobs \in Nat /\ stamp \in Nat /\ 0 \in Nat /\ \A n \in Nat : n <= n /\ n + 1 \in Nat /\ n <= n + 1
  BY DEF LoadInv, LoadType
<1>2. ASSUME NEW a \in Article, FileArticle(a)
      PROVE  LoadInv'
  BY <1>2, LoadStutter DEF FileArticle, loadVars
<1>3. CASE UNCHANGED storeVars
  BY <1>3, LoadStutter DEF storeVars, loadVars
<1>4. CASE BeginBuild
  BY <1>1, <1>4, NoLoad DEF BeginBuild, StartJob
<1>5. ASSUME NEW f \in unread, ReadFile(f) \/ SkipFile(f)
      PROVE  LoadInv'
  BY <1>5, LoadStutter DEF ReadFile, SkipFile, loadVars
<1>6. ASSUME NEW Q \in SUBSET Permit, Link(Q)
      PROVE  LoadInv'
  BY <1>1, <1>6, NoLoad DEF Link
<1>7. CASE UpsertServer
  BY <1>1, <1>7, NoLoad DEF UpsertServer, Quit
<1>8. CASE OpenExport
  BY <1>1, <1>8, NoLoad DEF OpenExport
<1>9. CASE WriteExport
  BY <1>1, <1>9, NoLoad DEF WriteExport, Quit
<1>10. ASSUME NEW asked \in Requests, BeginLoad(asked)
       PROVE  LoadInv'
  BY <1>10, BeginLoadStep
<1>11. CASE ReadRows
  BY <1>11, ReadRowsStep
<1>12. CASE Refuse
  BY <1>1, <1>12, NoLoad DEF Refuse, Quit
<1>13. CASE CommitRows
  BY <1>13, CommitRowsStep
<1>14. CASE RecordLoad
  BY <1>14, RecordLoadStep
<1>15. CASE KillJob
  <2>1. /\ pc' = "idle" /\ stamp' = 0
        /\ UNCHANGED <<table, audits, jobs>>
        /\ cut' = IF pc = "loaded" THEN cut \union {<<Head(todo), stamp>>} ELSE cut
    BY <1>15 DEF KillJob, Quit
  <2>2. pc = "loaded" => Head(todo) = todo[1]
    BY HeadIsFirst DEF LoadInv, LoadType, Loading
  <2>3. cut \subseteq cut' /\ (pc = "loaded" => <<todo[1], stamp>> \in cut')
    BY <2>1, <2>2
  <2> QED BY <1>1, <2>1, <2>3, NoLoad
<1> QED
  BY <1>2, <1>3, <1>4, <1>5, <1>6, <1>7, <1>8, <1>9, <1>10, <1>11, <1>12, <1>13, <1>14, <1>15
     DEF StoreNext, JobStep, storeVars

LEMMA InvariantAudits == LoadInv => AuditedAsLoaded
<1> SUFFICES ASSUME LoadInv PROVE AuditedAsLoaded
  OBVIOUS
<1>1. pc = "loaded" => Head(todo) = todo[1]
  BY HeadIsFirst DEF LoadInv, LoadType, Loading
<1> QED BY <1>1 DEF LoadInv, Accounted, CountedRight, AuditedAsLoaded

-----------------------------------------------------------------------------
(* history_load_runs accounts for what the tables hold: through any kills, *)
(* refused tables and programs in between, the rows of a load come with    *)
(* its audit row unless it was killed just before it, and the last load of *)
(* a table is there as it was counted (supabase_load_history.run).         *)
THEOREM LoadsAreAudited == StoreSpec => []AuditedAsLoaded
<1>1. StoreInit => LoadInv
  BY InitInvariant
<1>2. LoadInv /\ [StoreNext]_<<vars, storeVars>> => LoadInv'
  BY NextInvariant
<1>3. LoadInv => AuditedAsLoaded
  BY InvariantAudits
<1> QED BY <1>1, <1>2, <1>3, PTL DEF StoreSpec

(* Builds, loads and kills of other programs leave the stream alone: next  *)
(* to them it takes only steps of LiveShadow, so what is proved of that    *)
(* holds here (run_shadow_stream shares no file with them but the news).   *)
THEOREM StreamUndisturbed == StoreSpec => Spec
<1>1. StoreInit => Init
  BY DEF StoreInit
<1>2. [StoreNext]_<<vars, storeVars>> => [Next]_vars
  BY DEF StoreNext, StreamStep, FileArticle, Next
<1> QED BY <1>1, <1>2, PTL DEF StoreSpec, Spec

-----------------------------------------------------------------------------
(* The events of a build                                                 *)

LEMMA ReadingOrders ==
  ASSUME NEW A \in SUBSET Article
  PROVE  Orders({p \in Article \X Article : ReadsBefore(p[1], p[2])}, A)
<1> DEFINE R == {p \in Article \X Article : ReadsBefore(p[1], p[2])}
<1>1. \A a \in Article : at[a] \in Nat /\ line[a] \in Nat /\ file[a] \in Nat
  BY ConstantsAssumption, StoreAssumption
<1>2. \A a, b \in Article : <<a, b>> \in R <=> ReadsBefore(a, b)
  OBVIOUS
<1>3. ASSUME NEW a \in Article, NEW b \in Article, a # b
      PROVE  ReadsBefore(a, b) \/ ReadsBefore(b, a)
  <2>1. file[a] # file[b] \/ line[a] # line[b]
    BY <1>3, StoreAssumption
  <2> QED
    BY <1>1, <2>1 DEF ReadsBefore, SoonerAvailable
<1>4. \A a \in Article : ~ReadsBefore(a, a)
  BY <1>1 DEF ReadsBefore, SoonerAvailable
<1>5. \A a, b, c \in Article : ReadsBefore(a, b) /\ ReadsBefore(b, c) => ReadsBefore(a, c)
  BY <1>1 DEF ReadsBefore, SoonerAvailable
<1> HIDE DEF R
<1> QED
  BY <1>2, <1>3, <1>4, <1>5 DEF Orders

(* _load_news_articles reads all articles there are, in the order of their *)
(* files.                                                                  *)
LEMMA ReadInOrder ==
  ASSUME NEW A \in SUBSET Article
  PROVE  /\ Cardinality(A) \in Nat
         /\ ByFile(A) \in [1..Cardinality(A) -> A]
         /\ \A i, j \in 1..Cardinality(A) : i < j => ReadsBefore(ByFile(A)[i], ByFile(A)[j])
         /\ \A a \in A : \E i \in 1..Cardinality(A) : ByFile(A)[i] = a
<1> DEFINE R == {p \in Article \X Article : ReadsBefore(p[1], p[2])}
           n == Cardinality(A)
<1>1. IsFiniteSet(A) /\ n \in Nat
  BY ConstantsAssumption, FS_Subset, FS_CardinalityType
<1>2. Orders(R, A)
  BY ReadingOrders
<1>3. \A a, b \in A : <<a, b>> \in R <=> ReadsBefore(a, b)
  OBVIOUS
<1> HIDE DEF R
<1>4. PICK s : Follows(s, A, R)
  BY <1>1, <1>2, SortExists
<1>5. s \in [1..n -> A] /\ DOMAIN s = 1..n
  BY <1>4 DEF Follows
<1>6. \A i, j \in DOMAIN s : i < j => ReadsBefore(s[i], s[j])
  BY <1>3, <1>4, <1>5 DEF Follows
<1>7. \E q \in [1..n -> A] : \A i, j \in DOMAIN q : i < j => ReadsBefore(q[i], q[j])
  BY <1>5, <1>6
<1>8. PICK t : t = ByFile(A)
  OBVIOUS
<1>9. t \in [1..n -> A] /\ \A i, j \in DOMAIN t : i < j => ReadsBefore(t[i], t[j])
  BY <1>7, <1>8 DEF ByFile, Sorted
<1>10. DOMAIN t = 1..n
  BY <1>9
<1>11. Follows(t, A, R)
  <2>1. \A i, j \in DOMAIN t : i < j => <<t[i], t[j]>> \in R
    BY <1>3, <1>9, <1>10
  <2> QED
    BY <1>9, <2>1 DEF Follows
<1>12. \A a \in A : \E i \in DOMAIN t : t[i] = a
  BY <1>1, <1>2, <1>11, SortedHasAll
<1> QED
  BY <1>1, <1>8, <1>9, <1>10, <1>12

-----------------------------------------------------------------------------
(* The articles of s, places in the sequence t, that tell the story of i;  *)
(* those that tell a story first; and what the loop of _deduplicate keeps. *)
Alike(t, s, i) == {x \in s : story[t[x]] = story[t[i]]}

Heads(t, s) == {i \in s : \A x \in Alike(t, s, i) : i <= x}

Entry(t, s, i) == [event |-> t[i], sources |-> {t[x] : x \in Alike(t, s, i)}]

Kept(t, s) == {Entry(t, s, i) : i \in Heads(t, s)}

LEMMA LargestIn ==
  ASSUME NEW s \in SUBSET Nat, IsFiniteSet(s), s # {}
  PROVE  Max(s) \in s /\ \A x \in s : x <= Max(s)
<1> DEFINE R == {p \in Nat \X Nat : p[1] < p[2]}
<1>1. \A x, y \in Nat : <<x, y>> \in R <=> x < y
  OBVIOUS
<1> HIDE DEF R
<1>2. Orders(R, s)
  BY <1>1 DEF Orders
<1>3. PICK m \in s : \A x \in s : x # m => <<x, m>> \in R
  BY <1>2, LastExists
<1>4. ASSUME NEW x \in s PROVE m >= x
  <2>1. x \in Nat /\ m \in Nat /\ (x # m => x < m)
    BY <1>1, <1>3
  <2> QED
    BY <2>1
<1>5. \E y \in s : \A x \in s : y >= x
  BY <1>4
<1>6. Max(s) \in s /\ \A x \in s : Max(s) >= x
  BY <1>5 DEF Max
<1> QED
  BY <1>6

LEMMA SmallestIn ==
  ASSUME NEW s \in SUBSET Nat, IsFiniteSet(s), s # {}
  PROVE  \E m \in s : \A x \in s : m <= x
<1> DEFINE R == {p \in Nat \X Nat : p[2] < p[1]}
<1>1. \A x, y \in Nat : <<x, y>> \in R <=> y < x
  OBVIOUS
<1> HIDE DEF R
<1>2. Orders(R, s)
  BY <1>1 DEF Orders
<1>3. PICK m \in s : \A x \in s : x # m => <<x, m>> \in R
  BY <1>2, LastExists
<1>4. ASSUME NEW x \in s PROVE m <= x
  <2>1. x \in Nat /\ m \in Nat /\ (x # m => m < x)
    BY <1>1, <1>3
  <2> QED
    BY <2>1
<1> QED
  BY <1>4

(* Every article's story has a first.                                      *)
LEMMA HeadOf ==
  ASSUME NEW t, NEW s \in SUBSET Nat, IsFiniteSet(s), NEW i \in s
  PROVE  \E h \in Heads(t, s) : story[t[h]] = story[t[i]]
<1>1. /\ Alike(t, s, i) \in SUBSET Nat /\ Alike(t, s, i) # {}
      /\ Alike(t, s, i) \in SUBSET s
  BY DEF Alike
<1>2. IsFiniteSet(Alike(t, s, i))
  BY <1>1, FS_Subset
<1>3. PICK h \in Alike(t, s, i) : \A x \in Alike(t, s, i) : h <= x
  BY <1>1, <1>2, SmallestIn
<1>4. h \in s /\ story[t[h]] = story[t[i]] /\ Alike(t, s, h) = Alike(t, s, i)
  BY DEF Alike
<1> QED
  BY <1>3, <1>4 DEF Heads

(* Its next article, and what it keeps then.                               *)
LEMMA KeepsOneMore ==
  ASSUME NEW t, NEW s \in SUBSET Nat, IsFiniteSet(s), NEW m \in s, \A x \in s : x <= m
  PROVE  Kept(t, s) = Merge(Kept(t, s \ {m}), t[m])
<1> DEFINE r == s \ {m}
           a == t[m]
           Same1(i) == story[t[i]] = story[a]
<1>1. r \in SUBSET Nat /\ IsFiniteSet(r) /\ m \in Nat
  BY FS_Subset
<1>2. ASSUME NEW i \in r
      PROVE  /\ Same1(i) => Alike(t, s, i) = Alike(t, r, i) \union {m}
             /\ ~Same1(i) => Alike(t, s, i) = Alike(t, r, i)
             /\ i \in Heads(t, s) <=> i \in Heads(t, r)
             /\ i <= m
  BY DEF Alike, Heads
<1>3. ASSUME NEW i \in r
      PROVE  Entry(t, s, i) =
               IF story[Entry(t, r, i).event] = story[a]
               THEN [Entry(t, r, i) EXCEPT !.sources = @ \union {a}]
               ELSE Entry(t, r, i)
  <2>1. CASE Same1(i)
    <3>1. {t[x] : x \in Alike(t, s, i)} = {t[x] : x \in Alike(t, r, i)} \union {a}
      BY <1>2, <2>1
    <3> QED
      BY <2>1, <3>1 DEF Entry
  <2>2. CASE ~Same1(i)
    BY <1>2, <2>2 DEF Entry
  <2> QED
    BY <2>1, <2>2
<1>4. \A k \in Kept(t, r) : \E i \in Heads(t, r) : k = Entry(t, r, i)
  BY DEF Kept
<1>5. \A i \in Heads(t, r) : i \in r /\ Entry(t, r, i) \in Kept(t, r) /\ Entry(t, r, i).event = t[i]
  BY DEF Kept, Heads, Entry
<1>6. Heads(t, s) \subseteq s
  BY DEF Heads
<1>7. CASE \E i \in Heads(t, r) : Same1(i)
  <2>1. PICK h \in Heads(t, r) : Same1(h)
    BY <1>7
  <2>2. m \notin Heads(t, s)
    <3>1. h \in r /\ h <= m
      BY <1>2, <1>5
    <3>2. h \in Nat /\ h < m
      BY <1>1, <3>1
    <3>3. h \in Alike(t, s, m)
      BY <2>1, <3>1 DEF Alike
    <3> QED
      BY <1>1, <3>2, <3>3 DEF Heads
  <2>3. Heads(t, s) = Heads(t, r)
    BY <1>2, <1>5, <1>6, <2>2
  <2>4. Kept(t, s) = {IF story[k.event] = story[a] THEN [k EXCEPT !.sources = @ \union {a}] ELSE k :
                        k \in Kept(t, r)}
    <3>1. Kept(t, s) = {Entry(t, s, i) : i \in Heads(t, r)}
      BY <2>3 DEF Kept
    <3>2. \A i \in Heads(t, r) : Entry(t, s, i) =
            IF story[Entry(t, r, i).event] = story[a]
            THEN [Entry(t, r, i) EXCEPT !.sources = @ \union {a}]
            ELSE Entry(t, r, i)
      BY <1>3, <1>5
    <3> DEFINE Joined(k) == IF story[k.event] = story[a] THEN [k EXCEPT !.sources = @ \union {a}] ELSE k
    <3>3. \A i \in Heads(t, r) : Entry(t, s, i) = Joined(Entry(t, r, i))
      BY <3>2
    <3> HIDE DEF Joined
    <3>4. Kept(t, s) = {Joined(k) : k \in Kept(t, r)}
      BY <1>4, <1>5, <3>1, <3>3
    <3> QED
      BY <3>4 DEF Joined
  <2>5. \E k \in Kept(t, r) : story[k.event] = story[a]
    BY <1>5, <2>1
  <2> QED
    BY <2>4, <2>5 DEF Merge
<1>8. CASE \A i \in Heads(t, r) : ~Same1(i)
  <2>1. \A i \in r : ~Same1(i)
    <3>1. ASSUME NEW i \in r PROVE ~Same1(i)
      <4>1. PICK h \in Heads(t, r) : story[t[h]] = story[t[i]]
        BY <1>1, HeadOf
      <4> QED
        BY <1>8, <4>1
    <3> QED
      BY <3>1
  <2>2. Alike(t, s, m) = {m}
    BY <2>1 DEF Alike
  <2>3. m \in Heads(t, s) /\ Entry(t, s, m) = [event |-> a, sources |-> {a}]
    BY <1>1, <2>2 DEF Heads, Entry
  <2>4. Heads(t, s) = Heads(t, r) \union {m}
    BY <1>2, <1>5, <1>6, <2>3
  <2>5. \A i \in Heads(t, r) : Entry(t, s, i) = Entry(t, r, i)
    BY <1>3, <1>5, <1>8
  <2>6. Kept(t, s) = Kept(t, r) \union {[event |-> a, sources |-> {a}]}
    BY <2>3, <2>4, <2>5 DEF Kept
  <2>7. ~\E k \in Kept(t, r) : story[k.event] = story[a]
    BY <1>4, <1>5, <1>8
  <2> QED
    BY <2>6, <2>7 DEF Merge
<1> QED
  BY <1>7, <1>8

(* g folds the articles of t over sets of their places as Extract does.    *)
Folds(g, t) ==
  g = [s \in SUBSET DOMAIN t |-> IF s = {} THEN {} ELSE Merge(g[s \ {Max(s)}], t[Max(s)])]

LEMMA ExtractFolds ==
  ASSUME NEW t
  PROVE  Extract(t) = (CHOOSE g : Folds(g, t))[DOMAIN t]
BY DEF Extract, FoldLeft, MapThenFoldSet, Folds

(* _deduplicate over all the articles of a sequence.                       *)
LEMMA ExtractKeeps ==
  ASSUME NEW n \in Nat, NEW A, NEW t \in [1..n -> A]
  PROVE  Extract(t) = Kept(t, 1..n)
<1> DEFINE D == 1..n
           K == [s \in SUBSET D |-> Kept(t, s)]
<1>1. DOMAIN t = D /\ IsFiniteSet(D) /\ \A s \in SUBSET D : s \in SUBSET Nat
  BY FS_Interval
<1>2. ASSUME NEW s \in SUBSET D, s # {}
      PROVE  Max(s) \in s /\ Kept(t, s) = Merge(Kept(t, s \ {Max(s)}), t[Max(s)])
  <2>1. s \in SUBSET Nat /\ IsFiniteSet(s)
    BY <1>1, FS_Subset
  <2>2. PICK m : m = Max(s)
    OBVIOUS
  <2>3. m \in s /\ \A x \in s : x <= m
    BY <1>2, <2>1, <2>2, LargestIn
  <2>4. Kept(t, s) = Merge(Kept(t, s \ {m}), t[m])
    BY <2>1, <2>3, KeepsOneMore
  <2> QED
    BY <2>2, <2>3, <2>4
<1>3. Kept(t, {}) = {}
  BY DEF Kept, Heads
<1>4. Folds(K, t)
  <2>1. ASSUME NEW s \in SUBSET D
        PROVE  K[s] = IF s = {} THEN {} ELSE Merge(K[s \ {Max(s)}], t[Max(s)])
    <3>1. CASE s = {}
      BY <1>3, <3>1
    <3>2. CASE s # {}
      <4>1. s \ {Max(s)} \in SUBSET D
        OBVIOUS
      <4> QED
        BY <1>2, <3>2, <4>1
    <3> QED
      BY <3>1, <3>2
  <2>2. K = [s \in SUBSET D |-> K[s]]
    OBVIOUS
  <2> HIDE DEF K
  <2> QED
    BY <1>1, <2>1, <2>2 DEF Folds
<1>5. PICK g : g = CHOOSE h : Folds(h, t)
  OBVIOUS
<1>6. Folds(g, t)
  BY <1>4, <1>5
<1>7. ASSUME NEW s \in SUBSET D
      PROVE  g[s] = IF s = {} THEN {} ELSE Merge(g[s \ {Max(s)}], t[Max(s)])
  BY <1>1, <1>6 DEF Folds
<1> DEFINE G == {s \in SUBSET D : g[s] = Kept(t, s)}
<1>8. ASSUME NEW s \in SUBSET D, \A x \in s : s \ {x} \in G PROVE s \in G
  <2>1. CASE s = {}
    BY <1>3, <1>7, <2>1
  <2>2. CASE s # {}
    <3>1. PICK m : m = Max(s)
      OBVIOUS
    <3>2. m \in s /\ Kept(t, s) = Merge(Kept(t, s \ {m}), t[m])
      BY <1>2, <2>2, <3>1
    <3>3. g[s \ {m}] = Kept(t, s \ {m})
      BY <1>8, <3>2
    <3>4. g[s] = Merge(g[s \ {m}], t[m])
      BY <1>7, <2>2, <3>1
    <3> QED
      BY <3>2, <3>3, <3>4
  <2> QED
    BY <2>1, <2>2
<1>9. D \in G
  <2>1. IsFiniteSet(D)
    BY <1>1
  <2>2. SUBSET D \subseteq G
    <3> HIDE DEF G, D
    <3> QED
      BY <1>8, <2>1, FiniteInduction
  <2> QED
    BY <2>2
<1> QED
  BY <1>1, <1>5, <1>9, ExtractFolds

-----------------------------------------------------------------------------
(* The articles of A that tell their story first, as they are read.        *)
Firsts(A) == {a \in A : \A b \in A : story[b] = story[a] /\ b # a => ReadsBefore(a, b)}

(* What is extracted from the articles of A: an event for each story, told *)
(* by the article that is read first, with all that tell it as its sources.*)
LEMMA NewsGraphIs ==
  ASSUME NEW A \in SUBSET Article
  PROVE  /\ NewsGraph(A).events = Firsts(A)
         /\ NewsGraph(A).reports = {r \in A \X Firsts(A) : story[r[1]] = story[r[2]]}
         /\ \A a \in A : \E e \in Firsts(A) : story[e] = story[a]
         /\ \A d, e \in Firsts(A) : story[d] = story[e] => d = e
<1> DEFINE n == Cardinality(A)
           D == 1..n
<1>1. PICK t : t = ByFile(A)
  OBVIOUS
<1>2. /\ n \in Nat /\ t \in [D -> A]
      /\ \A i, j \in D : i < j => ReadsBefore(t[i], t[j])
      /\ \A a \in A : \E i \in D : t[i] = a
  BY <1>1, ReadInOrder
<1>3. Orders({p \in Article \X Article : ReadsBefore(p[1], p[2])}, A)
  BY ReadingOrders
<1>4. \A a, b \in A : ~(ReadsBefore(a, b) /\ ReadsBefore(b, a))
  <2> DEFINE R == {p \in Article \X Article : ReadsBefore(p[1], p[2])}
  <2>1. \A a, b \in A : ReadsBefore(a, b) <=> <<a, b>> \in R
    OBVIOUS
  <2> HIDE DEF R
  <2> QED
    BY <1>3, <2>1 DEF Orders
<1>5. Extract(t) = Kept(t, D)
  BY <1>2, ExtractKeeps
<1>6. IsFiniteSet(D) /\ D \in SUBSET Nat
  BY <1>2, FS_Interval
<1>7. ASSUME NEW i \in D PROVE i \in Heads(t, D) <=> t[i] \in Firsts(A)
  <2>1. ASSUME i \in Heads(t, D), NEW b \in A, story[b] = story[t[i]], b # t[i]
        PROVE  ReadsBefore(t[i], b)
    <3>1. PICK j \in D : t[j] = b
      BY <1>2
    <3>2. i <= j /\ i # j
      BY <2>1, <3>1 DEF Heads, Alike
    <3>3. i < j
      BY <1>6, <3>2
    <3> QED
      BY <1>2, <3>1, <3>3
  <2>2. ASSUME t[i] \in Firsts(A), NEW j \in D, story[t[j]] = story[t[i]]
        PROVE  i <= j
    <3>1. SUFFICES ASSUME j < i PROVE FALSE
      BY <1>6
    <3>2. ReadsBefore(t[j], t[i])
      BY <1>2, <3>1
    <3>3. t[i] \in A /\ t[j] \in A
      BY <1>2
    <3>4. t[j] # t[i] => ReadsBefore(t[i], t[j])
      BY <2>2, <3>3 DEF Firsts
    <3> QED
      BY <1>4, <3>2, <3>3, <3>4
  <2> QED
    BY <1>2, <2>1, <2>2 DEF Heads, Alike, Firsts
<1>8. \A k \in Extract(t) : \E i \in Heads(t, D) : k = Entry(t, D, i)
  BY <1>5 DEF Kept
<1>9. \A i \in Heads(t, D) : i \in D /\ Entry(t, D, i) \in Extract(t) /\ t[i] \in Firsts(A)
  BY <1>5, <1>7 DEF Kept, Heads
<1>10. \A e \in Firsts(A) : \E i \in Heads(t, D) : t[i] = e
  BY <1>2, <1>7 DEF Firsts
<1>11. ASSUME NEW i \in D
       PROVE  /\ Entry(t, D, i).event = t[i]
              /\ Entry(t, D, i).sources = {b \in A : story[b] = story[t[i]]}
  <2>1. Entry(t, D, i).event = t[i] /\ Entry(t, D, i).sources = {t[x] : x \in Alike(t, D, i)}
    BY DEF Entry
  <2> QED
    BY <1>2, <2>1 DEF Alike
<1>12. {k.event : k \in Extract(t)} = Firsts(A)
  BY <1>8, <1>9, <1>10, <1>11
<1>13. UNION {k.sources \X {k.event} : k \in Extract(t)}
         = {r \in A \X Firsts(A) : story[r[1]] = story[r[2]]}
  <2>1. ASSUME NEW k \in Extract(t), NEW r \in k.sources \X {k.event}
        PROVE  r \in A \X Firsts(A) /\ story[r[1]] = story[r[2]]
    BY <1>8, <1>9, <1>11
  <2>2. ASSUME NEW r \in A \X Firsts(A), story[r[1]] = story[r[2]]
        PROVE  \E k \in Extract(t) : r \in k.sources \X {k.event}
    <3>1. PICK i \in Heads(t, D) : t[i] = r[2]
      BY <1>10
    <3>2. r[1] \in Entry(t, D, i).sources /\ r[2] = Entry(t, D, i).event
      BY <1>9, <1>11, <2>2, <3>1
    <3> QED
      BY <1>9, <3>2
  <2> QED
    BY <2>1, <2>2
<1>14. ASSUME NEW a \in A PROVE \E e \in Firsts(A) : story[e] = story[a]
  <2>1. PICK i \in D : t[i] = a
    BY <1>2
  <2>2. PICK h \in Heads(t, D) : story[t[h]] = story[t[i]]
    BY <1>6, HeadOf
  <2> QED
    BY <1>9, <2>1, <2>2
<1>15. \A d, e \in Firsts(A) : story[d] = story[e] => d = e
  BY <1>4 DEF Firsts
<1>16. NewsGraph(A).events = {k.event : k \in Extract(t)}
       /\ NewsGraph(A).reports = UNION {k.sources \X {k.event} : k \in Extract(t)}
  BY <1>1 DEF NewsGraph
<1> QED
  BY <1>12, <1>13, <1>14, <1>15, <1>16

(* Articles filed in the order in which they are read tell no story before *)
(* one that is there.                                                      *)
LEMMA FirstsGrow ==
  ASSUME NEW A, NEW a, \A b \in A : ReadsBefore(b, a)
  PROVE  Firsts(A) \subseteq Firsts(A \union {a})
BY DEF Firsts

(* The events of the shadow stream, unless the files tell a story in       *)
(* another order.                                                          *)
LEMMA FirstsAreEvents ==
  ASSUME NEW A \in SUBSET Article,
         \A a, b \in A : story[a] = story[b] /\ ReadsBefore(a, b) => SoonerAvailable(a, b)
  PROVE  Firsts(A) = Events(A)
<1>1. \A a \in A : a \in Article /\ at[a] \in Nat /\ line[a] \in Nat
  BY ConstantsAssumption
<1>2. \A a, b \in A : a # b => ReadsBefore(a, b) \/ ReadsBefore(b, a)
  <2> DEFINE R == {p \in Article \X Article : ReadsBefore(p[1], p[2])}
  <2>1. \A a, b \in A : ReadsBefore(a, b) <=> <<a, b>> \in R
    OBVIOUS
  <2>2. Orders(R, A)
    BY ReadingOrders
  <2> HIDE DEF R
  <2> QED
    BY <2>1, <2>2 DEF Orders
<1>3. ASSUME NEW a \in Firsts(A) PROVE a \in Events(A)
  <2>1. a \in A /\ \A b \in A : story[b] = story[a] /\ b # a => SoonerAvailable(a, b)
    BY DEF Firsts
  <2> QED
    BY <1>1, <2>1 DEF Events, SoonerAvailable
<1>4. ASSUME NEW a \in Events(A) PROVE a \in Firsts(A)
  <2>1. a \in A /\ \A b \in A : story[b] = story[a] => ~SoonerAvailable(b, a)
    BY <1>1 DEF Events, SoonerAvailable
  <2> QED
    BY <1>2, <2>1 DEF Firsts
<1> QED
  BY <1>3, <1>4

(* What a build has made of what it read.                                  *)
Built ==
  pc \in {"linked", "exporting"} =>
    \E P \in SUBSET Permit : graph = MergeGraph(NewsGraph(read), PermitGraph(P))

(* It has read all there is in the files it is through with.               *)
AllRead == ordered /\ pc = "reading" => \A a \in collected : file[a] \notin unread => a \in read

(* Articles among E tell their story first of all there are.               *)
ToldFirst(E) == E \intersect Article \subseteq Firsts(collected)

OneStory ==
  ordered =>
    /\ ToldFirst(graph.events) /\ ToldFirst(server.events)
    /\ Readable => ToldFirst(snapshot.events)
    /\ pc = "rows" /\ Head(todo) = "events" => ToldFirst(DOMAIN rows)
    /\ ToldFirst(DOMAIN table["events"])

GraphInv ==
  /\ collected \in SUBSET Article /\ read \in SUBSET collected
  /\ Built /\ AllRead /\ OneStory

graphVars == <<collected, ordered, pc, unread, read, graph, snapshot, server, todo, rows, table>>

-----------------------------------------------------------------------------
(* The graph of a build is as GraphSound says.                             *)
LEMMA BuiltIsSound == GraphInv => GraphSound
<1> SUFFICES ASSUME GraphInv, pc \in {"linked", "exporting"}
             PROVE  /\ Clean(graph) /\ Same(graph.events)
                    /\ \A a \in read : \E e \in graph.events \intersect Article :
                         /\ story[e] = story[a]
                         /\ {r \in graph.reports : r[1] = a} = {<<a, e>>}
                    /\ (\A a, b \in read : story[a] = story[b] /\ ReadsBefore(a, b) => SoonerAvailable(a, b))
                         => graph.events \intersect Article = Events(read)
  BY DEF GraphSound
<1>1. read \in SUBSET Article
  BY DEF GraphInv
<1>2. PICK P \in SUBSET Permit : graph = MergeGraph(NewsGraph(read), PermitGraph(P))
  BY DEF GraphInv, Built
<1>3. /\ NewsGraph(read).events = Firsts(read)
      /\ NewsGraph(read).reports = {r \in read \X Firsts(read) : story[r[1]] = story[r[2]]}
      /\ \A a \in read : \E e \in Firsts(read) : story[e] = story[a]
      /\ \A d, e \in Firsts(read) : story[d] = story[e] => d = e
  BY <1>1, NewsGraphIs
<1>4. /\ graph.events = Firsts(read) \union P
      /\ graph.reports = {r \in read \X Firsts(read) : story[r[1]] = story[r[2]]} \union {<<p, p>> : p \in P}
  BY <1>2, <1>3 DEF MergeGraph, PermitGraph
<1>5. P \intersect Article = {} /\ Firsts(read) \subseteq read
  BY StoreAssumption DEF Firsts
<1>6. graph.events \intersect Article = Firsts(read)
  BY <1>1, <1>4, <1>5
<1>7. Clean(graph)
  <2>1. ASSUME NEW e \in Firsts(read) PROVE <<e, e>> \in graph.reports
    BY <1>4, <1>5
  <2>2. ASSUME NEW e \in P PROVE <<e, e>> \in graph.reports
    BY <1>4
  <2> QED
    BY <1>4, <2>1, <2>2 DEF Clean
<1>8. Same(graph.events)
  BY <1>3, <1>6 DEF Same
<1>9. ASSUME NEW a \in read
      PROVE  \E e \in graph.events \intersect Article :
               /\ story[e] = story[a]
               /\ {r \in graph.reports : r[1] = a} = {<<a, e>>}
  <2>1. PICK e \in Firsts(read) : story[e] = story[a]
    BY <1>3
  <2>2. <<a, e>> \in graph.reports
    BY <1>4, <2>1
  <2>3. ASSUME NEW r \in graph.reports, r[1] = a PROVE r = <<a, e>>
    <3>1. a \notin P
      BY <1>1, <1>5
    <3>2. r \in read \X Firsts(read) /\ story[r[1]] = story[r[2]]
      BY <1>4, <2>3, <3>1
    <3> QED
      BY <1>3, <2>1, <2>3, <3>2
  <2>4. {r \in graph.reports : r[1] = a} = {<<a, e>>}
    BY <2>2, <2>3
  <2> QED
    BY <1>6, <2>1, <2>4
<1> QED
  BY <1>1, <1>6, <1>7, <1>8, <1>9, FirstsAreEvents

LEMMA ToldIsOneStory == GraphInv => OneEventPerStory
<1> SUFFICES ASSUME GraphInv, ordered
             PROVE  /\ Readable => Same(snapshot.events)
                    /\ Same(server.events)
                    /\ Same(DOMAIN table["events"])
  BY DEF OneEventPerStory
<1>1. \A d, e \in Firsts(collected) : story[d] = story[e] => d = e
  BY NewsGraphIs DEF GraphInv
<1>2. \A E : ToldFirst(E) => Same(E)
  BY <1>1 DEF ToldFirst, Same
<1> QED
  BY <1>2 DEF GraphInv, OneStory

-----------------------------------------------------------------------------
LEMMA InitGraph == StoreInit => GraphInv
BY DEF StoreInit, Init, GraphInv, Built, AllRead, OneStory, ToldFirst, Readable, EmptyGraph, NoRows, Tables

LEMMA GraphStutter == GraphInv /\ UNCHANGED graphVars => GraphInv'
BY DEF graphVars, GraphInv, Built, AllRead, OneStory, ToldFirst, Readable

(* An article is filed: what tells a story first goes on doing so.         *)
LEMMA FileArticleGraph ==
  ASSUME GraphInv, NEW a \in Article, FileArticle(a)
  PROVE  GraphInv'
<1>1. /\ collected' = collected \union {a}
      /\ ordered' = (ordered /\ pc # "reading" /\ \A b \in collected : ReadsBefore(b, a))
      /\ UNCHANGED <<pc, unread, read, graph, snapshot, server, todo, rows, table>>
  BY DEF FileArticle, CollectArticle, job, graphs, history
<1>2. Built' /\ AllRead'
  BY <1>1 DEF GraphInv, Built, AllRead
<1>3. OneStory'
  <2> SUFFICES ASSUME ordered' PROVE OneStory'
    BY DEF OneStory
  <2>1. ordered /\ Firsts(collected) \subseteq Firsts(collected')
    BY <1>1, FirstsGrow
  <2>2. \A E : ToldFirst(E) => ToldFirst(E)'
    BY <2>1 DEF ToldFirst
  <2>3. OneStory /\ Readable' = Readable
    BY <1>1 DEF GraphInv, Readable
  <2> QED
    BY <1>1, <2>1, <2>2, <2>3 DEF OneStory
<1> QED
  BY <1>1, <1>2, <1>3 DEF GraphInv

(* A step that leaves a build without a graph to write, and no rows read.  *)
LEMMA NoBuild ==
  ASSUME GraphInv, pc' \notin {"linked", "exporting", "reading", "rows"},
         read' = {}, graph' = graph \/ graph' = EmptyGraph,
         UNCHANGED <<collected, ordered, table>>,
         server' = server \/ server' = MergeGraph(server, graph),
         snapshot' = snapshot \/ snapshot' = graph
  PROVE  GraphInv'
<1>1. Built' /\ AllRead'
  BY DEF Built, AllRead
<1>2. OneStory'
  <2> SUFFICES ASSUME ordered' PROVE OneStory'
    BY DEF OneStory
  <2>1. OneStory /\ ordered
    BY DEF GraphInv
  <2>2. \A E : ToldFirst(E)' = ToldFirst(E)
    BY DEF ToldFirst
  <2>3. ToldFirst({}) /\ \A D, E : ToldFirst(D) /\ ToldFirst(E) => ToldFirst(D \union E)
    BY DEF ToldFirst
  <2>4. ToldFirst(graph'.events)
    <3>1. EmptyGraph.events = {}
      BY DEF EmptyGraph
    <3> QED
      BY <2>1, <2>3, <3>1 DEF OneStory
  <2>5. ToldFirst(server'.events)
    <3>1. MergeGraph(server, graph).events = server.events \union graph.events
      BY DEF MergeGraph
    <3> QED
      BY <2>1, <2>3, <3>1 DEF OneStory
  <2>6. Readable' => ToldFirst(snapshot'.events)
    BY <2>1 DEF OneStory, Readable
  <2> QED
    BY <2>1, <2>2, <2>4, <2>5, <2>6 DEF OneStory
<1> QED
  BY <1>1, <1>2 DEF GraphInv

(* All is read: what a build links are the first of all there are.         *)
LEMMA LinkGraph ==
  ASSUME GraphInv, NEW P \in SUBSET Permit, Link(P), UNCHANGED collected
  PROVE  GraphInv'
<1>1. /\ pc = "reading" /\ unread = {} /\ pc' = "linked"
      /\ graph' = MergeGraph(NewsGraph(read), PermitGraph(P))
      /\ UNCHANGED <<collected, ordered, unread, read, snapshot, server, todo, rows, table>>
  BY DEF Link, graphs, history, ghosts
<1>2. Built' /\ AllRead'
  BY <1>1 DEF Built, AllRead
<1>3. OneStory'
  <2> SUFFICES ASSUME ordered' PROVE OneStory'
    BY DEF OneStory
  <2>1. OneStory /\ ordered
    BY <1>1 DEF GraphInv
  <2>2. \A E : ToldFirst(E)' = ToldFirst(E)
    BY <1>1 DEF ToldFirst
  <2>3. read = collected /\ collected \in SUBSET Article
    BY <1>1, <2>1 DEF GraphInv, AllRead
  <2>4. NewsGraph(read).events = Firsts(collected)
    BY <2>3, NewsGraphIs
  <2>5. graph'.events = Firsts(collected) \union P
    BY <1>1, <2>4 DEF MergeGraph, PermitGraph
  <2>6. ToldFirst(graph'.events)
    BY <2>5, StoreAssumption DEF ToldFirst
  <2>7. Readable' = Readable
    BY <1>1 DEF Readable
  <2> QED
    BY <1>1, <2>1, <2>2, <2>6, <2>7 DEF OneStory
<1> QED
  BY <1>1, <1>2, <1>3 DEF GraphInv

(* The next file is read; nothing comes into it while `ordered` holds.     *)
LEMMA ReadFileGraph ==
  ASSUME GraphInv, NEW f, ReadFile(f), UNCHANGED collected
  PROVE  GraphInv'
<1>1. /\ pc = "reading" /\ pc' = pc /\ unread' = unread \ {f}
      /\ read' = read \union {a \in collected : file[a] = f}
      /\ UNCHANGED <<collected, ordered, graph, snapshot, server, todo, rows, table>>
  BY DEF ReadFile, graphs, history, ghosts
<1>2. Built' /\ AllRead' /\ read' \in SUBSET collected'
  BY <1>1 DEF GraphInv, Built, AllRead
<1>3. OneStory'
  BY <1>1 DEF GraphInv, OneStory, ToldFirst, Readable
<1> QED
  BY <1>1, <1>2, <1>3 DEF GraphInv

(* A file is skipped, and `ordered` does not hold any more.                *)
LEMMA SkipFileGraph ==
  ASSUME GraphInv, NEW f, SkipFile(f), UNCHANGED collected
  PROVE  GraphInv'
<1>1. pc = "reading" /\ pc' = pc /\ ordered' = FALSE /\ UNCHANGED <<read, graph>>
  BY DEF SkipFile
<1> QED
  BY <1>1 DEF GraphInv, Built, AllRead, OneStory

(* A build begins: every article is in a file that is unread.              *)
LEMMA BeginBuildGraph ==
  ASSUME GraphInv, BeginBuild, UNCHANGED collected
  PROVE  GraphInv'
<1>1. /\ pc' = "reading" /\ unread' = {file[a] : a \in Article} /\ read' = {}
      /\ UNCHANGED <<collected, ordered, graph, snapshot, server, todo, rows, table>>
  BY DEF BeginBuild, graphs, history, ghosts
<1>2. Built' /\ AllRead'
  BY <1>1 DEF GraphInv, Built, AllRead
<1>3. OneStory'
  BY <1>1 DEF GraphInv, OneStory, ToldFirst, Readable
<1> QED
  BY <1>1, <1>2, <1>3 DEF GraphInv

(* The file is opened: it is read by no one until it is written.           *)
LEMMA OpenExportGraph ==
  ASSUME GraphInv, OpenExport, UNCHANGED collected
  PROVE  GraphInv'
<1>1. /\ pc = "linked" /\ pc' = "exporting" /\ snapshot' = Torn
      /\ UNCHANGED <<collected, ordered, unread, read, graph, server, todo, rows, table>>
  BY DEF OpenExport, history, ghosts
<1>2. Built' /\ AllRead'
  BY <1>1 DEF GraphInv, Built, AllRead
<1>3. OneStory'
  BY <1>1 DEF GraphInv, OneStory, ToldFirst, Readable
<1> QED
  BY <1>1, <1>2, <1>3 DEF GraphInv

(* The events of the file become the rows of the table.                    *)
LEMMA ReadRowsGraph ==
  ASSUME GraphInv, ReadRows, UNCHANGED collected
  PROVE  GraphInv'
<1>1. /\ pc = "choosing" /\ pc' = "rows" /\ rows' = RowsOf(Head(todo))
      /\ Head(todo) = "events" => Readable
      /\ UNCHANGED <<collected, ordered, unread, read, graph, snapshot, server, todo, table>>
  BY DEF ReadRows, graphs, history, ghosts
<1>2. Built' /\ AllRead'
  BY <1>1 DEF Built, AllRead
<1>3. Head(todo) = "events" => DOMAIN rows' = snapshot.events
  BY <1>1 DEF RowsOf
<1>4. OneStory'
  BY <1>1, <1>3 DEF GraphInv, OneStory, ToldFirst, Readable
<1> QED
  BY <1>1, <1>2, <1>4 DEF GraphInv

LEMMA CommitRowsGraph ==
  ASSUME GraphInv, LoadInv, CommitRows, UNCHANGED collected
  PROVE  GraphInv'
<1>1. /\ pc = "rows" /\ pc' = "loaded"
      /\ table' = [table EXCEPT ![Head(todo)] = Upsert(@, rows)]
      /\ UNCHANGED <<collected, ordered, unread, read, graph, snapshot, server, todo, rows>>
  BY DEF CommitRows, graphs, ghosts
<1>2. Built' /\ AllRead'
  BY <1>1 DEF Built, AllRead
<1>3. DOMAIN table = Tables /\ "events" \in Tables
  BY DEF LoadInv, Stamped, Tables
<1>4. \/ table'["events"] = table["events"]
      \/ Head(todo) = "events" /\ table'["events"] = Upsert(table["events"], rows)
  BY <1>1, <1>3
<1>5. DOMAIN Upsert(table["events"], rows) = DOMAIN table["events"] \union DOMAIN rows
  BY UpsertRows
<1>6. OneStory'
  <2> SUFFICES ASSUME ordered' PROVE OneStory'
    BY DEF OneStory
  <2>1. OneStory /\ ordered
    BY <1>1 DEF GraphInv
  <2>2. \A E : ToldFirst(E)' = ToldFirst(E)
    BY <1>1 DEF ToldFirst
  <2>3. \A D, E : ToldFirst(D) /\ ToldFirst(E) => ToldFirst(D \union E)
    BY DEF ToldFirst
  <2>4. ToldFirst(DOMAIN table'["events"])
    BY <1>1, <1>4, <1>5, <2>1, <2>3 DEF OneStory
  <2>5. Readable' = Readable
    BY <1>1 DEF Readable
  <2> QED
    BY <1>1, <2>1, <2>2, <2>4, <2>5 DEF OneStory
<1> QED
  BY <1>1, <1>2, <1>6 DEF GraphInv

(* A step of a load that touches neither rows nor tables, or ends it.      *)
LEMMA LoadLeavesGraph ==
  ASSUME GraphInv, pc \notin {"linked", "exporting", "reading"},
         pc' \in {"idle", "choosing"},
         read' = read \/ read' = {}, graph' = graph \/ graph' = EmptyGraph,
         UNCHANGED <<collected, ordered, snapshot, server, table>>
  PROVE  GraphInv'
<1>1. Built' /\ AllRead' /\ read' \in SUBSET collected'
  BY DEF GraphInv, Built, AllRead
<1>2. EmptyGraph.events = {}
  BY DEF EmptyGraph
<1>3. OneStory'
  BY <1>2 DEF GraphInv, OneStory, ToldFirst, Readable
<1> QED
  BY <1>1, <1>3 DEF GraphInv

LEMMA NextGraph ==
  ASSUME GraphInv, LoadInv, [StoreNext]_<<vars, storeVars>>
  PROVE  GraphInv'
<1>1. CASE UNCHANGED <<vars, storeVars>>
  BY <1>1, GraphStutter DEF vars, storeVars, job, graphs, history, ghosts, graphVars
<1>2. ASSUME NEW a \in Article, FileArticle(a) PROVE GraphInv'
  BY <1>2, FileArticleGraph
<1>3. CASE StreamStep /\ UNCHANGED storeVars
  <2>1. UNCHANGED collected
    BY <1>3 DEF StreamStep, Begin, Skip, Process, Open, Save, Return, Kill
  <2> QED
    BY <1>3, <2>1, GraphStutter DEF storeVars, job, graphs, history, ghosts, graphVars
<1>4. CASE JobStep /\ UNCHANGED vars
  <2>0. UNCHANGED collected
    BY <1>4 DEF vars
  <2>1. CASE BeginBuild
    BY <2>0, <2>1, BeginBuildGraph
  <2>2. ASSUME NEW f \in unread, ReadFile(f) PROVE GraphInv'
    BY <2>0, <2>2, ReadFileGraph
  <2>13. ASSUME NEW f \in unread, SkipFile(f) PROVE GraphInv'
    BY <2>0, <2>13, SkipFileGraph
  <2>3. ASSUME NEW P \in SUBSET Permit, Link(P) PROVE GraphInv'
    BY <2>0, <2>3, LinkGraph
  <2>4. CASE UpsertServer
    BY <2>0, <2>4, NoBuild DEF UpsertServer, Quit, history, ghosts
  <2>5. CASE OpenExport
    BY <2>0, <2>5, OpenExportGraph
  <2>6. CASE WriteExport
    BY <2>0, <2>6, NoBuild DEF WriteExport, Quit, history, ghosts
  <2>7. ASSUME NEW asked \in Requests, BeginLoad(asked) PROVE GraphInv'
    <3>1. /\ pc = "idle" /\ pc' = "choosing"
          /\ UNCHANGED <<read, graph, snapshot, server, table, ordered>>
      BY <2>7 DEF BeginLoad, StartJob, graphs, history, ghosts
    <3> QED
      BY <2>0, <3>1, LoadLeavesGraph
  <2>8. CASE ReadRows
    BY <2>0, <2>8, ReadRowsGraph
  <2>9. CASE Refuse
    BY <2>0, <2>9, LoadLeavesGraph DEF Refuse, Quit, graphs, history, ghosts
  <2>10. CASE CommitRows
    BY <2>0, <2>10, CommitRowsGraph
  <2>11. CASE RecordLoad
    BY <2>0, <2>11, LoadLeavesGraph DEF RecordLoad, Quit, graphs, ghosts
  <2>12. CASE KillJob
    BY <2>0, <2>12, NoBuild DEF KillJob, Quit, graphs, history
  <2> QED
    BY <1>4, <2>1, <2>2, <2>3, <2>4, <2>5, <2>6, <2>7, <2>8, <2>9, <2>10, <2>11, <2>12, <2>13
       DEF JobStep
<1> QED
  BY <1>1, <1>2, <1>3, <1>4 DEF StoreNext

LEMMA GraphInvariance == StoreSpec => [](LoadInv /\ GraphInv)
<1>1. StoreInit => LoadInv /\ GraphInv
  BY InitInvariant, InitGraph
<1>2. (LoadInv /\ GraphInv) /\ [StoreNext]_<<vars, storeVars>> => (LoadInv /\ GraphInv)'
  BY NextInvariant, NextGraph
<1> QED
  BY <1>1, <1>2, PTL DEF StoreSpec

(* The graph of a build has one event for each story, told by the article  *)
(* that is read first, with the articles that tell it as its provenance,   *)
(* and is the events of the shadow stream unless the files tell a story in *)
(* another order than it became available (extractor._deduplicate and      *)
(* build_graph_ops).                                                       *)
THEOREM BuildsAreSound == StoreSpec => []GraphSound
BY GraphInvariance, BuiltIsSound, PTL

(* Through builds, loads and kills over a growing corpus a story is one    *)
(* event of the exported file, of the graph server and of the table, as    *)
(* long as articles come in the order in which they are read               *)
(* (supabase_load_history: re-running upserts instead of duplicating).     *)
THEOREM StoriesAreStoredOnce == StoreSpec => []OneEventPerStory
BY GraphInvariance, ToldIsOneStory, PTL
=============================================================================
