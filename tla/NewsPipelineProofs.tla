-------------------------- MODULE NewsPipelineProofs --------------------------
(***************************************************************************)
(* Theorems about NewsPipeline, for any articles, any number of request    *)
(* threads, runs and kills.                                                *)
(***************************************************************************)
EXTENDS NewsPipeline, FiniteSetTheorems, SequenceTheorems, TLAPS

(* Collection runs follow one another (scripts/fetch_data.sh).             *)
OneCollector == \A c, d \in Collector : c = d

(* The two marks of a file without content are no content.                 *)
ContentsTold == \A s \in Seq(Article) : s \notin {Absent, Torn}

Steps == {"idle", "fetching", "loading", "reading", "writing", "opened"}

Locals == [pc : Steps, stamp : Stamp \union {Absent}, seen : SUBSET Key,
           batch : SUBSET Article, todo : Seq(File),
           index : Seq(Article), meta : Seq(Article)]

(* What is left to write, by the file that is next.                        *)
Saving(p) == proc[p].pc \in {"writing", "opened"}

AtCheckpoint(p) ==
  /\ Saving(p) /\ p \in Collector /\ proc[p].stamp \in Stamp
  /\ proc[p].todo \in {<<"checkpoint">>, <<"checkpoint", proc[p].stamp>>}

AtStamp(p) ==
  Saving(p) /\ p \in Collector /\ proc[p].stamp \in Stamp /\ proc[p].todo = <<proc[p].stamp>>

AtIndex(p) == Saving(p) /\ proc[p].todo = <<"index", "meta">>

AtMeta(p) == Saving(p) /\ proc[p].todo = <<"meta">>

TypeInv ==
  /\ proc \in [Process -> Locals]
  /\ DOMAIN disk = File
  /\ disk = [f \in File |-> disk[f]]
  /\ disk["checkpoint"] \in {Absent, Torn} \union SUBSET Key
  /\ \A f \in {"index", "meta"} : disk[f] \in {Absent, Torn} \union Seq(Article)
  /\ cuts \in SUBSET Nat
  /\ killed \in Nat /\ written \in [Article -> Nat] /\ answered \subseteq Article

Shape ==
  \A p \in Process :
    /\ proc[p].pc = "fetching" =>
         p \in Collector /\ proc[p].stamp \in Stamp /\ proc[p].batch = {}
    /\ Saving(p) => AtCheckpoint(p) \/ AtStamp(p) \/ AtIndex(p) \/ AtMeta(p)

-----------------------------------------------------------------------------
(* Lemmas about sequences of articles                                      *)

(* SetToSeq lists a finite set without repetition.                         *)
LEMMA Listing ==
  ASSUME NEW A \in SUBSET Article
  PROVE  SetToSeq(A) \in Seq(A) /\ IsInjective(SetToSeq(A)) /\ ToSet(SetToSeq(A)) = A
<1>1. IsFiniteSet(A)
  BY ConstantsAssumption, FS_Subset
<1>2. Cardinality(A) \in Nat /\ ExistsBijection(1..Cardinality(A), A)
  BY <1>1, FS_CardinalityType
<1>3. \E f \in [1..Cardinality(A) -> A] : IsInjective(f)
  BY <1>2 DEF ExistsBijection, Bijection, Injection
<1>4. SetToSeq(A) \in [1..Cardinality(A) -> A] /\ IsInjective(SetToSeq(A))
  BY <1>3 DEF SetToSeq
<1>5. SetToSeq(A) \in Injection(1..Cardinality(A), A)
  BY <1>4 DEF Injection
<1>6. IsFiniteSet(1..Cardinality(A)) /\ Cardinality(1..Cardinality(A)) = Cardinality(A)
  BY <1>2, FS_Interval
<1>7. SetToSeq(A) \in Surjection(1..Cardinality(A), A)
  BY <1>1, <1>5, <1>6, FS_Injection
<1>8. ToSet(SetToSeq(A)) = A
  BY <1>4, <1>7 DEF Surjection, ToSet
<1>9. SetToSeq(A) \in Seq(A)
  BY <1>2, <1>4
<1> QED BY <1>4, <1>8, <1>9

LEMMA Appending ==
  ASSUME NEW s \in Seq(Article), NEW t \in Seq(Article)
  PROVE  /\ s \o t \in Seq(Article) /\ ToSet(s \o t) = ToSet(s) \union ToSet(t)
         /\ IsInjective(s) /\ IsInjective(t) /\ ToSet(s) \intersect ToSet(t) = {}
              => IsInjective(s \o t)
<1> DEFINE m == Len(s)
           n == Len(t)
           st == s \o t
<1>1. /\ st \in Seq(Article) /\ Len(st) = m + n /\ m \in Nat /\ n \in Nat
      /\ \A i \in 1..(m + n) : st[i] = IF i <= m THEN s[i] ELSE t[i - m]
      /\ DOMAIN s = 1..m /\ DOMAIN t = 1..n /\ DOMAIN st = 1..(m + n)
  BY ConcatProperties
<1> HIDE DEF m, n, st
<1>2. \A i \in DOMAIN s : i \in DOMAIN st /\ st[i] = s[i]
  BY <1>1
<1>3. \A i \in DOMAIN t : m + i \in DOMAIN st /\ st[m + i] = t[i]
  BY <1>1
<1>4. ASSUME NEW i \in DOMAIN st
      PROVE  \/ i \in DOMAIN s /\ st[i] = s[i]
             \/ i - m \in DOMAIN t /\ st[i] = t[i - m]
  BY <1>1
<1>5. ToSet(st) = ToSet(s) \union ToSet(t)
  BY <1>2, <1>3, <1>4 DEF ToSet
<1>6. ASSUME IsInjective(s), IsInjective(t), ToSet(s) \intersect ToSet(t) = {},
             NEW i \in DOMAIN st, NEW j \in DOMAIN st, st[i] = st[j]
      PROVE  i = j
  <2>1. CASE i \in DOMAIN s /\ st[i] = s[i] /\ j \in DOMAIN s /\ st[j] = s[j]
    BY <1>6, <2>1 DEF IsInjective
  <2>2. CASE i - m \in DOMAIN t /\ st[i] = t[i - m] /\ j - m \in DOMAIN t /\ st[j] = t[j - m]
    <3>1. i - m = j - m
      BY <1>6, <2>2 DEF IsInjective
    <3> QED BY <1>1, <3>1
  <2>3. CASE i \in DOMAIN s /\ st[i] = s[i] /\ j - m \in DOMAIN t /\ st[j] = t[j - m]
    BY <1>6, <2>3 DEF ToSet
  <2>4. CASE i - m \in DOMAIN t /\ st[i] = t[i - m] /\ j \in DOMAIN s /\ st[j] = s[j]
    BY <1>6, <2>4 DEF ToSet
  <2> QED BY <1>4, <2>1, <2>2, <2>3, <2>4
<1>7. IsInjective(s) /\ IsInjective(t) /\ ToSet(s) \intersect ToSet(t) = {} => IsInjective(st)
  BY <1>6 DEF IsInjective
<1> QED BY <1>1, <1>5, <1>7 DEF st

(* What add appends: the articles that the records lack, each once.        *)
LEMMA FreshArticles ==
  ASSUME NEW A \in SUBSET Article, NEW records \in Seq(Article)
  PROVE  /\ Fresh(A, records) \in Seq(Article)
         /\ ToSet(Fresh(A, records)) = A \ ToSet(records)
         /\ IsInjective(Fresh(A, records))
<1>1. A \ ToSet(records) \in SUBSET Article
  OBVIOUS
<1>2. /\ Fresh(A, records) \in Seq(A \ ToSet(records))
      /\ ToSet(Fresh(A, records)) = A \ ToSet(records)
      /\ IsInjective(Fresh(A, records))
  BY <1>1, Listing DEF Fresh
<1> QED BY <1>1, <1>2

LEMMA Records ==
  ASSUME NEW A \in SUBSET Article, NEW records \in Seq(Article)
  PROVE  /\ records \o Fresh(A, records) \in Seq(Article)
         /\ ToSet(records \o Fresh(A, records)) = ToSet(records) \union A
         /\ IsInjective(records) => IsInjective(records \o Fresh(A, records))
<1> DEFINE new == Fresh(A, records)
<1>1. new \in Seq(Article) /\ ToSet(new) = A \ ToSet(records) /\ IsInjective(new)
  BY FreshArticles
<1>2. ToSet(records) \intersect ToSet(new) = {}
  BY <1>1
<1> HIDE DEF new
<1>3. /\ records \o new \in Seq(Article)
      /\ ToSet(records \o new) = ToSet(records) \union ToSet(new)
      /\ IsInjective(records) => IsInjective(records \o new)
  BY <1>1, <1>2, Appending
<1> QED BY <1>1, <1>3 DEF new

LEMMA TodoParts ==
  ASSUME NEW x, NEW y
  PROVE  /\ Head(<<x>>) = x /\ Tail(<<x>>) = <<>>
         /\ Head(<<x, y>>) = x /\ Tail(<<x, y>>) = <<y>> /\ <<y>> # <<>>
OBVIOUS

-----------------------------------------------------------------------------
(* What a step of p leaves alone.                                          *)
Alone(p) ==
  /\ \A q \in Process : q # p => proc'[q] = proc[q]
  /\ DOMAIN proc' = Process /\ proc' \in [Process -> Locals]

Typed == TypeInv /\ Shape

LEMMA LocalsOf ==
  ASSUME TypeInv, NEW p \in Process
  PROVE  /\ proc[p] \in Locals /\ proc[p].pc \in Steps
         /\ proc[p].stamp \in Stamp \union {Absent}
         /\ proc[p].seen \subseteq Key /\ proc[p].batch \subseteq Article
         /\ proc[p].todo \in Seq(File)
         /\ proc[p].index \in Seq(Article) /\ proc[p].meta \in Seq(Article)
BY DEF TypeInv, Locals

LEMMA IdleTyped == Idle \in Locals /\ Idle.pc = "idle" /\ Idle.batch = {} /\ Idle.todo = <<>>
  /\ Idle.meta = <<>> /\ Idle.index = <<>> /\ Idle.seen = {} /\ Idle.stamp = Absent
BY DEF Idle, Locals, Steps

LEMMA KeysOf ==
  ASSUME NEW A \in SUBSET Article
  PROVE  Keys(A) \subseteq Key
BY DEF Keys, Key

(* A step that gives p a new state and no other process.                   *)
LEMMA Assigned ==
  ASSUME TypeInv, NEW p \in Process, NEW r \in Locals, proc' = [proc EXCEPT ![p] = r]
  PROVE  Alone(p) /\ proc'[p] = r
BY DEF TypeInv, Alone

(* Shape is kept when the state of p has it.                               *)
LEMMA ShapeKept ==
  ASSUME Shape, NEW p \in Process, Alone(p),
         proc'[p].pc = "fetching" =>
           p \in Collector /\ proc'[p].stamp \in Stamp /\ proc'[p].batch = {},
         Saving(p)' => AtCheckpoint(p)' \/ AtStamp(p)' \/ AtIndex(p)' \/ AtMeta(p)'
  PROVE  Shape'
BY DEF Shape, Alone, Saving, AtCheckpoint, AtStamp, AtIndex, AtMeta

LEMMA CollectEffect ==
  ASSUME Typed, NEW c \in Collector, NEW stamp \in Stamp, Collect(c, stamp)
  PROVE  /\ Typed' /\ Alone(c)
         /\ proc[c].pc = "idle" /\ proc'[c].pc = "fetching" /\ proc'[c].meta = <<>>
         /\ disk["checkpoint"] # Torn
         /\ proc'[c].seen = IF disk["checkpoint"] = Absent THEN {} ELSE disk["checkpoint"]
         /\ UNCHANGED <<disk, killed, written, answered, overlapped, cuts>>
<1> DEFINE seen == IF disk["checkpoint"] = Absent THEN {} ELSE disk["checkpoint"]
           r == [Idle EXCEPT !.pc = "fetching", !.stamp = stamp, !.seen = seen]
<1>1. /\ proc[c].pc = "idle" /\ disk["checkpoint"] # Torn /\ proc' = [proc EXCEPT ![c] = r]
      /\ UNCHANGED <<disk, killed, written, answered, overlapped, cuts>>
  BY DEF Collect
<1>2. c \in Process
  BY DEF Process
<1>3. seen \in SUBSET Key
  BY <1>1 DEF Typed, TypeInv
<1> HIDE DEF seen
<1>4. r.pc = "fetching" /\ r.stamp = stamp /\ r.seen = seen /\ r.batch = {} /\ r.meta = <<>>
  BY DEF Idle
<1>5. r \in Locals
  BY <1>3, IdleTyped DEF Locals, Steps
<1> HIDE DEF r
<1>6. Alone(c) /\ proc'[c] = r
  BY <1>1, <1>2, <1>5, Assigned DEF Typed
<1>7. TypeInv'
  BY <1>1, <1>6 DEF Typed, TypeInv, Alone
<1>8. Shape'
  BY <1>2, <1>4, <1>6, ShapeKept DEF Typed, Saving
<1> QED BY <1>1, <1>4, <1>6, <1>7, <1>8 DEF Typed, seen

LEMMA FetchEffect ==
  ASSUME Typed, NEW c \in Collector, NEW raw \in SUBSET Article, NEW A \in SUBSET Article,
         Fetch(c, raw, A)
  PROVE  /\ Typed' /\ Alone(c) /\ Accepts(A, raw, proc[c].seen)
         /\ proc[c].pc = "fetching" /\ AtCheckpoint(c)' /\ proc'[c].pc = "writing"
         /\ proc'[c].batch = A /\ proc'[c].seen = proc[c].seen \union Keys(A)
         /\ proc'[c].meta = proc[c].meta
         /\ UNCHANGED <<disk, killed, written, answered, overlapped, cuts>>
<1> DEFINE s == proc[c].stamp
           r == [proc[c] EXCEPT !.pc = "writing", !.batch = A, !.seen = proc[c].seen \union Keys(A),
                                !.todo = <<"checkpoint", s>>]
<1>1. /\ proc[c].pc = "fetching" /\ Accepts(A, raw, proc[c].seen) /\ proc' = [proc EXCEPT ![c] = r]
      /\ UNCHANGED <<disk, killed, written, answered, overlapped, cuts>>
  BY DEF Fetch
<1>2. c \in Process
  BY DEF Process
<1>3. /\ proc[c] \in Locals /\ s \in Stamp /\ proc[c].seen \subseteq Key
      /\ proc[c].index \in Seq(Article) /\ proc[c].meta \in Seq(Article)
  BY <1>1, <1>2, LocalsOf DEF Typed, Shape
<1>4. Keys(A) \subseteq Key /\ <<"checkpoint", s>> \in Seq(File)
  BY <1>3, KeysOf DEF File
<1>5. /\ r.pc = "writing" /\ r.stamp = s /\ r.seen = proc[c].seen \union Keys(A)
      /\ r.batch = A /\ r.todo = <<"checkpoint", s>> /\ r.meta = proc[c].meta
  BY <1>3 DEF Locals
<1> HIDE DEF s
<1>6. r \in Locals
  BY <1>3, <1>4 DEF Locals, Steps
<1> HIDE DEF r
<1>7. Alone(c) /\ proc'[c] = r
  BY <1>1, <1>2, <1>6, Assigned DEF Typed
<1>8. TypeInv'
  BY <1>1, <1>7 DEF Typed, TypeInv, Alone
<1>9. AtCheckpoint(c)'
  BY <1>3, <1>5, <1>7 DEF AtCheckpoint, Saving
<1>10. Shape'
  BY <1>2, <1>5, <1>7, <1>9, ShapeKept DEF Typed
<1> QED BY <1>1, <1>5, <1>7, <1>8, <1>9, <1>10 DEF Typed

LEMMA FetchDegradedEffect ==
  ASSUME Typed, NEW c \in Collector, FetchDegraded(c)
  PROVE  /\ Typed' /\ Alone(c)
         /\ proc[c].pc = "fetching" /\ AtCheckpoint(c)' /\ proc'[c].pc = "writing"
         /\ proc'[c].batch = {} /\ proc'[c].seen = proc[c].seen /\ proc'[c].meta = proc[c].meta
         /\ UNCHANGED <<disk, killed, written, answered, overlapped, cuts>>
<1> DEFINE r == [proc[c] EXCEPT !.pc = "writing", !.todo = <<"checkpoint">>]
<1>1. /\ proc[c].pc = "fetching" /\ proc' = [proc EXCEPT ![c] = r]
      /\ UNCHANGED <<disk, killed, written, answered, overlapped, cuts>>
  BY DEF FetchDegraded
<1>2. c \in Process
  BY DEF Process
<1>3. /\ proc[c] \in Locals /\ proc[c].stamp \in Stamp /\ proc[c].seen \subseteq Key /\ proc[c].batch = {}
      /\ proc[c].index \in Seq(Article) /\ proc[c].meta \in Seq(Article)
  BY <1>1, <1>2, LocalsOf DEF Typed, Shape
<1>4. <<"checkpoint">> \in Seq(File)
  BY DEF File
<1>5. /\ r.pc = "writing" /\ r.stamp = proc[c].stamp /\ r.seen = proc[c].seen
      /\ r.batch = {} /\ r.todo = <<"checkpoint">> /\ r.meta = proc[c].meta
  BY <1>3 DEF Locals
<1>6. r \in Locals
  BY <1>3, <1>4 DEF Locals, Steps
<1> HIDE DEF r
<1>7. Alone(c) /\ proc'[c] = r
  BY <1>1, <1>2, <1>6, Assigned DEF Typed
<1>8. TypeInv'
  BY <1>1, <1>7 DEF Typed, TypeInv, Alone
<1>9. AtCheckpoint(c)'
  BY <1>3, <1>5, <1>7 DEF AtCheckpoint, Saving
<1>10. Shape'
  BY <1>2, <1>5, <1>7, <1>9, ShapeKept DEF Typed
<1> QED BY <1>1, <1>5, <1>7, <1>8, <1>9, <1>10 DEF Typed

LEMMA SyncEffect ==
  ASSUME Typed, NEW x \in Sync, NEW A \in SUBSET Article, SyncNews(x, A)
  PROVE  /\ Typed' /\ Alone(x)
         /\ proc[x].pc = "idle" /\ proc'[x].pc = "loading" /\ proc'[x].meta = <<>>
         /\ UNCHANGED <<disk, killed, written, answered, overlapped, cuts>>
<1> DEFINE r == [Idle EXCEPT !.pc = "loading", !.batch = A]
<1>1. /\ proc[x].pc = "idle" /\ proc' = [proc EXCEPT ![x] = r]
      /\ UNCHANGED <<disk, killed, written, answered, overlapped, cuts>>
  BY DEF SyncNews
<1>2. x \in Process
  BY DEF Process
<1>3. r.pc = "loading" /\ r.meta = <<>>
  BY DEF Idle
<1>4. r \in Locals
  BY IdleTyped DEF Locals, Steps
<1> HIDE DEF r
<1>5. Alone(x) /\ proc'[x] = r
  BY <1>1, <1>2, <1>4, Assigned DEF Typed
<1>6. TypeInv'
  BY <1>1, <1>5 DEF Typed, TypeInv, Alone
<1>7. Shape'
  BY <1>2, <1>3, <1>5, ShapeKept DEF Typed, Saving
<1> QED BY <1>1, <1>3, <1>5, <1>6, <1>7 DEF Typed

(* store.add to loaded vectors i and records m.                            *)
LEMMA AddEffect ==
  ASSUME Typed, NEW p \in Process, NEW i \in Seq(Article), NEW m \in Seq(Article), Add(p, i, m),
         UNCHANGED <<disk, killed, written, answered, cuts>>
  PROVE  /\ Typed' /\ Alone(p) /\ AtIndex(p)' /\ proc'[p].pc = "writing"
         /\ proc'[p].batch = proc[p].batch
         /\ proc'[p].index = i \o Fresh(proc[p].batch, m)
         /\ proc'[p].meta = m \o Fresh(proc[p].batch, m)
<1> DEFINE new == Fresh(proc[p].batch, m)
           r == [proc[p] EXCEPT !.pc = "writing", !.todo = <<"index", "meta">>,
                                !.index = i \o new, !.meta = m \o new]
<1>1. proc' = [proc EXCEPT ![p] = r]
  BY DEF Add
<1>2. proc[p] \in Locals /\ proc[p].batch \subseteq Article
  BY LocalsOf DEF Typed
<1>3. new \in Seq(Article)
  BY <1>2, FreshArticles
<1> HIDE DEF new
<1>4. i \o new \in Seq(Article) /\ m \o new \in Seq(Article)
  BY <1>3
<1>5. <<"index", "meta">> \in Seq(File)
  BY DEF File
<1>6. /\ r.pc = "writing" /\ r.todo = <<"index", "meta">> /\ r.batch = proc[p].batch
      /\ r.index = i \o new /\ r.meta = m \o new
  BY <1>2 DEF Locals
<1>7. r \in Locals
  BY <1>2, <1>4, <1>5 DEF Locals, Steps
<1> HIDE DEF r
<1>8. Alone(p) /\ proc'[p] = r
  BY <1>1, <1>7, Assigned DEF Typed
<1>9. TypeInv'
  BY <1>8 DEF Typed, TypeInv, Alone
<1>10. AtIndex(p)'
  BY <1>6, <1>8 DEF AtIndex, Saving
<1>11. Shape'
  BY <1>6, <1>8, <1>10, ShapeKept DEF Typed
<1> QED BY <1>6, <1>8, <1>9, <1>10, <1>11 DEF Typed, new

LEMMA LoadMetaEffect ==
  ASSUME Typed, NEW p \in Process, LoadMeta(p)
  PROVE  /\ Typed' /\ Alone(p) /\ proc[p].pc = "loading" /\ proc'[p].pc = "reading"
         /\ disk["index"] # Absent /\ Whole("meta") /\ proc'[p].meta = disk["meta"]
         /\ UNCHANGED <<disk, killed, written, answered, cuts>> /\ NoteOverlap(p)
<1> DEFINE r == [proc[p] EXCEPT !.pc = "reading", !.meta = disk["meta"]]
<1>1. /\ proc[p].pc = "loading" /\ proc' = [proc EXCEPT ![p] = r]
      /\ disk["index"] # Absent /\ Whole("meta") /\ NoteOverlap(p)
      /\ UNCHANGED <<disk, killed, written, answered, cuts>>
  BY DEF LoadMeta, Whole
<1>2. proc[p] \in Locals /\ disk["meta"] \in Seq(Article)
  BY <1>1, LocalsOf DEF Typed, TypeInv, Whole
<1>3. r.pc = "reading" /\ r.meta = disk["meta"]
  BY <1>2 DEF Locals
<1>4. r \in Locals
  BY <1>2 DEF Locals, Steps
<1> HIDE DEF r
<1>5. Alone(p) /\ proc'[p] = r
  BY <1>1, <1>4, Assigned DEF Typed
<1>6. TypeInv'
  BY <1>1, <1>5 DEF Typed, TypeInv, Alone
<1>7. Shape'
  BY <1>3, <1>5, ShapeKept DEF Typed, Saving
<1> QED BY <1>1, <1>3, <1>5, <1>6, <1>7 DEF Typed

(* p returns, raises or is killed.                                         *)
LEMMA EndEffect ==
  ASSUME Typed, NEW p \in Process, proc' = [proc EXCEPT ![p] = Idle], TypeInv => TypeInv'
  PROVE  Typed' /\ Alone(p) /\ proc'[p].pc = "idle" /\ proc'[p].meta = <<>>
<1>1. Alone(p) /\ proc'[p] = Idle
  BY Assigned, IdleTyped DEF Typed
<1>2. Shape'
  BY <1>1, IdleTyped, ShapeKept DEF Typed, Saving
<1> QED BY <1>1, <1>2, IdleTyped DEF Typed

LEMMA LoadRaisesEffect ==
  ASSUME Typed, NEW p \in Process, LoadRaises(p)
  PROVE  /\ Typed' /\ Alone(p) /\ proc[p].pc \in {"loading", "reading"} /\ proc'[p].pc = "idle"
         /\ proc'[p].meta = <<>>
         /\ UNCHANGED <<disk, killed, written, answered, overlapped, cuts>>
<1>1. /\ proc[p].pc \in {"loading", "reading"} /\ proc' = [proc EXCEPT ![p] = Idle]
      /\ UNCHANGED <<disk, killed, written, answered, overlapped, cuts>>
  BY DEF LoadRaises
<1>2. TypeInv'
  BY <1>1, IdleTyped DEF Typed, TypeInv
<1> QED BY <1>1, <1>2, EndEffect

(* A kill between the two writes of a save is a cut.                       *)
CutBy(p) ==
  /\ proc[p].pc = "writing" /\ AtMeta(p) /\ Whole("meta")
  /\ cuts' = cuts \union {Len(disk["meta"])}

LEMMA KillEffect ==
  ASSUME Typed, NEW p \in Process, Kill(p)
  PROVE  /\ Typed' /\ Alone(p) /\ proc'[p].pc = "idle" /\ proc'[p].meta = <<>> /\ killed' # 0
         /\ UNCHANGED <<disk, written, answered, overlapped>>
         /\ \/ CutBy(p)
            \/ cuts' = cuts /\ (AtMeta(p) => proc[p].pc = "opened" \/ ~Whole("meta"))
<1>1. /\ proc' = [proc EXCEPT ![p] = Idle] /\ killed' = killed + 1 /\ killed \in Nat
      /\ UNCHANGED <<disk, written, answered, overlapped>>
  BY DEF Kill, Typed, TypeInv
<1>2. killed' \in Nat /\ killed' # 0
  BY <1>1
<1>3. \/ CutBy(p)
      \/ cuts' = cuts /\ (AtMeta(p) => proc[p].pc = "opened" \/ ~Whole("meta"))
  <2>1. CASE proc[p].pc = "writing" /\ proc[p].todo = <<"meta">> /\ Whole("meta")
    BY <2>1, Zenon DEF Kill, CutBy, AtMeta, Saving
  <2>2. CASE ~(proc[p].pc = "writing" /\ proc[p].todo = <<"meta">> /\ Whole("meta"))
    BY <2>2, Zenon DEF Kill, AtMeta, Saving
  <2> QED BY <2>1, <2>2
<1>4. cuts' \in SUBSET Nat
  <2>1. Whole("meta") => Len(disk["meta"]) \in Nat
    BY DEF Typed, TypeInv, Whole
  <2> QED BY <1>3, <2>1 DEF Typed, TypeInv, CutBy
<1>5. TypeInv'
  BY <1>1, <1>2, <1>4, IdleTyped DEF Typed, TypeInv
<1> QED BY <1>1, <1>2, <1>3, <1>5, EndEffect

-----------------------------------------------------------------------------
(* Opening and writing the next file                                       *)

(* Only one of the phases holds.                                           *)
LEMMA Phases ==
  ASSUME Typed, NEW p \in Process
  PROVE  /\ AtCheckpoint(p) => ~AtStamp(p) /\ ~AtIndex(p) /\ ~AtMeta(p) /\ Head(proc[p].todo) = "checkpoint"
         /\ AtStamp(p) => ~AtIndex(p) /\ ~AtMeta(p) /\ Head(proc[p].todo) = proc[p].stamp
         /\ AtIndex(p) => ~AtMeta(p) /\ Head(proc[p].todo) = "index"
         /\ AtMeta(p) => Head(proc[p].todo) = "meta"
         /\ InStore(p) <=> proc[p].pc = "reading" \/ AtIndex(p) \/ AtMeta(p)
<1> DEFINE s == proc[p].stamp
           t == proc[p].todo
           C == AtCheckpoint(p)
           S == AtStamp(p)
           I == AtIndex(p)
           M == AtMeta(p)
<1>0. /\ C => Saving(p) /\ s \in Stamp /\ (t = <<"checkpoint">> \/ t = <<"checkpoint", s>>)
      /\ S => Saving(p) /\ s \in Stamp /\ t = <<s>>
      /\ I => Saving(p) /\ t = <<"index", "meta">>
      /\ M => Saving(p) /\ t = <<"meta">>
      /\ Saving(p) => C \/ S \/ I \/ M
  BY DEF AtCheckpoint, AtStamp, AtIndex, AtMeta, Typed, Shape
<1>1. C => Head(t) = "checkpoint"
  BY <1>0, TodoParts
<1>2. S => Head(t) = s /\ s \in Stamp
  BY <1>0, TodoParts
<1>3. I => Head(t) = "index" /\ t = <<"index", "meta">>
  BY <1>0, TodoParts
<1>4. M => Head(t) = "meta"
  BY <1>0, TodoParts
<1>5. s \in Stamp => s \notin {"checkpoint", "index", "meta"}
  BY ConstantsAssumption
<1>6. InStore(p) <=> proc[p].pc = "reading" \/ (Saving(p) /\ Head(t) \in {"index", "meta"})
  BY DEF InStore, Saving
<1> HIDE DEF s, t, C, S, I, M
<1>7. /\ C => ~S /\ ~I /\ ~M
      /\ S => ~I /\ ~M
      /\ I => ~M
  BY <1>1, <1>2, <1>3, <1>4, <1>5
<1>8. (Saving(p) /\ Head(t) \in {"index", "meta"}) <=> I \/ M
  BY <1>0, <1>1, <1>2, <1>3, <1>4, <1>5
<1> QED BY <1>1, <1>2, <1>3, <1>4, <1>6, <1>7, <1>8 DEF s, t, C, S, I, M

(* What a step writes to file f, and to no other.                          *)
Written(f, content) ==
  /\ disk'[f] = content
  /\ \A g \in File \ {f} : disk'[g] = disk[g]

LEMMA OneFile ==
  ASSUME Typed, NEW f \in File, NEW content, disk' = [disk EXCEPT ![f] = content]
  PROVE  Written(f, content) /\ DOMAIN disk' = File /\ disk' = [g \in File |-> disk'[g]]
<1>1. DOMAIN disk = File /\ disk = [g \in File |-> disk[g]]
  BY DEF Typed, TypeInv
<1> QED BY <1>1 DEF Written

LEMMA NextFile ==
  ASSUME Typed, NEW p \in Process, Saving(p)
  PROVE  /\ Head(proc[p].todo) \in File
         /\ AtCheckpoint(p) \/ AtStamp(p) \/ AtIndex(p) \/ AtMeta(p)
<1>1. AtCheckpoint(p) \/ AtStamp(p) \/ AtIndex(p) \/ AtMeta(p)
  BY DEF Typed, Shape
<1>2. AtStamp(p) => proc[p].stamp \in Stamp
  BY DEF AtStamp
<1> QED BY <1>1, <1>2, Phases DEF File

LEMMA OpenEffect ==
  ASSUME Typed, NEW p \in Process, Open(p)
  PROVE  /\ Typed' /\ Alone(p) /\ Saving(p) /\ Written(Head(proc[p].todo), Torn)
         /\ proc'[p].pc = "opened"
         /\ proc'[p].seen = proc[p].seen /\ proc'[p].batch = proc[p].batch
         /\ proc'[p].index = proc[p].index /\ proc'[p].meta = proc[p].meta
         /\ AtCheckpoint(p)' = AtCheckpoint(p) /\ AtStamp(p)' = AtStamp(p)
         /\ AtIndex(p)' = AtIndex(p) /\ AtMeta(p)' = AtMeta(p)
         /\ UNCHANGED <<killed, written, answered, overlapped, cuts>>
<1> DEFINE f == Head(proc[p].todo)
           r == [proc[p] EXCEPT !.pc = "opened"]
<1>1. /\ proc[p].pc = "writing" /\ disk' = [disk EXCEPT ![f] = Torn]
      /\ UNCHANGED <<killed, written, answered, overlapped, cuts>>
  BY DEF Open
<1>2. proc' = [proc EXCEPT ![p] = r]
  BY DEF Open
<1>3. proc[p] \in Locals
  BY LocalsOf DEF Typed
<1>4. /\ r.pc = "opened" /\ r.seen = proc[p].seen /\ r.batch = proc[p].batch
      /\ r.index = proc[p].index /\ r.meta = proc[p].meta /\ r.todo = proc[p].todo
      /\ r.stamp = proc[p].stamp
  BY <1>3 DEF Locals
<1>5. r \in Locals
  BY <1>3 DEF Locals, Steps
<1> HIDE DEF r
<1>6. Alone(p) /\ proc'[p] = r
  BY <1>2, <1>5, Assigned DEF Typed
<1>7. Saving(p) /\ f \in File
  BY <1>1, NextFile DEF Saving
<1> HIDE DEF f
<1>8. Written(f, Torn) /\ DOMAIN disk' = File /\ disk' = [g \in File |-> disk'[g]]
  BY <1>1, <1>7, OneFile
<1>9. TypeInv'
  <2>1. disk'["checkpoint"] \in {Absent, Torn} \union SUBSET Key
    BY <1>8 DEF Written, Typed, TypeInv, File
  <2>2. \A g \in {"index", "meta"} : disk'[g] \in {Absent, Torn} \union Seq(Article)
    BY <1>8 DEF Written, Typed, TypeInv, File
  <2> QED BY <1>1, <1>6, <1>8, <2>1, <2>2 DEF Typed, TypeInv, Alone
<1>10. /\ AtCheckpoint(p)' = AtCheckpoint(p) /\ AtStamp(p)' = AtStamp(p)
       /\ AtIndex(p)' = AtIndex(p) /\ AtMeta(p)' = AtMeta(p)
  BY <1>1, <1>4, <1>6 DEF AtCheckpoint, AtStamp, AtIndex, AtMeta, Saving
<1>11. Shape'
  <2>1. AtCheckpoint(p) \/ AtStamp(p) \/ AtIndex(p) \/ AtMeta(p)
    BY <1>7, NextFile
  <2> QED BY <1>4, <1>6, <1>10, <2>1, ShapeKept DEF Typed
<1> QED BY <1>1, <1>4, <1>6, <1>7, <1>8, <1>9, <1>10, <1>11 DEF Typed, f

(* What becomes of a process that has written its next file.               *)
After(p) ==
  IF Tail(proc[p].todo) # <<>> THEN [proc[p] EXCEPT !.pc = "writing", !.todo = Tail(proc[p].todo)]
  ELSE IF Head(proc[p].todo) \in Stamp THEN [proc[p] EXCEPT !.pc = "loading", !.todo = <<>>]
  ELSE Idle

LEMMA WriteFrame ==
  ASSUME Typed, NEW p \in Process, Write(p),
         NEW f \in File, f = Head(proc[p].todo), NEW content, content = Content(p, f)
  PROVE  /\ Saving(p) /\ Written(f, content)
         /\ DOMAIN disk' = File /\ disk' = [g \in File |-> disk'[g]]
         /\ proc' = [proc EXCEPT ![p] = After(p)]
         /\ f \notin Stamp => written' = written
         /\ f \in Stamp => written' = [a \in Article |->
              IF a \in proc[p].batch THEN written[a] + 1 ELSE written[a]]
         /\ f # "meta" => answered' = answered
         /\ f = "meta" => answered' = answered \union proc[p].batch
         /\ UNCHANGED <<killed, overlapped, cuts>>
<1>1. /\ proc[p].pc = "opened" /\ disk' = [disk EXCEPT ![f] = content]
      /\ proc' = [proc EXCEPT ![p] = After(p)]
      /\ UNCHANGED <<killed, overlapped, cuts>>
  BY DEF Write, After
<1>2. /\ written' = [a \in Article |->
              IF f \in Stamp /\ a \in proc[p].batch THEN written[a] + 1 ELSE written[a]]
      /\ answered' = answered \union IF f = "meta" THEN proc[p].batch ELSE {}
  BY DEF Write
<1>3. f \notin Stamp => written' = written
  BY <1>2 DEF Typed, TypeInv
<1>4. Written(f, content) /\ DOMAIN disk' = File /\ disk' = [g \in File |-> disk'[g]]
  BY <1>1, OneFile
<1> QED BY <1>1, <1>2, <1>3, <1>4 DEF Saving

LEMMA WriteCheckpoint ==
  ASSUME Typed, NEW p \in Process, Write(p), AtCheckpoint(p)
  PROVE  /\ Typed' /\ Alone(p) /\ Written("checkpoint", proc[p].seen)
         /\ \/ proc'[p].pc = "idle" /\ proc'[p].meta = <<>>
            \/ AtStamp(p)' /\ proc'[p].seen = proc[p].seen /\ proc'[p].batch = proc[p].batch
               /\ proc'[p].pc = "writing" /\ proc'[p].meta = proc[p].meta
         /\ UNCHANGED <<killed, written, answered, overlapped, cuts>>
<1> DEFINE s == proc[p].stamp
           next == [proc[p] EXCEPT !.pc = "writing", !.todo = <<s>>]
           r == After(p)
<1>1. /\ Head(proc[p].todo) = "checkpoint" /\ s \in Stamp /\ p \in Collector
      /\ proc[p].todo = <<"checkpoint">> \/ proc[p].todo = <<"checkpoint", s>>
  BY Phases DEF AtCheckpoint
<1>2. "checkpoint" \notin Stamp /\ "checkpoint" \in File /\ s \in File
  BY <1>1, ConstantsAssumption DEF File
<1>3. r = Idle \/ r = next
  <2>1. CASE proc[p].todo = <<"checkpoint">>
    <3>1. Tail(proc[p].todo) = <<>>
      BY <2>1, TodoParts, Zenon
    <3> QED BY <1>1, <1>2, <3>1, Zenon DEF After
  <2>2. CASE proc[p].todo = <<"checkpoint", s>>
    <3>1. Tail(<<"checkpoint", s>>) = <<s>> /\ <<s>> # <<>>
      BY TodoParts
    <3>2. Tail(proc[p].todo) = <<s>> /\ <<s>> # <<>>
      BY <2>2, <3>1, Zenon
    <3> QED BY <3>2, Zenon DEF After
  <2> QED BY <1>1, <2>1, <2>2
<1>4. proc[p] \in Locals /\ proc[p].seen \in SUBSET Key
  BY LocalsOf DEF Typed
<1>5. <<s>> \in Seq(File)
  BY <1>2
<1>6. /\ next \in Locals /\ next.pc = "writing" /\ next.todo = <<s>> /\ next.stamp = s
      /\ next.seen = proc[p].seen /\ next.batch = proc[p].batch /\ next.meta = proc[p].meta
  <2>1. next \in Locals
    BY <1>4, <1>5 DEF Locals, Steps
  <2>2. /\ next.pc = "writing" /\ next.todo = <<s>> /\ next.stamp = s
        /\ next.seen = proc[p].seen /\ next.batch = proc[p].batch /\ next.meta = proc[p].meta
    BY <1>4 DEF Locals
  <2> QED BY <2>1, <2>2
<1> HIDE DEF next, r
<1>7. Content(p, "checkpoint") = proc[p].seen
  BY <1>2 DEF Content
<1>8. /\ Written("checkpoint", proc[p].seen) /\ proc' = [proc EXCEPT ![p] = r]
      /\ DOMAIN disk' = File /\ disk' = [g \in File |-> disk'[g]]
      /\ UNCHANGED <<killed, written, answered, overlapped, cuts>>
  BY <1>1, <1>2, <1>7, WriteFrame DEF r
<1>9. r \in Locals
  BY <1>3, <1>6, IdleTyped
<1>10. Alone(p) /\ proc'[p] = r
  BY <1>8, <1>9, Assigned DEF Typed
<1>11. TypeInv'
  <2>1. disk'["checkpoint"] \in SUBSET Key
    BY <1>4, <1>8 DEF Written
  <2>2. \A g \in {"index", "meta"} : disk'[g] \in {Absent, Torn} \union Seq(Article)
    BY <1>8 DEF Written, Typed, TypeInv, File
  <2> QED BY <1>8, <1>10, <2>1, <2>2 DEF Typed, TypeInv, Alone
<1>12. CASE r = Idle
  <2>1. proc'[p].pc = "idle" /\ proc'[p].meta = <<>>
    BY <1>10, <1>12, IdleTyped
  <2>2. Shape'
    BY <1>10, <2>1, ShapeKept DEF Typed, Saving
  <2> QED BY <1>8, <1>10, <1>11, <2>1, <2>2 DEF Typed
<1>13. CASE r = next
  <2>1. AtStamp(p)'
    BY <1>1, <1>6, <1>10, <1>13 DEF AtStamp, Saving
  <2>2. Shape'
    BY <1>6, <1>10, <1>13, <2>1, ShapeKept DEF Typed
  <2> QED BY <1>6, <1>8, <1>10, <1>11, <1>13, <2>1, <2>2 DEF Typed
<1> QED BY <1>3, <1>12, <1>13

LEMMA WriteSnapshot ==
  ASSUME Typed, NEW p \in Process, Write(p), AtStamp(p)
  PROVE  /\ Typed' /\ Alone(p) /\ Written(proc[p].stamp, proc[p].batch)
         /\ proc'[p].pc = "loading" /\ proc'[p].meta = proc[p].meta
         /\ written' = [a \in Article |->
              IF a \in proc[p].batch THEN written[a] + 1 ELSE written[a]]
         /\ UNCHANGED <<killed, answered, overlapped, cuts>>
<1> DEFINE s == proc[p].stamp
           b == proc[p].batch
           r == [proc[p] EXCEPT !.pc = "loading", !.todo = <<>>]
<1>1. Head(proc[p].todo) = s /\ s \in Stamp /\ proc[p].todo = <<s>>
  BY Phases DEF AtStamp
<1>2. s \in File /\ s \notin {"checkpoint", "index", "meta"}
  BY <1>1, ConstantsAssumption DEF File
<1>3. After(p) = r
  <2>1. Tail(<<s>>) = <<>>
    BY TodoParts
  <2>2. Tail(proc[p].todo) = <<>>
    BY <1>1, <2>1, Zenon
  <2> QED BY <1>1, <2>2, Zenon DEF After
<1>4. proc[p] \in Locals /\ b \subseteq Article /\ <<>> \in Seq(File)
  BY LocalsOf DEF Typed
<1>5. r.pc = "loading" /\ r.meta = proc[p].meta
  BY <1>4 DEF Locals
<1>6. r \in Locals
  BY <1>4 DEF Locals, Steps
<1> HIDE DEF r
<1>7. Content(p, s) = b
  BY <1>1, <1>2 DEF Content
<1> HIDE DEF s, b
<1>8. /\ Written(s, b) /\ proc' = [proc EXCEPT ![p] = r]
      /\ DOMAIN disk' = File /\ disk' = [g \in File |-> disk'[g]]
      /\ UNCHANGED <<killed, answered, overlapped, cuts>>
      /\ written' = [a \in Article |-> IF a \in b THEN written[a] + 1 ELSE written[a]]
  BY <1>1, <1>2, <1>3, <1>7, WriteFrame DEF b
<1>9. Alone(p) /\ proc'[p] = r
  BY <1>6, <1>8, Assigned DEF Typed
<1>10. TypeInv'
  <2>1. /\ disk'["checkpoint"] = disk["checkpoint"]
        /\ disk'["index"] = disk["index"] /\ disk'["meta"] = disk["meta"]
    BY <1>2, <1>8 DEF Written, File
  <2>2. written' \in [Article -> Nat]
    BY <1>8 DEF Typed, TypeInv
  <2> QED BY <1>8, <1>9, <2>1, <2>2 DEF Typed, TypeInv, Alone
<1>11. Shape'
  BY <1>5, <1>9, ShapeKept DEF Typed, Saving
<1> QED BY <1>5, <1>8, <1>9, <1>10, <1>11 DEF Typed, s, b

LEMMA WriteIndex ==
  ASSUME Typed, NEW p \in Process, Write(p), AtIndex(p)
  PROVE  /\ Typed' /\ Alone(p) /\ Written("index", proc[p].index)
         /\ AtMeta(p)' /\ proc'[p].pc = "writing" /\ proc'[p].batch = proc[p].batch
         /\ proc'[p].index = proc[p].index /\ proc'[p].meta = proc[p].meta
         /\ UNCHANGED <<killed, written, answered, overlapped, cuts>>
<1> DEFINE r == [proc[p] EXCEPT !.pc = "writing", !.todo = <<"meta">>]
<1>1. Head(proc[p].todo) = "index" /\ proc[p].todo = <<"index", "meta">>
  BY Phases DEF AtIndex
<1>2. "index" \in File /\ "index" \notin Stamp
  BY ConstantsAssumption DEF File
<1>3. After(p) = r
  <2>1. Tail(<<"index", "meta">>) = <<"meta">> /\ <<"meta">> # <<>>
    BY TodoParts
  <2>2. Tail(proc[p].todo) = <<"meta">> /\ <<"meta">> # <<>>
    BY <1>1, <2>1, Zenon
  <2> QED BY <2>2, Zenon DEF After
<1>4. proc[p] \in Locals /\ <<"meta">> \in Seq(File) /\ proc[p].index \in Seq(Article)
  BY LocalsOf DEF Typed, File
<1>5. /\ r.pc = "writing" /\ r.todo = <<"meta">> /\ r.batch = proc[p].batch
      /\ r.index = proc[p].index /\ r.meta = proc[p].meta
  BY <1>4 DEF Locals
<1>6. r \in Locals
  BY <1>4 DEF Locals, Steps
<1> HIDE DEF r
<1>7. Content(p, "index") = proc[p].index
  BY <1>2 DEF Content
<1>8. /\ Written("index", proc[p].index) /\ proc' = [proc EXCEPT ![p] = r]
      /\ DOMAIN disk' = File /\ disk' = [g \in File |-> disk'[g]]
      /\ UNCHANGED <<killed, written, answered, overlapped, cuts>>
  BY <1>1, <1>2, <1>3, <1>7, WriteFrame
<1>9. Alone(p) /\ proc'[p] = r
  BY <1>6, <1>8, Assigned DEF Typed
<1>10. TypeInv'
  <2>1. /\ disk'["checkpoint"] = disk["checkpoint"]
        /\ disk'["index"] \in Seq(Article) /\ disk'["meta"] = disk["meta"]
    BY <1>4, <1>8 DEF Written, File
  <2> QED BY <1>8, <1>9, <2>1 DEF Typed, TypeInv, Alone
<1>11. AtMeta(p)'
  BY <1>5, <1>9 DEF AtMeta, Saving
<1>12. Shape'
  BY <1>5, <1>9, <1>11, ShapeKept DEF Typed
<1> QED BY <1>5, <1>8, <1>9, <1>10, <1>11, <1>12 DEF Typed

LEMMA WriteMeta ==
  ASSUME Typed, NEW p \in Process, Write(p), AtMeta(p)
  PROVE  /\ Typed' /\ Alone(p) /\ Written("meta", proc[p].meta)
         /\ proc'[p].pc = "idle" /\ proc'[p].meta = <<>>
         /\ answered' = answered \union proc[p].batch
         /\ UNCHANGED <<killed, written, overlapped, cuts>>
<1>1. Head(proc[p].todo) = "meta" /\ proc[p].todo = <<"meta">>
  BY Phases DEF AtMeta
<1>2. "meta" \in File /\ "meta" \notin Stamp
  BY ConstantsAssumption DEF File
<1>3. After(p) = Idle
  <2>1. Tail(<<"meta">>) = <<>>
    BY TodoParts
  <2>2. Tail(proc[p].todo) = <<>>
    BY <1>1, <2>1, Zenon
  <2> QED BY <1>1, <1>2, <2>2, Zenon DEF After
<1>4. proc[p].meta \in Seq(Article) /\ proc[p].batch \subseteq Article
  BY LocalsOf DEF Typed
<1>5. Content(p, "meta") = proc[p].meta
  BY <1>2 DEF Content
<1>6. /\ Written("meta", proc[p].meta) /\ proc' = [proc EXCEPT ![p] = Idle]
      /\ DOMAIN disk' = File /\ disk' = [g \in File |-> disk'[g]]
      /\ answered' = answered \union proc[p].batch
      /\ UNCHANGED <<killed, written, overlapped, cuts>>
  BY <1>1, <1>2, <1>3, <1>5, WriteFrame
<1>7. Alone(p) /\ proc'[p] = Idle
  BY <1>6, IdleTyped, Assigned DEF Typed
<1>8. TypeInv'
  <2>1. /\ disk'["checkpoint"] = disk["checkpoint"]
        /\ disk'["meta"] \in Seq(Article) /\ disk'["index"] = disk["index"]
    BY <1>4, <1>6 DEF Written, File
  <2> QED BY <1>4, <1>6, <1>7, <2>1 DEF Typed, TypeInv, Alone
<1> QED BY <1>6, <1>8, EndEffect

(* The phases of a process that is at none of its files.                   *)
LEMMA NotSaving ==
  ASSUME NEW p \in Process
  PROVE  /\ ~Saving(p) => ~AtCheckpoint(p) /\ ~AtStamp(p) /\ ~AtIndex(p) /\ ~AtMeta(p)
         /\ proc[p].pc \in {"idle", "fetching", "loading", "reading"} => ~Saving(p)
BY DEF Saving, AtCheckpoint, AtStamp, AtIndex, AtMeta

-----------------------------------------------------------------------------
(* Deliveries                                                              *)

(* The articles that some snapshot has.                                    *)
Delivered == {a \in Article : written[a] # 0}

OneOfATitle(A) == \A a, b \in A : title[a] = title[b] => a = b

(* A run that holds articles has seen all that was delivered before, and   *)
(* holds none of it; its checkpoint is on disk before its snapshot is.     *)
RunInv(c) ==
  /\ proc[c].pc = "fetching" => Keys(Delivered) \subseteq proc[c].seen
  /\ AtCheckpoint(c) \/ AtStamp(c) =>
       /\ Keys(Delivered) \subseteq proc[c].seen /\ Keys(proc[c].batch) \subseteq proc[c].seen
       /\ Keys(proc[c].batch) \intersect Keys(Delivered) = {}
       /\ OneOfATitle(proc[c].batch)
  /\ AtStamp(c) => disk["checkpoint"] = proc[c].seen

DeliveryInv ==
  /\ \A a \in Article : written[a] \in {0, 1}
  /\ OneOfATitle(Delivered)
  /\ disk["checkpoint"] = Absent => Delivered = {}
  /\ Whole("checkpoint") => Keys(Delivered) \subseteq disk["checkpoint"]
  /\ \A c \in Collector : RunInv(c)

LEMMA KeysUnion ==
  ASSUME NEW A, NEW B
  PROVE  Keys(A \union B) = Keys(A) \union Keys(B) /\ Keys({}) = {}
BY DEF Keys

LEMMA KeysApart ==
  ASSUME NEW A, NEW B, Keys(A) \intersect Keys(B) = {}, NEW a \in A, NEW b \in B
  PROVE  a # b /\ title[a] # title[b]
BY DEF Keys

LEMMA AcceptedKeys ==
  ASSUME NEW raw, NEW A, NEW seen, Accepts(A, raw, seen)
  PROVE  Keys(A) \intersect seen = {} /\ OneOfATitle(A)
<1>1. \A a \in A : Keys({a}) \intersect seen = {}
  BY DEF Accepts
<1>2. \A a \in A : <<"u", a>> \notin seen /\ <<"t", title[a]>> \notin seen
  BY <1>1 DEF Keys
<1> QED BY <1>2 DEF Accepts, Keys, OneOfATitle

(* A step that changes neither the checkpoint nor the snapshots.           *)
LEMMA DeliveryKept ==
  ASSUME DeliveryInv, NEW p \in Process, Alone(p),
         written' = written, disk'["checkpoint"] = disk["checkpoint"],
         p \in Collector => RunInv(p)'
  PROVE  DeliveryInv'
<1>1. Delivered' = Delivered
  BY DEF Delivered
<1>2. Whole("checkpoint")' = Whole("checkpoint")
  BY DEF Whole
<1>3. ASSUME NEW c \in Collector, c # p
      PROVE  RunInv(c)'
  <2>1. proc'[c] = proc[c] /\ RunInv(c)
    BY <1>3 DEF Alone, Process, DeliveryInv
  <2>2. AtCheckpoint(c)' = AtCheckpoint(c) /\ AtStamp(c)' = AtStamp(c)
    BY <2>1 DEF AtCheckpoint, AtStamp, Saving
  <2> QED BY <1>1, <2>1, <2>2 DEF RunInv
<1>4. \A c \in Collector : RunInv(c)'
  BY <1>3
<1> QED BY <1>1, <1>2, <1>4 DEF DeliveryInv, OneOfATitle

(* p is at none of the steps that have to do with deliveries.              *)
LEMMA RunElsewhere ==
  ASSUME NEW p \in Process, proc[p].pc # "fetching", ~AtCheckpoint(p), ~AtStamp(p)
  PROVE  RunInv(p)
BY DEF RunInv

LEMMA CollectDelivers ==
  ASSUME Typed, DeliveryInv, NEW c \in Collector, NEW stamp \in Stamp, Collect(c, stamp)
  PROVE  DeliveryInv'
<1>1. /\ Typed' /\ Alone(c) /\ proc'[c].pc = "fetching" /\ disk["checkpoint"] # Torn
      /\ proc'[c].seen = IF disk["checkpoint"] = Absent THEN {} ELSE disk["checkpoint"]
      /\ UNCHANGED <<disk, written>>
  BY CollectEffect
<1>2. Delivered' = Delivered
  BY <1>1 DEF Delivered
<1>3. Keys(Delivered) \subseteq proc'[c].seen
  BY <1>1, KeysUnion DEF DeliveryInv, Whole
<1>4. ~AtCheckpoint(c)' /\ ~AtStamp(c)'
  BY <1>1 DEF AtCheckpoint, AtStamp, Saving
<1>5. RunInv(c)'
  BY <1>2, <1>3, <1>4 DEF RunInv
<1> QED BY <1>1, <1>5, DeliveryKept DEF Process

LEMMA FetchDelivers ==
  ASSUME Typed, DeliveryInv, NEW c \in Collector, NEW raw \in SUBSET Article, NEW A \in SUBSET Article,
         Fetch(c, raw, A)
  PROVE  DeliveryInv'
<1>1. /\ Typed' /\ Alone(c) /\ Accepts(A, raw, proc[c].seen) /\ proc[c].pc = "fetching"
      /\ AtCheckpoint(c)' /\ proc'[c].pc = "writing" /\ proc'[c].batch = A
      /\ proc'[c].seen = proc[c].seen \union Keys(A) /\ UNCHANGED <<disk, written>>
  BY FetchEffect
<1>2. Delivered' = Delivered
  BY <1>1 DEF Delivered
<1>3. Keys(Delivered) \subseteq proc[c].seen
  BY <1>1 DEF DeliveryInv, RunInv
<1>4. Keys(A) \intersect proc[c].seen = {} /\ OneOfATitle(A)
  BY <1>1, AcceptedKeys
<1>5. ~AtStamp(c)'
  BY <1>1, ConstantsAssumption DEF AtCheckpoint, AtStamp
<1>6. RunInv(c)'
  BY <1>1, <1>2, <1>3, <1>4, <1>5 DEF RunInv, OneOfATitle
<1> QED BY <1>1, <1>6, DeliveryKept DEF Process

LEMMA DeliveryElsewhere ==
  ASSUME DeliveryInv, NEW p \in Process, Alone(p),
         written' = written, disk'["checkpoint"] = disk["checkpoint"],
         proc'[p].pc # "fetching", ~AtCheckpoint(p)', ~AtStamp(p)'
  PROVE  DeliveryInv'
BY DeliveryKept DEF RunInv

LEMMA PhasesApart ==
  ASSUME NEW p \in Process
  PROVE  /\ AtIndex(p) \/ AtMeta(p) => ~AtCheckpoint(p) /\ ~AtStamp(p)
         /\ AtIndex(p)' \/ AtMeta(p)' => ~AtCheckpoint(p)' /\ ~AtStamp(p)'
         /\ AtCheckpoint(p) => ~AtStamp(p)
         /\ AtStamp(p)' => ~AtCheckpoint(p)'
         /\ proc[p].pc \in {"idle", "fetching", "loading", "reading"} =>
              ~AtCheckpoint(p) /\ ~AtStamp(p) /\ ~AtIndex(p) /\ ~AtMeta(p)
         /\ proc'[p].pc \in {"idle", "fetching", "loading", "reading"} =>
              ~AtCheckpoint(p)' /\ ~AtStamp(p)' /\ ~AtIndex(p)' /\ ~AtMeta(p)'
BY ConstantsAssumption DEF AtCheckpoint, AtStamp, AtIndex, AtMeta, Saving

LEMMA FetchDegradedDelivers ==
  ASSUME Typed, DeliveryInv, NEW c \in Collector, FetchDegraded(c)
  PROVE  DeliveryInv'
<1>1. /\ Typed' /\ Alone(c) /\ proc[c].pc = "fetching"
      /\ AtCheckpoint(c)' /\ proc'[c].pc = "writing" /\ proc'[c].batch = {}
      /\ proc'[c].seen = proc[c].seen /\ UNCHANGED <<disk, written>>
  BY FetchDegradedEffect
<1>2. Delivered' = Delivered /\ Keys({}) = {}
  BY <1>1, KeysUnion DEF Delivered
<1>3. Keys(Delivered) \subseteq proc[c].seen
  BY <1>1 DEF DeliveryInv, RunInv
<1>4. ~AtStamp(c)'
  BY <1>1, ConstantsAssumption DEF AtCheckpoint, AtStamp
<1>5. RunInv(c)'
  BY <1>1, <1>2, <1>3, <1>4 DEF RunInv, OneOfATitle
<1> QED BY <1>1, <1>5, DeliveryKept DEF Process

LEMMA OpenDelivers ==
  ASSUME OneCollector, Typed, DeliveryInv, NEW p \in Process, Open(p)
  PROVE  DeliveryInv'
<1> DEFINE f == Head(proc[p].todo)
<1>1. /\ Typed' /\ Alone(p) /\ Saving(p) /\ Written(f, Torn) /\ proc'[p].pc = "opened"
      /\ proc'[p].seen = proc[p].seen /\ proc'[p].batch = proc[p].batch
      /\ AtCheckpoint(p)' = AtCheckpoint(p) /\ AtStamp(p)' = AtStamp(p)
      /\ written' = written
  BY OpenEffect
<1>2. Delivered' = Delivered
  BY <1>1 DEF Delivered
<1>3. "checkpoint" \in File /\ "checkpoint" \notin Stamp
  BY ConstantsAssumption DEF File
<1>4. CASE AtCheckpoint(p)
  <2>1. p \in Collector /\ f = "checkpoint" /\ ~AtStamp(p)
    BY <1>4, Phases DEF AtCheckpoint
  <2>2. disk'["checkpoint"] = Torn /\ Torn # Absent
    BY <1>1, <2>1, ConstantsAssumption DEF Written
  <2>3. RunInv(p)'
    BY <1>1, <1>2, <2>1 DEF RunInv, DeliveryInv, OneOfATitle
  <2>4. \A c \in Collector : RunInv(c)'
    BY <2>1, <2>3 DEF OneCollector
  <2> QED BY <1>1, <1>2, <2>2, <2>4 DEF DeliveryInv, OneOfATitle, Whole
<1>5. CASE ~AtCheckpoint(p)
  <2>1. f # "checkpoint"
    <3>1. AtStamp(p) \/ AtIndex(p) \/ AtMeta(p)
      BY <1>1, <1>5, NextFile
    <3>2. AtStamp(p) => proc[p].stamp \in Stamp
      BY DEF AtStamp
    <3> QED BY <1>3, <3>1, <3>2, Phases
  <2>2. disk'["checkpoint"] = disk["checkpoint"]
    BY <1>1, <1>3, <2>1 DEF Written
  <2>3. p \in Collector => RunInv(p)'
    BY <1>1, <1>2, <2>2 DEF RunInv, DeliveryInv, OneOfATitle
  <2> QED BY <1>1, <2>2, <2>3, DeliveryKept
<1> QED BY <1>4, <1>5

LEMMA WriteCheckpointDelivers ==
  ASSUME OneCollector, Typed, DeliveryInv, NEW p \in Process, Write(p), AtCheckpoint(p)
  PROVE  DeliveryInv'
<1>1. /\ Typed' /\ Alone(p) /\ Written("checkpoint", proc[p].seen) /\ written' = written
      /\ \/ proc'[p].pc = "idle"
         \/ AtStamp(p)' /\ proc'[p].seen = proc[p].seen /\ proc'[p].batch = proc[p].batch
            /\ proc'[p].pc = "writing"
  BY WriteCheckpoint
<1>2. Delivered' = Delivered
  BY <1>1 DEF Delivered
<1>3. p \in Collector /\ RunInv(p)
  BY DEF AtCheckpoint, DeliveryInv
<1>4. disk'["checkpoint"] = proc[p].seen
  BY <1>1 DEF Written
<1>5. disk'["checkpoint"] \notin {Absent, Torn}
  <2>1. proc[p].seen \in SUBSET Key
    BY LocalsOf DEF Typed
  <2> QED BY <1>4, <2>1, ConstantsAssumption DEF Key
<1>6. RunInv(p)'
  <2>1. CASE proc'[p].pc = "idle"
    BY <2>1, PhasesApart DEF RunInv
  <2>2. CASE AtStamp(p)' /\ proc'[p].seen = proc[p].seen /\ proc'[p].batch = proc[p].batch
             /\ proc'[p].pc = "writing"
    BY <1>2, <1>3, <1>4, <2>2, PhasesApart DEF RunInv, OneOfATitle
  <2> QED BY <1>1, <2>1, <2>2
<1>7. \A c \in Collector : RunInv(c)'
  BY <1>3, <1>6 DEF OneCollector
<1> QED BY <1>1, <1>2, <1>3, <1>4, <1>5, <1>7 DEF DeliveryInv, RunInv, OneOfATitle, Whole

LEMMA WriteSnapshotDelivers ==
  ASSUME OneCollector, Typed, DeliveryInv, NEW p \in Process, Write(p), AtStamp(p)
  PROVE  DeliveryInv'
<1> DEFINE b == proc[p].batch
           D == Delivered
<1>1. /\ Typed' /\ Alone(p) /\ Written(proc[p].stamp, b) /\ proc'[p].pc = "loading"
      /\ written' = [a \in Article |-> IF a \in b THEN written[a] + 1 ELSE written[a]]
  BY WriteSnapshot
<1>2. /\ p \in Collector /\ proc[p].stamp \in Stamp /\ RunInv(p)
  BY DEF AtStamp, DeliveryInv
<1>3. disk'["checkpoint"] = disk["checkpoint"] /\ disk["checkpoint"] = proc[p].seen
  BY <1>1, <1>2, ConstantsAssumption DEF Written, File, RunInv
<1>4. disk["checkpoint"] \notin {Absent, Torn}
  <2>1. proc[p].seen \in SUBSET Key
    BY LocalsOf DEF Typed
  <2> QED BY <1>3, <2>1, ConstantsAssumption DEF Key
<1>5. b \subseteq Article /\ (\A a \in Article : written[a] \in {0, 1})
  BY LocalsOf DEF Typed, DeliveryInv
<1>6. /\ Keys(D) \subseteq proc[p].seen /\ Keys(b) \subseteq proc[p].seen
      /\ Keys(b) \intersect Keys(D) = {} /\ OneOfATitle(b) /\ OneOfATitle(D)
  BY <1>2 DEF RunInv, DeliveryInv
<1>7. \A x \in b, y \in D : x # y /\ title[x] # title[y]
  BY <1>6, KeysApart
<1>8. \A a \in Article : written'[a] \in {0, 1} /\ (written'[a] # 0 <=> a \in D \union b)
  BY <1>1, <1>5, <1>7 DEF Delivered
<1>9. Delivered' = D \union b
  BY <1>5, <1>8 DEF Delivered
<1> HIDE DEF b, D
<1>10. OneOfATitle(D \union b)
  BY <1>6, <1>7 DEF OneOfATitle
<1>11. Keys(D \union b) \subseteq disk'["checkpoint"]
  BY <1>3, <1>6, KeysUnion
<1>12. \A c \in Collector : RunInv(c)'
  <2>1. RunInv(p)'
    BY <1>1, PhasesApart DEF RunInv
  <2> QED BY <1>2, <2>1 DEF OneCollector
<1> QED BY <1>3, <1>4, <1>8, <1>9, <1>10, <1>11, <1>12 DEF DeliveryInv, OneOfATitle, Whole

-----------------------------------------------------------------------------
(* The vector store                                                        *)

Using(p) == proc[p].pc = "reading" \/ AtIndex(p) \/ AtMeta(p)

RecordsInv ==
  /\ Whole("meta") => IsInjective(disk["meta"])
  /\ \A p \in Process : IsInjective(proc[p].meta)

(* The vectors are there before the records, and the records before any    *)
(* run or request has completed, and before any save is cut.               *)
FilesInv ==
  /\ disk["index"] = Absent => disk["meta"] = Absent
  /\ disk["meta"] = Absent => answered = {} /\ cuts = {}
  /\ \A p \in Process :
       /\ proc[p].pc = "reading" => disk["index"] # Absent /\ disk["meta"] # Absent
       /\ AtMeta(p) => disk["index"] # Absent

(* The records stored before any cut of C are at their vectors.            *)
Paired(C, index, meta) ==
  \A i \in DOMAIN meta :
    (\A n \in C : i <= n) => i \in DOMAIN index /\ index[i] = meta[i]

(* The records reach to every cut, and without one match the vectors.      *)
Reach(C, index, meta) ==
  /\ \A n \in C : n <= Len(meta)
  /\ C = {} => index = meta

Prolongs(long, short) == \A i \in DOMAIN short : i \in DOMAIN long /\ long[i] = short[i]

(* The store on disk.                                                      *)
ShelfInv ==
  /\ Whole("index") /\ Whole("meta") => Paired(cuts, disk["index"], disk["meta"])
  /\ Whole("meta") => answered \subseteq ToSet(disk["meta"])
                      /\ \A n \in cuts : n <= Len(disk["meta"])

(* Nothing was written since the last complete save.                       *)
AtRest ==
  /\ killed = 0 => disk["index"] = disk["meta"]
  /\ Whole("index") /\ Whole("meta") /\ cuts = {} => disk["index"] = disk["meta"]

(* The store in the memory of p, against the disk.                         *)
UserInv(p) ==
  /\ proc[p].pc = "reading" => Whole("meta") /\ proc[p].meta = disk["meta"] /\ AtRest
  /\ AtIndex(p) \/ AtMeta(p) =>
       /\ Paired(cuts, proc[p].index, proc[p].meta)
       /\ Reach(cuts, proc[p].index, proc[p].meta)
       /\ Whole("meta") => Prolongs(proc[p].meta, disk["meta"])
       /\ answered \union proc[p].batch \subseteq ToSet(proc[p].meta)
       /\ killed = 0 => proc[p].index = proc[p].meta
  /\ AtIndex(p) => (Whole("index") /\ Whole("meta") /\ cuts = {} => disk["index"] = disk["meta"])
  /\ AtMeta(p) => disk["index"] = proc[p].index
  /\ AtMeta(p) /\ proc[p].pc = "opened" => ~Whole("meta")

SerialInv ==
  ~overlapped =>
    /\ \A p, q \in Process : Using(p) /\ Using(q) => p = q
    /\ ShelfInv
    /\ \A p \in Process : UserInv(p)
    /\ (\A p \in Process : ~Using(p)) => AtRest

StoreInv == RecordsInv /\ FilesInv /\ SerialInv

LEMMA Others ==
  ASSUME NEW p \in Process, Alone(p), NEW q \in Process, q # p
  PROVE  /\ proc'[q] = proc[q] /\ AtIndex(q)' = AtIndex(q) /\ AtMeta(q)' = AtMeta(q)
         /\ Using(q)' = Using(q)
<1>1. proc'[q] = proc[q]
  BY DEF Alone
<1>2. AtIndex(q)' = AtIndex(q) /\ AtMeta(q)' = AtMeta(q)
  BY <1>1 DEF AtIndex, AtMeta, Saving
<1> QED BY <1>1, <1>2 DEF Using

LEMMA RecordsKept ==
  ASSUME RecordsInv, NEW p \in Process, Alone(p), IsInjective(proc'[p].meta),
         disk'["meta"] \in {disk["meta"], Torn, proc[p].meta}
  PROVE  RecordsInv'
<1>1. \A q \in Process : IsInjective(proc'[q].meta)
  BY DEF Alone, RecordsInv
<1>2. Whole("meta")' => IsInjective(disk'["meta"])
  BY DEF Whole, RecordsInv
<1> QED BY <1>1, <1>2 DEF RecordsInv

(* What add makes of loaded vectors and records.                           *)
LEMMA Grown ==
  ASSUME NEW C \in SUBSET Nat, NEW i \in Seq(Article), NEW m \in Seq(Article),
         NEW t \in Seq(Article), Paired(C, i, m), Reach(C, i, m)
  PROVE  Paired(C, i \o t, m \o t) /\ Reach(C, i \o t, m \o t) /\ Prolongs(m \o t, m)
<1> DEFINE it == i \o t
           mt == m \o t
<1>1. /\ mt \in Seq(Article) /\ Len(mt) = Len(m) + Len(t) /\ Len(m) \in Nat /\ Len(t) \in Nat
      /\ \A k \in 1..Len(m) : mt[k] = m[k]
      /\ DOMAIN m = 1..Len(m) /\ DOMAIN mt = 1..(Len(m) + Len(t))
  BY ConcatProperties
<1>2. /\ \A k \in 1..Len(i) : it[k] = i[k]
      /\ DOMAIN i = 1..Len(i) /\ DOMAIN it = 1..(Len(i) + Len(t)) /\ Len(i) \in Nat
  BY ConcatProperties
<1>3. C = {} => it = mt
  BY DEF Reach
<1> HIDE DEF it, mt
<1>4. ASSUME NEW k \in DOMAIN mt, \A n \in C : k <= n
      PROVE  k \in DOMAIN it /\ it[k] = mt[k]
  <2>1. CASE C = {}
    BY <1>3, <2>1
  <2>2. CASE C # {}
    <3>1. PICK n \in C : k <= n /\ n <= Len(m)
      BY <1>4, <2>2 DEF Reach
    <3>2. k \in DOMAIN m
      BY <1>1, <3>1
    <3>3. k \in DOMAIN i /\ i[k] = m[k]
      BY <1>4, <3>2 DEF Paired
    <3> QED BY <1>1, <1>2, <3>2, <3>3
  <2> QED BY <2>1, <2>2
<1>5. Paired(C, it, mt)
  BY <1>4 DEF Paired
<1>6. \A n \in C : n <= Len(mt)
  BY <1>1 DEF Reach
<1>7. Prolongs(mt, m)
  BY <1>1 DEF Prolongs
<1> QED BY <1>3, <1>5, <1>6, <1>7 DEF it, mt, Reach

(* Records that some others prolong are at the vectors of those.           *)
LEMMA PairedBefore ==
  ASSUME NEW C, NEW index, NEW long, NEW short, Paired(C, index, long), Prolongs(long, short)
  PROVE  Paired(C, index, short)
BY DEF Paired, Prolongs

(* A cut leaves the records before it at their vectors.                    *)
LEMMA CutPaired ==
  ASSUME NEW C, NEW n, NEW index, NEW meta, Paired(C, index, meta)
  PROVE  Paired(C \union {n}, index, meta)
BY DEF Paired

(* p takes nothing to the store, and leaves it as it is on disk: it ends   *)
(* before it has changed anything, or is killed.                           *)
LEMMA StoreLeft ==
  ASSUME Typed, StoreInv, NEW p \in Process, Alone(p), ~Using(p)', IsInjective(proc'[p].meta),
         disk'["index"] = disk["index"], disk'["meta"] = disk["meta"],
         UNCHANGED <<answered, overlapped>>,
         killed' # 0 \/ (killed' = killed /\ ~AtIndex(p) /\ ~AtMeta(p)),
         \/ CutBy(p)
         \/ cuts' = cuts /\ (AtMeta(p) => proc[p].pc = "opened" \/ ~Whole("meta"))
  PROVE  StoreInv'
<1>1. RecordsInv'
  BY RecordsKept DEF StoreInv
<1>2. Whole("meta")' = Whole("meta") /\ Whole("index")' = Whole("index")
  BY DEF Whole
<1>3. proc'[p].pc # "reading" /\ ~AtIndex(p)' /\ ~AtMeta(p)'
  BY DEF Using
<1>4. FilesInv'
  <2>1. ASSUME NEW q \in Process
        PROVE  /\ proc'[q].pc = "reading" => disk["index"] # Absent /\ disk["meta"] # Absent
               /\ AtMeta(q)' => disk["index"] # Absent
    <3>1. CASE q = p
      BY <1>3, <3>1
    <3>2. CASE q # p
      BY <3>2, Others DEF StoreInv, FilesInv
    <3> QED BY <3>1, <3>2
  <2>2. disk["meta"] = Absent => cuts' = cuts
    BY DEF CutBy, Whole
  <2> QED BY <2>1, <2>2 DEF StoreInv, FilesInv
<1>5. ASSUME ~overlapped
      PROVE  /\ \A q, r \in Process : Using(q)' /\ Using(r)' => q = r
             /\ ShelfInv'
             /\ \A q \in Process : UserInv(q)'
             /\ (\A q \in Process : ~Using(q)') => AtRest'
  <2>1. \A q \in Process : Using(q)' => Using(q) /\ q # p
    BY Others
  <2>2. ShelfInv'
    <3>1. ShelfInv
      BY <1>5 DEF StoreInv, SerialInv
    <3>2. CASE CutBy(p)
      <4> DEFINE n == Len(disk["meta"])
      <4>1. cuts' = cuts \union {n} /\ Whole("meta") /\ n \in Nat
        BY <3>2 DEF CutBy, Whole, Typed, TypeInv
      <4> HIDE DEF n
      <4>2. Whole("index") => Paired(cuts', disk["index"], disk["meta"])
        BY <3>1, <4>1, CutPaired DEF ShelfInv
      <4>3. \A k \in cuts' : k <= Len(disk["meta"])
        BY <3>1, <4>1 DEF ShelfInv, n
      <4> QED BY <1>2, <3>1, <4>1, <4>2, <4>3 DEF ShelfInv
    <3>3. CASE cuts' = cuts
      BY <1>2, <3>1, <3>3 DEF ShelfInv
    <3> QED BY <3>2, <3>3
  <2>3. ASSUME NEW q \in Process
        PROVE  UserInv(q)'
    <3>1. CASE q = p
      BY <1>3, <3>1 DEF UserInv
    <3>2. CASE q # p /\ Using(q)
      <4>1. /\ proc'[q] = proc[q] /\ AtIndex(q)' = AtIndex(q) /\ AtMeta(q)' = AtMeta(q)
            /\ UserInv(q)
        BY <1>5, <3>2, Others DEF StoreInv, SerialInv
      <4>2. ~Using(p)
        BY <1>5, <3>2 DEF StoreInv, SerialInv
      <4>3. cuts' = cuts /\ (killed' = 0 => killed = 0)
        BY <4>2 DEF CutBy, Using
      <4>4. AtRest => AtRest'
        BY <1>2, <4>3 DEF AtRest
      <4>5. proc'[q].pc = "reading" => Whole("meta")' /\ proc'[q].meta = disk'["meta"] /\ AtRest'
        BY <1>2, <4>1, <4>4 DEF UserInv
      <4> QED BY <1>2, <4>1, <4>3, <4>5 DEF UserInv
    <3>3. CASE q # p /\ ~Using(q)
      <4>1. ~Using(q)'
        BY <3>3, Others
      <4> QED BY <4>1 DEF UserInv, Using
    <3> QED BY <3>1, <3>2, <3>3
  <2>4. ASSUME \A q \in Process : ~Using(q)'
        PROVE  AtRest'
    <3>1. CASE ~Using(p)
      <4>1. \A q \in Process : ~Using(q)
        BY <2>4, <3>1, Others
      <4>2. cuts' = cuts /\ AtRest /\ (killed' = 0 => killed = 0)
        BY <1>5, <3>1, <4>1 DEF StoreInv, SerialInv, CutBy, Using
      <4> QED BY <1>2, <4>2 DEF AtRest
    <3>2. CASE proc[p].pc = "reading"
      <4>1. AtRest
        BY <1>5, <3>2 DEF StoreInv, SerialInv, UserInv
      <4>2. cuts' = cuts /\ (killed' = 0 => killed = 0)
        BY <3>2 DEF CutBy
      <4> QED BY <1>2, <4>1, <4>2 DEF AtRest
    <3>3. CASE AtIndex(p) \/ AtMeta(p)
      <4>1. killed' # 0 /\ UserInv(p)
        BY <1>5, <3>3 DEF StoreInv, SerialInv
      <4>2. Whole("index") /\ Whole("meta") /\ cuts' = {} => disk["index"] = disk["meta"]
        <5> SUFFICES ASSUME Whole("index"), Whole("meta"), cuts' = {}
                     PROVE  disk["index"] = disk["meta"]
          OBVIOUS
        <5>1. cuts' = cuts /\ (AtMeta(p) => proc[p].pc = "opened")
          BY DEF CutBy
        <5>2. ~AtMeta(p)
          BY <4>1, <5>1 DEF UserInv
        <5> QED BY <3>3, <4>1, <5>1, <5>2 DEF UserInv
      <4> QED BY <1>2, <4>1, <4>2 DEF AtRest
    <3> QED BY <3>1, <3>2, <3>3 DEF Using
  <2> QED BY <1>5, <2>1, <2>2, <2>3, <2>4 DEF StoreInv, SerialInv
<1>6. SerialInv'
  BY <1>5 DEF SerialInv
<1> QED BY <1>1, <1>4, <1>6 DEF StoreInv

(* A step of p in the store: nobody else uses it.                          *)
LEMMA SoleUser ==
  ASSUME NEW p \in Process, Alone(p), \A q \in Process : q # p => ~Using(q),
         ShelfInv', UserInv(p)',
         ~Using(p)' => AtRest'
  PROVE  SerialInv'
<1>1. \A q \in Process : q # p => ~Using(q)'
  BY Others
<1>2. \A q \in Process : q # p => UserInv(q)'
  BY <1>1 DEF Using, UserInv
<1>3. \A q \in Process : UserInv(q)'
  BY <1>2
<1> QED BY <1>1, <1>3 DEF SerialInv

LEMMA FilesKept ==
  ASSUME FilesInv, NEW p \in Process, Alone(p),
         disk["index"] # Absent => disk'["index"] # Absent,
         disk["meta"] # Absent => disk'["meta"] # Absent,
         disk'["index"] = Absent => disk'["meta"] = Absent,
         disk'["meta"] = Absent => answered' = answered /\ disk["meta"] = Absent,
         cuts' = cuts,
         proc'[p].pc = "reading" => disk'["index"] # Absent /\ disk'["meta"] # Absent,
         AtMeta(p)' => disk'["index"] # Absent
  PROVE  FilesInv'
<1>1. ASSUME NEW q \in Process
      PROVE  /\ proc'[q].pc = "reading" => disk'["index"] # Absent /\ disk'["meta"] # Absent
             /\ AtMeta(q)' => disk'["index"] # Absent
  <2>1. CASE q = p
    BY <2>1
  <2>2. CASE q # p
    BY <2>2, Others DEF FilesInv
  <2> QED BY <2>1, <2>2
<1> QED BY <1>1 DEF FilesInv

LEMMA NobodyElse ==
  ASSUME Typed, NEW p \in Process, NoteOverlap(p), ~overlapped'
  PROVE  ~overlapped /\ \A q \in Process : q # p => ~Using(q)
<1>1. ~overlapped /\ \A q \in Process \ {p} : ~InStore(q)
  BY DEF NoteOverlap
<1>2. \A q \in Process : InStore(q) <=> Using(q)
  BY Phases DEF Using
<1> QED BY <1>1, <1>2

LEMMA StillAlone ==
  ASSUME StoreInv, ~overlapped, NEW p \in Process, Using(p)
  PROVE  ShelfInv /\ UserInv(p) /\ \A q \in Process : q # p => ~Using(q)
BY DEF StoreInv, SerialInv

LEMMA LoadNewStores ==
  ASSUME Typed, StoreInv, NEW p \in Process, LoadNew(p)
  PROVE  Typed' /\ StoreInv' /\ Alone(p) /\ AtIndex(p)'
<1> DEFINE b == proc[p].batch
           new == <<>> \o Fresh(b, <<>>)
<1>1. /\ Absent \in {disk["index"], disk["meta"]} /\ Add(p, <<>>, <<>>) /\ NoteOverlap(p)
      /\ UNCHANGED <<disk, killed, written, answered, cuts>>
  BY DEF LoadNew
<1>2. <<>> \in Seq(Article)
  OBVIOUS
<1>3. /\ Typed' /\ Alone(p) /\ AtIndex(p)' /\ proc'[p].pc = "writing" /\ proc'[p].batch = b
      /\ proc'[p].index = new /\ proc'[p].meta = new
  BY <1>1, <1>2, AddEffect
<1>4. b \in SUBSET Article
  BY LocalsOf DEF Typed
<1>5. ToSet(new) = ToSet(<<>>) \union b /\ IsInjective(new)
  <2>1. IsInjective(<<>>)
    BY DEF IsInjective
  <2> HIDE DEF b
  <2> QED BY <1>2, <1>4, <2>1, Records
<1> HIDE DEF b, new
<1>6. disk["meta"] = Absent /\ answered = {} /\ cuts = {}
  BY <1>1 DEF StoreInv, FilesInv
<1>7. RecordsInv'
  BY <1>1, <1>3, <1>5, RecordsKept DEF StoreInv
<1>8. ~AtMeta(p)'
  BY <1>3 DEF AtIndex, AtMeta
<1>9. FilesInv'
  BY <1>1, <1>3, <1>6, <1>8, FilesKept DEF StoreInv, FilesInv
<1>10. ASSUME ~overlapped'
       PROVE  SerialInv'
  <2>1. \A q \in Process : q # p => ~Using(q)
    BY <1>1, <1>10, NobodyElse
  <2>2. ~Whole("meta")'
    BY <1>1, <1>6 DEF Whole
  <2>3. ShelfInv'
    BY <2>2 DEF ShelfInv
  <2>6. Paired({}, new, new) /\ Reach({}, new, new)
    BY DEF Paired, Reach
  <2>7. proc'[p].pc # "reading"
    BY <1>3
  <2>4. UserInv(p)'
    BY <1>1, <1>3, <1>5, <1>6, <1>8, <2>2, <2>6, <2>7 DEF UserInv
  <2>5. Using(p)'
    BY <1>3 DEF Using
  <2> QED BY <1>3, <2>1, <2>3, <2>4, <2>5, SoleUser
<1>11. SerialInv'
  BY <1>10 DEF SerialInv
<1> QED BY <1>3, <1>7, <1>9, <1>11 DEF StoreInv

LEMMA LoadMetaStores ==
  ASSUME Typed, StoreInv, NEW p \in Process, LoadMeta(p)
  PROVE  StoreInv'
<1>1. /\ Typed' /\ Alone(p) /\ proc[p].pc = "loading" /\ proc'[p].pc = "reading"
      /\ disk["index"] # Absent /\ Whole("meta") /\ proc'[p].meta = disk["meta"]
      /\ UNCHANGED <<disk, killed, written, answered, cuts>> /\ NoteOverlap(p)
  BY LoadMetaEffect
<1>2. /\ ~AtIndex(p) /\ ~AtMeta(p) /\ ~AtIndex(p)' /\ ~AtMeta(p)' /\ ~Using(p) /\ Using(p)'
  BY <1>1, PhasesApart DEF Using
<1>3. IsInjective(disk["meta"])
  BY <1>1 DEF StoreInv, RecordsInv
<1>4. RecordsInv'
  BY <1>1, <1>3, RecordsKept DEF StoreInv
<1>5. FilesInv'
  BY <1>1, <1>2, FilesKept DEF StoreInv, FilesInv, Whole
<1>6. ASSUME ~overlapped'
      PROVE  SerialInv'
  <2>1. ~overlapped /\ \A q \in Process : q # p => ~Using(q)
    BY <1>1, <1>6, NobodyElse
  <2>2. ShelfInv'
    BY <1>1, <2>1 DEF StoreInv, SerialInv, ShelfInv, Whole
  <2>3. AtRest
    BY <1>2, <2>1 DEF StoreInv, SerialInv
  <2>5. AtRest'
    BY <1>1, <2>3 DEF AtRest, Whole
  <2>4. UserInv(p)'
    BY <1>1, <1>2, <2>5 DEF UserInv, Whole
  <2> QED BY <1>1, <1>2, <2>1, <2>2, <2>4, SoleUser
<1>7. SerialInv'
  BY <1>6 DEF SerialInv
<1> QED BY <1>4, <1>5, <1>7 DEF StoreInv

LEMMA LoadIndexStores ==
  ASSUME Typed, StoreInv, NEW p \in Process, LoadIndex(p)
  PROVE  Typed' /\ StoreInv' /\ Alone(p) /\ AtIndex(p)'
<1> DEFINE b == proc[p].batch
           i == disk["index"]
           m == proc[p].meta
           new == Fresh(b, m)
<1>1. /\ proc[p].pc = "reading" /\ i # Torn /\ Add(p, i, m)
      /\ UNCHANGED <<disk, killed, written, answered, overlapped, cuts>>
  BY DEF LoadIndex
<1>2. i # Absent
  BY <1>1 DEF StoreInv, FilesInv
<1>3. i \in Seq(Article) /\ m \in Seq(Article) /\ b \in SUBSET Article /\ Whole("index")
  BY <1>1, <1>2, LocalsOf DEF Typed, TypeInv, Whole
<1>4. /\ Typed' /\ Alone(p) /\ AtIndex(p)' /\ proc'[p].pc = "writing" /\ proc'[p].batch = b
      /\ proc'[p].index = i \o new /\ proc'[p].meta = m \o new
  BY <1>1, <1>3, AddEffect
<1>5. IsInjective(m)
  BY DEF StoreInv, RecordsInv
<1> HIDE DEF b, i, m
<1>6. /\ new \in Seq(Article) /\ ToSet(new) = b \ ToSet(m)
      /\ ToSet(m \o new) = ToSet(m) \union b /\ IsInjective(m \o new)
  BY <1>3, <1>5, FreshArticles, Records
<1> HIDE DEF new
<1>8. RecordsInv'
  BY <1>1, <1>4, <1>6, RecordsKept DEF StoreInv
<1>9. ~AtMeta(p)' /\ proc'[p].pc # "reading" /\ ~AtMeta(p) /\ Using(p) /\ Using(p)'
  BY <1>1, <1>4 DEF AtIndex, AtMeta, Saving, Using
<1>10. FilesInv'
  BY <1>1, <1>4, <1>9, FilesKept DEF StoreInv, FilesInv
<1>11. ASSUME ~overlapped
       PROVE  SerialInv'
  <2>1. ShelfInv /\ UserInv(p) /\ \A q \in Process : q # p => ~Using(q)
    BY <1>9, <1>11, StillAlone
  <2>2. Whole("meta") /\ m = disk["meta"] /\ (killed = 0 => i = m) /\ (cuts = {} => i = m)
    BY <1>1, <1>3, <2>1 DEF UserInv, AtRest, i, m
  <2>3. Paired(cuts, i, m) /\ Reach(cuts, i, m) /\ answered \subseteq ToSet(m)
    BY <1>3, <2>1, <2>2 DEF ShelfInv, Reach, i
  <2>6. cuts \in SUBSET Nat
    BY DEF Typed, TypeInv
  <2>7. /\ Paired(cuts, i \o new, m \o new) /\ Reach(cuts, i \o new, m \o new)
        /\ Prolongs(m \o new, m)
    BY <1>3, <1>6, <2>3, <2>6, Grown
  <2>8. cuts = {} => disk["index"] = disk["meta"]
    BY <2>2 DEF i
  <2>4. ShelfInv'
    BY <1>1, <2>1 DEF ShelfInv, Whole
  <2>9. answered \union b \subseteq ToSet(m \o new)
    BY <1>6, <2>3
  <2>5. UserInv(p)'
    BY <1>1, <1>4, <1>9, <2>2, <2>7, <2>8, <2>9 DEF UserInv, Whole
  <2> QED BY <1>4, <1>9, <2>1, <2>4, <2>5, SoleUser
<1>12. SerialInv'
  BY <1>1, <1>11 DEF SerialInv
<1> QED BY <1>4, <1>8, <1>10, <1>12 DEF StoreInv

LEMMA OpenStores ==
  ASSUME Typed, StoreInv, NEW p \in Process, Open(p)
  PROVE  StoreInv'
<1> DEFINE f == Head(proc[p].todo)
<1>1. /\ Typed' /\ Alone(p) /\ Saving(p) /\ Written(f, Torn) /\ proc'[p].pc = "opened"
      /\ proc'[p].batch = proc[p].batch
      /\ proc'[p].index = proc[p].index /\ proc'[p].meta = proc[p].meta
      /\ AtIndex(p)' = AtIndex(p) /\ AtMeta(p)' = AtMeta(p)
      /\ UNCHANGED <<killed, answered, overlapped, cuts>>
  BY OpenEffect
<1>2. /\ AtCheckpoint(p) \/ AtStamp(p) \/ AtIndex(p) \/ AtMeta(p)
      /\ proc[p].pc # "reading" /\ proc'[p].pc # "reading"
  BY <1>1, NextFile DEF Saving
<1>3. {"index", "meta"} \subseteq File /\ Torn # Absent
  BY ConstantsAssumption DEF File
<1>4. IsInjective(proc'[p].meta)
  BY <1>1 DEF StoreInv, RecordsInv
<1>5. CASE AtCheckpoint(p) \/ AtStamp(p)
  <2>1. f \notin {"index", "meta"}
    <3>1. AtStamp(p) => proc[p].stamp \in Stamp
      BY DEF AtStamp
    <3> QED BY <1>5, <3>1, Phases, ConstantsAssumption
  <2>2. disk'["index"] = disk["index"] /\ disk'["meta"] = disk["meta"]
    BY <1>1, <1>3, <2>1 DEF Written
  <2>3. ~AtIndex(p) /\ ~AtMeta(p) /\ ~Using(p)'
    BY <1>1, <1>2, <1>5, PhasesApart DEF Using
  <2> QED BY <1>1, <1>4, <2>2, <2>3, StoreLeft
<1>6. CASE AtIndex(p)
  <2>1. f = "index" /\ ~AtMeta(p) /\ Using(p) /\ Using(p)'
    BY <1>1, <1>6, Phases DEF Using
  <2>2. disk'["index"] = Torn /\ disk'["meta"] = disk["meta"]
    BY <1>1, <1>3, <2>1 DEF Written
  <2>3. RecordsInv'
    BY <1>1, <1>4, <2>2, RecordsKept DEF StoreInv
  <2>4. FilesInv'
    BY <1>1, <1>2, <1>3, <2>1, <2>2, FilesKept DEF StoreInv
  <2>5. ASSUME ~overlapped
        PROVE  SerialInv'
    <3>1. ShelfInv /\ UserInv(p) /\ \A q \in Process : q # p => ~Using(q)
      BY <2>1, <2>5, StillAlone
    <3>2. ~Whole("index")' /\ Whole("meta")' = Whole("meta")
      BY <2>2 DEF Whole
    <3>3. ShelfInv'
      BY <1>1, <2>2, <3>1, <3>2 DEF ShelfInv
    <3>4. UserInv(p)'
      BY <1>1, <1>2, <1>6, <2>1, <2>2, <3>1, <3>2 DEF UserInv
    <3> QED BY <1>1, <2>1, <3>1, <3>3, <3>4, SoleUser
  <2>6. SerialInv'
    BY <1>1, <2>5 DEF SerialInv
  <2> QED BY <2>3, <2>4, <2>6 DEF StoreInv
<1>7. CASE AtMeta(p)
  <2>1. f = "meta" /\ Using(p) /\ Using(p)' /\ disk["index"] # Absent
    BY <1>1, <1>7, Phases DEF Using, StoreInv, FilesInv
  <2>2. disk'["meta"] = Torn /\ disk'["index"] = disk["index"]
    BY <1>1, <1>3, <2>1 DEF Written
  <2>3. RecordsInv'
    BY <1>1, <1>4, <2>2, RecordsKept DEF StoreInv
  <2>4. FilesInv'
    BY <1>1, <1>2, <1>3, <2>1, <2>2, FilesKept DEF StoreInv
  <2>5. ASSUME ~overlapped
        PROVE  SerialInv'
    <3>1. ShelfInv /\ UserInv(p) /\ \A q \in Process : q # p => ~Using(q)
      BY <2>1, <2>5, StillAlone
    <3>2. ~Whole("meta")'
      BY <2>2 DEF Whole
    <3>3. ShelfInv'
      BY <3>2 DEF ShelfInv
    <3>4. UserInv(p)'
      BY <1>1, <1>2, <1>7, <2>2, <3>1, <3>2 DEF UserInv
    <3> QED BY <1>1, <2>1, <3>1, <3>3, <3>4, SoleUser
  <2>6. SerialInv'
    BY <1>1, <2>5 DEF SerialInv
  <2> QED BY <2>3, <2>4, <2>6 DEF StoreInv
<1> QED BY <1>2, <1>5, <1>6, <1>7

LEMMA WriteIndexStores ==
  ASSUME ContentsTold, Typed, StoreInv, NEW p \in Process, Write(p), AtIndex(p)
  PROVE  StoreInv'
<1> DEFINE i == proc[p].index
<1>1. /\ Typed' /\ Alone(p) /\ Written("index", i)
      /\ AtMeta(p)' /\ proc'[p].pc = "writing" /\ proc'[p].batch = proc[p].batch
      /\ proc'[p].index = i /\ proc'[p].meta = proc[p].meta
      /\ UNCHANGED <<killed, answered, overlapped, cuts>>
  BY WriteIndex
<1>2. disk'["index"] = i /\ disk'["meta"] = disk["meta"] /\ i \notin {Absent, Torn}
  <2>1. i \in Seq(Article)
    BY LocalsOf DEF Typed
  <2> QED BY <1>1, <2>1 DEF Written, File, ContentsTold
<1>3. IsInjective(proc'[p].meta)
  BY <1>1 DEF StoreInv, RecordsInv
<1>4. RecordsInv'
  BY <1>1, <1>2, <1>3, RecordsKept DEF StoreInv
<1>5. FilesInv'
  BY <1>1, <1>2, FilesKept DEF StoreInv
<1>6. Using(p) /\ Using(p)'
  BY <1>1 DEF Using
<1>7. ASSUME ~overlapped
      PROVE  SerialInv'
  <2>1. ShelfInv /\ UserInv(p) /\ \A q \in Process : q # p => ~Using(q)
    BY <1>6, <1>7, StillAlone
  <2>2. Whole("index")' /\ Whole("meta")' = Whole("meta")
    BY <1>2 DEF Whole
  <2>5. /\ Paired(cuts, i, proc[p].meta) /\ Reach(cuts, i, proc[p].meta)
        /\ Whole("meta") => Prolongs(proc[p].meta, disk["meta"])
        /\ answered \union proc[p].batch \subseteq ToSet(proc[p].meta)
        /\ killed = 0 => i = proc[p].meta
    BY <2>1 DEF UserInv
  <2>6. Whole("meta") => Paired(cuts, i, disk["meta"])
    BY <2>5, PairedBefore
  <2>3. ShelfInv'
    BY <1>1, <1>2, <2>1, <2>2, <2>6 DEF ShelfInv
  <2>7. ~AtIndex(p)' /\ proc'[p].pc # "reading" /\ proc'[p].pc # "opened"
    BY <1>1 DEF AtIndex, AtMeta
  <2>4. UserInv(p)'
    BY <1>1, <1>2, <2>2, <2>5, <2>7 DEF UserInv
  <2> QED BY <1>1, <1>6, <2>1, <2>3, <2>4, SoleUser
<1>8. SerialInv'
  BY <1>1, <1>7 DEF SerialInv
<1> QED BY <1>4, <1>5, <1>8 DEF StoreInv

LEMMA WriteMetaStores ==
  ASSUME ContentsTold, Typed, StoreInv, NEW p \in Process, Write(p), AtMeta(p)
  PROVE  StoreInv'
<1> DEFINE m == proc[p].meta
<1>1. /\ Typed' /\ Alone(p) /\ Written("meta", m)
      /\ proc'[p].pc = "idle" /\ proc'[p].meta = <<>>
      /\ answered' = answered \union proc[p].batch /\ UNCHANGED <<killed, overlapped, cuts>>
  BY WriteMeta
<1>2. disk'["meta"] = m /\ disk'["index"] = disk["index"] /\ m \notin {Absent, Torn}
  <2>1. m \in Seq(Article)
    BY LocalsOf DEF Typed
  <2> QED BY <1>1, <2>1 DEF Written, File, ContentsTold
<1>3. IsInjective(proc'[p].meta)
  BY <1>1 DEF IsInjective
<1>4. RecordsInv'
  BY <1>1, <1>2, <1>3, RecordsKept DEF StoreInv
<1>5. ~AtMeta(p)' /\ ~AtIndex(p)' /\ ~Using(p)' /\ Using(p) /\ disk["index"] # Absent
  BY <1>1, PhasesApart DEF Using, StoreInv, FilesInv
<1>6. FilesInv'
  BY <1>1, <1>2, <1>5, FilesKept DEF StoreInv
<1>7. ASSUME ~overlapped
      PROVE  SerialInv'
  <2>1. ShelfInv /\ UserInv(p) /\ \A q \in Process : q # p => ~Using(q)
    BY <1>5, <1>7, StillAlone
  <2>2. Whole("meta")' /\ Whole("index")' = Whole("index")
    BY <1>2 DEF Whole
  <2>6. /\ disk["index"] = proc[p].index
        /\ Paired(cuts, disk["index"], m) /\ Reach(cuts, disk["index"], m)
        /\ answered \union proc[p].batch \subseteq ToSet(m)
        /\ killed = 0 => disk["index"] = m
    BY <2>1 DEF UserInv
  <2>3. ShelfInv'
    BY <1>1, <1>2, <2>2, <2>6 DEF ShelfInv, Reach
  <2>4. UserInv(p)'
    BY <1>1, <1>5 DEF UserInv
  <2>5. AtRest'
    BY <1>1, <1>2, <2>6 DEF AtRest, Reach
  <2> QED BY <1>1, <2>1, <2>3, <2>4, <2>5, SoleUser
<1>8. SerialInv'
  BY <1>1, <1>7 DEF SerialInv
<1> QED BY <1>4, <1>6, <1>8 DEF StoreInv

-----------------------------------------------------------------------------
(* The invariants hold initially and are kept by every step.               *)

LEMMA InitTyped == Init => Typed
<1> SUFFICES ASSUME Init PROVE Typed
  OBVIOUS
<1>1. proc = [p \in Process |-> Idle] /\ disk = [f \in File |-> Absent]
  BY DEF Init
<1>2. TypeInv
  BY <1>1, IdleTyped DEF Init, TypeInv, File
<1>3. \A p \in Process : proc[p].pc = "idle"
  BY <1>1, IdleTyped
<1> QED BY <1>2, <1>3 DEF Typed, Shape, Saving

LEMMA InitDelivers == Init => DeliveryInv
<1> SUFFICES ASSUME Init PROVE DeliveryInv
  OBVIOUS
<1>1. proc = [p \in Process |-> Idle] /\ disk["checkpoint"] = Absent
  BY DEF Init, File
<1>2. Delivered = {} /\ \A a \in Article : written[a] \in {0, 1}
  BY DEF Init, Delivered
<1>3. \A c \in Collector : RunInv(c)
  BY <1>1, IdleTyped, PhasesApart DEF RunInv, Process
<1> QED BY <1>1, <1>2, <1>3 DEF DeliveryInv, OneOfATitle, Whole

LEMMA InitStores == Init => StoreInv
<1> SUFFICES ASSUME Init PROVE StoreInv
  OBVIOUS
<1>1. /\ proc = [p \in Process |-> Idle] /\ disk["index"] = Absent /\ disk["meta"] = Absent
      /\ answered = {} /\ cuts = {}
  BY DEF Init, File
<1>2. \A p \in Process : proc[p].pc = "idle" /\ proc[p].meta = <<>>
  BY <1>1, IdleTyped
<1>3. \A p \in Process : ~AtIndex(p) /\ ~AtMeta(p) /\ ~Using(p) /\ proc[p].pc # "reading"
  BY <1>2, PhasesApart DEF Using
<1>4. \A p \in Process : IsInjective(proc[p].meta)
  BY <1>2 DEF IsInjective
<1>5. RecordsInv
  BY <1>1, <1>4 DEF RecordsInv, Whole
<1>6. FilesInv
  BY <1>1, <1>3 DEF FilesInv
<1>7. SerialInv
  BY <1>1, <1>3 DEF SerialInv, ShelfInv, UserInv, AtRest, Whole
<1> QED BY <1>5, <1>6, <1>7 DEF StoreInv

(* Which write a process is at.                                            *)
LEMMA WriteCases ==
  ASSUME Typed, NEW p \in Process, Write(p)
  PROVE  AtCheckpoint(p) \/ AtStamp(p) \/ AtIndex(p) \/ AtMeta(p)
<1>1. Saving(p)
  BY DEF Write, Saving
<1> QED BY <1>1, NextFile

LEMMA StepStores == ContentsTold /\ Typed /\ StoreInv /\ [Next]_vars => Typed' /\ StoreInv'
<1> SUFFICES ASSUME ContentsTold, Typed, StoreInv, [Next]_vars PROVE Typed' /\ StoreInv'
  OBVIOUS
<1> DEFINE Kept == Typed' /\ StoreInv'
<1>0. /\ Collector \subseteq Process /\ Sync \subseteq Process /\ IsInjective(<<>>)
      /\ "index" \in File /\ "meta" \in File
      /\ \A p \in Process : IsInjective(proc[p].meta)
  BY DEF Process, IsInjective, File, StoreInv, RecordsInv
<1>1. ASSUME NEW c \in Collector, NEW stamp \in Stamp, Collect(c, stamp)
      PROVE  Kept
  <2>1. /\ Typed' /\ Alone(c) /\ proc[c].pc = "idle" /\ proc'[c].pc = "fetching" /\ proc'[c].meta = <<>>
        /\ UNCHANGED <<disk, killed, answered, overlapped, cuts>>
    BY <1>1, CollectEffect
  <2>2. ~AtIndex(c) /\ ~AtMeta(c) /\ ~Using(c)'
    BY <1>0, <2>1, PhasesApart DEF Using
  <2> QED BY <1>0, <2>1, <2>2, StoreLeft
<1>2. ASSUME NEW c \in Collector, NEW raw \in SUBSET Article, NEW A \in SUBSET Article, Fetch(c, raw, A)
      PROVE  Kept
  <2>1. /\ Typed' /\ Alone(c) /\ proc[c].pc = "fetching" /\ AtCheckpoint(c)' /\ proc'[c].pc = "writing"
        /\ proc'[c].meta = proc[c].meta /\ UNCHANGED <<disk, killed, answered, overlapped, cuts>>
    BY <1>2, FetchEffect
  <2>2. ~AtIndex(c) /\ ~AtMeta(c) /\ ~Using(c)'
    BY <1>0, <2>1, PhasesApart DEF Using
  <2> QED BY <1>0, <2>1, <2>2, StoreLeft
<1>3. ASSUME NEW c \in Collector, FetchDegraded(c)
      PROVE  Kept
  <2>1. /\ Typed' /\ Alone(c) /\ proc[c].pc = "fetching" /\ AtCheckpoint(c)' /\ proc'[c].pc = "writing"
        /\ proc'[c].meta = proc[c].meta /\ UNCHANGED <<disk, killed, answered, overlapped, cuts>>
    BY <1>3, FetchDegradedEffect
  <2>2. ~AtIndex(c) /\ ~AtMeta(c) /\ ~Using(c)'
    BY <1>0, <2>1, PhasesApart DEF Using
  <2> QED BY <1>0, <2>1, <2>2, StoreLeft
<1>4. ASSUME NEW s \in Sync, NEW A \in SUBSET Article, SyncNews(s, A)
      PROVE  Kept
  <2>1. /\ Typed' /\ Alone(s) /\ proc[s].pc = "idle" /\ proc'[s].pc = "loading" /\ proc'[s].meta = <<>>
        /\ UNCHANGED <<disk, killed, answered, overlapped, cuts>>
    BY <1>4, SyncEffect
  <2>2. ~AtIndex(s) /\ ~AtMeta(s) /\ ~Using(s)'
    BY <1>0, <2>1, PhasesApart DEF Using
  <2> QED BY <1>0, <2>1, <2>2, StoreLeft
<1>5. ASSUME NEW p \in Process, LoadNew(p)
      PROVE  Kept
  BY <1>5, LoadNewStores
<1>6. ASSUME NEW p \in Process, LoadMeta(p)
      PROVE  Kept
  BY <1>6, LoadMetaEffect, LoadMetaStores
<1>7. ASSUME NEW p \in Process, LoadIndex(p)
      PROVE  Kept
  BY <1>7, LoadIndexStores
<1>8. ASSUME NEW p \in Process, LoadRaises(p)
      PROVE  Kept
  <2>1. /\ Typed' /\ Alone(p) /\ proc[p].pc \in {"loading", "reading"} /\ proc'[p].pc = "idle"
        /\ proc'[p].meta = <<>> /\ UNCHANGED <<disk, killed, answered, overlapped, cuts>>
    BY <1>8, LoadRaisesEffect
  <2>2. ~AtIndex(p) /\ ~AtMeta(p) /\ ~Using(p)'
    BY <2>1, PhasesApart DEF Using
  <2> QED BY <1>0, <2>1, <2>2, StoreLeft
<1>9. ASSUME NEW p \in Process, Open(p)
      PROVE  Kept
  BY <1>9, OpenEffect, OpenStores
<1>10. ASSUME NEW p \in Process, Write(p)
       PROVE  Kept
  <2>1. CASE AtCheckpoint(p)
    <3>1. /\ Typed' /\ Alone(p) /\ Written("checkpoint", proc[p].seen)
          /\ \/ proc'[p].pc = "idle" /\ proc'[p].meta = <<>>
             \/ AtStamp(p)' /\ proc'[p].pc = "writing" /\ proc'[p].meta = proc[p].meta
          /\ UNCHANGED <<killed, answered, overlapped, cuts>>
      BY <1>10, <2>1, WriteCheckpoint
    <3>2. disk'["index"] = disk["index"] /\ disk'["meta"] = disk["meta"]
      BY <1>0, <3>1 DEF Written
    <3>3. ~AtIndex(p) /\ ~AtMeta(p) /\ ~AtIndex(p)' /\ ~AtMeta(p)'
      BY <2>1, <3>1, PhasesApart
    <3>4. ~Using(p)' /\ IsInjective(proc'[p].meta)
      BY <1>0, <3>1, <3>3 DEF Using
    <3> QED BY <3>1, <3>2, <3>3, <3>4, StoreLeft
  <2>2. CASE AtStamp(p)
    <3>1. /\ Typed' /\ Alone(p) /\ Written(proc[p].stamp, proc[p].batch)
          /\ proc'[p].pc = "loading" /\ proc'[p].meta = proc[p].meta
          /\ UNCHANGED <<killed, answered, overlapped, cuts>>
      BY <1>10, <2>2, WriteSnapshot
    <3>2. proc[p].stamp \notin {"index", "meta"}
      BY <2>2, ConstantsAssumption DEF AtStamp
    <3>3. disk'["index"] = disk["index"] /\ disk'["meta"] = disk["meta"]
      BY <1>0, <3>1, <3>2 DEF Written
    <3>4. ~AtIndex(p) /\ ~AtMeta(p) /\ ~Using(p)'
      BY <2>2, <3>1, PhasesApart DEF Using
    <3> QED BY <1>0, <3>1, <3>3, <3>4, StoreLeft
  <2>3. CASE AtIndex(p)
    BY <1>10, <2>3, WriteIndex, WriteIndexStores
  <2>4. CASE AtMeta(p)
    BY <1>10, <2>4, WriteMeta, WriteMetaStores
  <2> QED BY <1>10, <2>1, <2>2, <2>3, <2>4, WriteCases
<1>11. ASSUME NEW p \in Process, Kill(p)
       PROVE  Kept
  <2>1. /\ Typed' /\ Alone(p) /\ proc'[p].pc = "idle" /\ proc'[p].meta = <<>> /\ killed' # 0
        /\ UNCHANGED <<disk, answered, overlapped>>
        /\ \/ CutBy(p)
           \/ cuts' = cuts /\ (AtMeta(p) => proc[p].pc = "opened" \/ ~Whole("meta"))
    BY <1>11, KillEffect
  <2>2. ~Using(p)'
    BY <2>1, PhasesApart DEF Using
  <2> QED BY <1>0, <2>1, <2>2, StoreLeft
<1>12. CASE UNCHANGED vars
  <2>1. Typed'
    BY <1>12 DEF vars, Typed, TypeInv, Shape, Saving, AtCheckpoint, AtStamp, AtIndex, AtMeta
  <2>2. RecordsInv' /\ FilesInv'
    BY <1>12 DEF vars, StoreInv, RecordsInv, FilesInv, Whole, AtMeta, Saving
  <2>3. SerialInv'
    BY <1>12 DEF vars, StoreInv, SerialInv, ShelfInv, UserInv, AtRest, Using, Whole, AtIndex, AtMeta, Saving
  <2> QED BY <2>1, <2>2, <2>3 DEF StoreInv
<1>13. CASE Next
  <2>1. CASE \E c \in Collector : \E raw \in SUBSET Article : \E A \in SUBSET raw : Fetch(c, raw, A)
    <3>1. PICK c \in Collector, raw \in SUBSET Article : \E A \in SUBSET raw : Fetch(c, raw, A)
      BY <2>1
    <3>2. PICK A \in SUBSET raw : Fetch(c, raw, A)
      BY <3>1
    <3>3. A \in SUBSET Article
      OBVIOUS
    <3> QED BY <1>2, <3>2, <3>3
  <2>2. CASE \E c \in Collector : (\E stamp \in Stamp : Collect(c, stamp)) \/ FetchDegraded(c)
    BY <1>1, <1>3, <2>2
  <2>3. CASE \E s \in Sync, A \in SUBSET Article : SyncNews(s, A)
    BY <1>4, <2>3
  <2>4. CASE \E p \in Process :
               \/ LoadNew(p) \/ LoadMeta(p) \/ LoadIndex(p) \/ LoadRaises(p)
               \/ Open(p) \/ Write(p) \/ Kill(p)
    BY <1>5, <1>6, <1>7, <1>8, <1>9, <1>10, <1>11, <2>4
  <2> QED BY <1>13, <2>1, <2>2, <2>3, <2>4 DEF Next
<1> QED BY <1>12, <1>13

LEMMA StepDelivers ==
  ASSUME OneCollector, Typed, StoreInv, DeliveryInv, [Next]_vars
  PROVE  DeliveryInv'
<1>0. Collector \subseteq Process /\ Sync \subseteq Process
  BY DEF Process
<1>1. ASSUME NEW c \in Collector, NEW stamp \in Stamp, Collect(c, stamp)
      PROVE  DeliveryInv'
  BY <1>1, CollectDelivers
<1>2. ASSUME NEW c \in Collector, NEW raw \in SUBSET Article, NEW A \in SUBSET Article, Fetch(c, raw, A)
      PROVE  DeliveryInv'
  BY <1>2, FetchDelivers
<1>3. ASSUME NEW c \in Collector, FetchDegraded(c)
      PROVE  DeliveryInv'
  BY <1>3, FetchDegradedDelivers
<1>4. ASSUME NEW s \in Sync, NEW A \in SUBSET Article, SyncNews(s, A)
      PROVE  DeliveryInv'
  <2>1. Alone(s) /\ proc'[s].pc = "loading" /\ UNCHANGED <<disk, written>>
    BY <1>4, SyncEffect
  <2> QED BY <1>0, <2>1, PhasesApart, DeliveryElsewhere
<1>5. ASSUME NEW p \in Process, LoadNew(p) \/ LoadIndex(p)
      PROVE  DeliveryInv'
  <2>1. Alone(p) /\ AtIndex(p)' /\ disk' = disk /\ written' = written
    BY <1>5, LoadNewStores, LoadIndexStores DEF LoadNew, LoadIndex
  <2>2. proc'[p].pc # "fetching"
    BY <2>1 DEF AtIndex, Saving
  <2> QED BY <2>1, <2>2, PhasesApart, DeliveryElsewhere
<1>6. ASSUME NEW p \in Process, LoadMeta(p)
      PROVE  DeliveryInv'
  <2>1. Alone(p) /\ proc'[p].pc = "reading" /\ disk' = disk /\ written' = written
    BY <1>6, LoadMetaEffect
  <2> QED BY <2>1, PhasesApart, DeliveryElsewhere
<1>7. ASSUME NEW p \in Process, LoadRaises(p)
      PROVE  DeliveryInv'
  <2>1. Alone(p) /\ proc'[p].pc = "idle" /\ disk' = disk /\ written' = written
    BY <1>7, LoadRaisesEffect
  <2> QED BY <2>1, PhasesApart, DeliveryElsewhere
<1>8. ASSUME NEW p \in Process, Open(p)
      PROVE  DeliveryInv'
  BY <1>8, OpenDelivers
<1>9. ASSUME NEW p \in Process, Write(p)
      PROVE  DeliveryInv'
  <2>0. "checkpoint" \in File
    BY DEF File
  <2>1. CASE AtCheckpoint(p)
    BY <1>9, <2>1, WriteCheckpointDelivers
  <2>2. CASE AtStamp(p)
    BY <1>9, <2>2, WriteSnapshotDelivers
  <2>3. CASE AtIndex(p)
    <3>1. /\ Alone(p) /\ Written("index", proc[p].index) /\ AtMeta(p)'
          /\ proc'[p].pc = "writing" /\ written' = written
      BY <1>9, <2>3, WriteIndex
    <3>2. disk'["checkpoint"] = disk["checkpoint"]
      BY <2>0, <3>1 DEF Written
    <3> QED BY <3>1, <3>2, PhasesApart, DeliveryElsewhere
  <2>4. CASE AtMeta(p)
    <3>1. /\ Alone(p) /\ Written("meta", proc[p].meta)
          /\ proc'[p].pc = "idle" /\ written' = written
      BY <1>9, <2>4, WriteMeta
    <3>2. disk'["checkpoint"] = disk["checkpoint"]
      BY <2>0, <3>1 DEF Written
    <3> QED BY <3>1, <3>2, PhasesApart, DeliveryElsewhere
  <2> QED BY <1>9, <2>1, <2>2, <2>3, <2>4, WriteCases
<1>10. ASSUME NEW p \in Process, Kill(p)
       PROVE  DeliveryInv'
  <2>1. Alone(p) /\ proc'[p].pc = "idle" /\ disk' = disk /\ written' = written
    BY <1>10, KillEffect
  <2> QED BY <2>1, PhasesApart, DeliveryElsewhere
<1>11. CASE UNCHANGED vars
  BY <1>11 DEF vars, DeliveryInv, RunInv, Delivered, OneOfATitle, Whole, AtCheckpoint, AtStamp, Saving
<1>12. CASE Next
  <2>1. CASE \E c \in Collector : \E raw \in SUBSET Article : \E A \in SUBSET raw : Fetch(c, raw, A)
    <3>1. PICK c \in Collector, raw \in SUBSET Article : \E A \in SUBSET raw : Fetch(c, raw, A)
      BY <2>1
    <3>2. PICK A \in SUBSET raw : Fetch(c, raw, A)
      BY <3>1
    <3>3. A \in SUBSET Article
      OBVIOUS
    <3> QED BY <1>2, <3>2, <3>3
  <2>2. CASE \E c \in Collector : (\E stamp \in Stamp : Collect(c, stamp)) \/ FetchDegraded(c)
    BY <1>1, <1>3, <2>2
  <2>3. CASE \E s \in Sync, A \in SUBSET Article : SyncNews(s, A)
    BY <1>4, <2>3
  <2>4. CASE \E p \in Process :
               \/ LoadNew(p) \/ LoadMeta(p) \/ LoadIndex(p) \/ LoadRaises(p)
               \/ Open(p) \/ Write(p) \/ Kill(p)
    BY <1>5, <1>6, <1>7, <1>8, <1>9, <1>10, <2>4
  <2> QED BY <1>12, <2>1, <2>2, <2>3, <2>4 DEF Next
<1> QED BY <1>11, <1>12

-----------------------------------------------------------------------------
(* The files and the states of the processes are what they should be, and  *)
(* the store in memory and on disk agree as StoreInv says.                 *)
THEOREM StoreSafe ==
  ASSUME ContentsTold
  PROVE  Spec => [](Typed /\ StoreInv)
<1>1. Init => Typed /\ StoreInv
  BY InitTyped, InitStores
<1>2. (Typed /\ StoreInv) /\ [Next]_vars => (Typed /\ StoreInv)'
  BY StepStores
<1> QED BY <1>1, <1>2, PTL DEF Spec

(* Type correctness of the files, the runs and the requests.               *)
THEOREM TypeCorrect ==
  ASSUME ContentsTold
  PROVE  Spec => []TypeInv
<1>1. Typed /\ StoreInv => TypeInv
  BY DEF Typed
<1> QED BY <1>1, StoreSafe, PTL

(* No article is in the records twice, however runs and requests overlap   *)
(* and whoever is killed (news_store.add).                                 *)
THEOREM RecordsUnique ==
  ASSUME ContentsTold
  PROVE  Spec => []NoRecordTwice
<1>1. Typed /\ StoreInv => NoRecordTwice
  BY DEF StoreInv, RecordsInv, NoRecordTwice
<1> QED BY <1>1, StoreSafe, PTL

(* Used by one process at a time, the store has every record at the place  *)
(* of its vector, up to the records there were when a save was first       *)
(* killed between its two files (news_store.save, news_store.search).      *)
THEOREM RecordsAtTheirVectors ==
  ASSUME ContentsTold
  PROVE  Spec => []RecordAtItsVector
<1>1. Typed /\ StoreInv => RecordAtItsVector
  BY DEF StoreInv, SerialInv, ShelfInv, Paired, RecordAtItsVector
<1> QED BY <1>1, StoreSafe, PTL

(* ... and keeps what every completed run and request has stored.          *)
THEOREM NothingLost ==
  ASSUME ContentsTold
  PROVE  Spec => []StoreAccumulates
<1>1. Typed /\ StoreInv => StoreAccumulates
  BY DEF StoreInv, SerialInv, ShelfInv, StoreAccumulates
<1> QED BY <1>1, StoreSafe, PTL

(* ... and, when nobody has been killed, has each vector at the place of   *)
(* its record.                                                             *)
THEOREM PlacesMatch ==
  ASSUME ContentsTold
  PROVE  Spec => []VectorsMatchRecords
<1>1. Typed /\ StoreInv => VectorsMatchRecords
  <2> SUFFICES ASSUME Typed, StoreInv, ~overlapped, killed = 0, \A p \in Process : ~InStore(p)
               PROVE  disk["index"] = disk["meta"]
    BY DEF VectorsMatchRecords
  <2>1. \A p \in Process : ~Using(p)
    BY Phases DEF Using
  <2> QED BY <2>1 DEF StoreInv, SerialInv, AtRest
<1> QED BY <1>1, StoreSafe, PTL

(* With one collection run at a time, no article and no second article of  *)
(* a title is delivered again, whoever is killed when: a run saves what it *)
(* has seen before it writes its snapshot (backfill.py).                   *)
THEOREM RunsDeliverOnce ==
  ASSUME ContentsTold, OneCollector
  PROVE  Spec => []DeliveredOnce
<1>1. Init => Typed /\ StoreInv /\ DeliveryInv
  BY InitTyped, InitStores, InitDelivers
<1>2. (Typed /\ StoreInv /\ DeliveryInv) /\ [Next]_vars => (Typed /\ StoreInv /\ DeliveryInv)'
  BY StepStores, StepDelivers
<1>3. Typed /\ StoreInv /\ DeliveryInv => DeliveredOnce
  BY DEF DeliveryInv, Delivered, OneOfATitle, DeliveredOnce
<1> QED BY <1>1, <1>2, <1>3, PTL DEF Spec
=============================================================================
