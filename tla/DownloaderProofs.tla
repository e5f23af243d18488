-------------------------- MODULE DownloaderProofs --------------------------
(***************************************************************************)
(* Theorems about the downloader, for every set of tracks, collections and *)
(* prefetch lists, any number of commands and downloads at a time, of      *)
(* attempts and of refusals of the store, and any limit: types, with no    *)
(* track recorded or downloaded twice; no lost wake-up; no audio left      *)
(* behind.                                                                 *)
(***************************************************************************)
EXTENDS Downloader, TLAPS, SequenceTheorems, FiniteSetTheorems, WellFoundedInduction

-----------------------------------------------------------------------------
(* Numbers and sequences *)

\* Every set of natural numbers with an element has a least one.
LEMMA MinNat ==
    ASSUME NEW S, S \subseteq Nat, S # {}
    PROVE  Min(S) \in S /\ \A y \in S : Min(S) <= y
<1>1. PICK x \in S : \A y \in S : ~ (<<y, x>> \in OpToRel(<, Nat))
    BY NatLessThanWellFounded, WFMin
<1>2. \A y \in S : ~ (y < x)
    BY <1>1, Zenon DEF OpToRel
<1>3. \A y \in S : x <= y
    <2> SUFFICES ASSUME NEW y \in S PROVE x <= y
        OBVIOUS
    <2>1. x \in Nat /\ y \in Nat
        OBVIOUS
    <2> QED
        BY <1>2, <2>1
<1>4. QED
    BY <1>3 DEF Min

LEMMA RemoveAtSeq ==
    ASSUME NEW S, NEW q \in Seq(S), NEW i \in DOMAIN q
    PROVE  /\ RemoveAt(q, i) \in Seq(S)
           /\ Len(RemoveAt(q, i)) = Len(q) - 1
           /\ \A k \in 1..Len(q) - 1 :
                  RemoveAt(q, i)[k] = IF k < i THEN q[k] ELSE q[k + 1]
<1>1. Len(q) \in Nat /\ DOMAIN q = 1..Len(q) /\ i \in 1..Len(q)
    BY LenProperties
<1> DEFINE a == SubSeq(q, 1, i - 1)
           b == SubSeq(q, i + 1, Len(q))
<1>2. \A k \in 1..Len(q) : q[k] \in S
    BY ElementOfSeq
<1>3. /\ a \in Seq(S) /\ Len(a) = i - 1
      /\ \A k \in 1..i - 1 : a[k] = q[k]
    <2>1. \A k \in 1..i - 1 : q[k] \in S
        BY <1>1, <1>2
    <2>2. QED
        BY <1>1, <2>1, SubSeqProperties
<1>4. /\ b \in Seq(S) /\ Len(b) = Len(q) - i
      /\ \A k \in 1..Len(q) - i : b[k] = q[k + i]
    <2>1. \A k \in i + 1..Len(q) : q[k] \in S
        BY <1>1, <1>2
    <2>2. QED
        BY <1>1, <2>1, SubSeqProperties
<1> HIDE DEF a, b
<1>5. /\ a \o b \in Seq(S) /\ Len(a \o b) = Len(q) - 1
      /\ \A k \in 1..Len(q) - 1 : (a \o b)[k] = IF k < i THEN q[k] ELSE q[k + 1]
    <2>1. /\ a \o b \in Seq(S) /\ Len(a \o b) = Len(a) + Len(b)
          /\ \A k \in 1..Len(a) + Len(b) :
                 (a \o b)[k] = IF k <= Len(a) THEN a[k] ELSE b[k - Len(a)]
        BY <1>3, <1>4, ConcatProperties
    <2>2. Len(a) + Len(b) = Len(q) - 1
        BY <1>1, <1>3, <1>4
    <2>3. ASSUME NEW k \in 1..Len(q) - 1
          PROVE  (a \o b)[k] = IF k < i THEN q[k] ELSE q[k + 1]
        <3>1. CASE k < i
            BY <1>1, <1>3, <2>1, <2>2, <3>1
        <3>2. CASE k >= i
            <4> DEFINE j == k - (i - 1)
            <4>1. j \in 1..Len(q) - i /\ j + i = k + 1
                BY <1>1, <3>2
            <4>2. (a \o b)[k] = b[j]
                BY <1>1, <1>3, <2>1, <2>2, <3>2
            <4> HIDE DEF j
            <4>3. b[j] = q[j + i]
                BY <1>4, <4>1
            <4>4. (a \o b)[k] = q[k + 1]
                BY <4>1, <4>2, <4>3
            <4>5. QED
                BY <1>1, <3>2, <4>4
        <3>3. k < i \/ k >= i
            BY <1>1
        <3>4. QED
            BY <3>1, <3>2, <3>3, Zenon
    <2>4. QED
        BY <2>1, <2>2, <2>3
<1>6. QED
    BY <1>5 DEF RemoveAt, a, b

LEMMA MinOfTwo ==
    ASSUME NEW a \in Nat, NEW b \in Nat
    PROVE  Min({a, b}) \in Nat
<1>1. {a, b} \subseteq Nat /\ {a, b} # {}
    OBVIOUS
<1>2. QED
    BY <1>1, MinNat

LEMMA MaxWithZero ==
    ASSUME NEW a \in Int
    PROVE  Max({0, a}) \in Nat
<1>1. \E x \in {0, a} : \A y \in {0, a} : x >= y
    OBVIOUS
<1>2. QED
    BY <1>1 DEF Max

-----------------------------------------------------------------------------
(* Records *)

LEMMA DistinctRecords ==
    ASSUME NEW recs
    PROVE  DistinctIds(recs)
               <=> \A i, j \in DOMAIN recs : recs[i].id = recs[j].id => i = j
BY DEF DistinctIds, IsInjective

\* The record of a track is taken out, and no other.
LEMMA WithoutRecord ==
    ASSUME NEW recs \in Seq(Records), DistinctIds(recs), NEW id
    PROVE  /\ Without(recs, id) \in Seq(Records) /\ DistinctIds(Without(recs, id))
           /\ RecordIds(Without(recs, id)) = RecordIds(recs) \ {id}
<1>1. CASE id \notin RecordIds(recs)
    BY <1>1 DEF Without
<1>2. CASE id \in RecordIds(recs)
    <2> DEFINE i == CHOOSE n \in DOMAIN recs : recs[n].id = id
               rest == RemoveAt(recs, i)
    <2>1. i \in DOMAIN recs /\ recs[i].id = id
        BY <1>2 DEF RecordIds
    <2>2. Len(recs) \in Nat /\ DOMAIN recs = 1..Len(recs) /\ i \in 1..Len(recs)
        BY <2>1, LenProperties
    <2>3. /\ rest \in Seq(Records) /\ Len(rest) = Len(recs) - 1
          /\ \A k \in 1..Len(recs) - 1 : rest[k] = IF k < i THEN recs[k] ELSE recs[k + 1]
        BY <2>1, RemoveAtSeq
    <2>4. Without(recs, id) = rest
        BY <1>2 DEF Without
    <2> HIDE DEF i, rest
    <2>5. DOMAIN rest = 1..Len(recs) - 1
        BY <2>3, LenProperties
    <2>6. \A n, m \in 1..Len(recs) : recs[n].id = recs[m].id => n = m
        BY <2>2, DistinctRecords
    <2> DEFINE from(k) == IF k < i THEN k ELSE k + 1
    <2>7. \A k \in DOMAIN rest : rest[k] = recs[from(k)] /\ from(k) \in 1..Len(recs) \ {i}
        BY <2>2, <2>3, <2>5
    <2>8. \A k, l \in DOMAIN rest : from(k) = from(l) => k = l
        BY <2>2, <2>5
    <2>9. \A n \in 1..Len(recs) \ {i} : \E k \in DOMAIN rest : from(k) = n
        <3> TAKE n \in 1..Len(recs) \ {i}
        <3>1. CASE n < i
            <4>1. n \in DOMAIN rest /\ from(n) = n
                BY <2>2, <2>5, <3>1
            <4>2. QED
                BY <4>1
        <3>2. CASE n > i
            <4>1. n - 1 \in DOMAIN rest /\ from(n - 1) = n
                BY <2>2, <2>5, <3>2
            <4>2. QED
                BY <4>1
        <3>3. QED
            BY <2>2, <3>1, <3>2
    <2> HIDE DEF from
    <2>10. DistinctIds(rest)
        BY <2>6, <2>7, <2>8, DistinctRecords
    <2>11. RecordIds(rest) \subseteq RecordIds(recs) \ {id}
        BY <2>1, <2>2, <2>6, <2>7 DEF RecordIds
    <2>12. RecordIds(recs) \ {id} \subseteq RecordIds(rest)
        <3> SUFFICES ASSUME NEW n \in DOMAIN recs, recs[n].id # id
                     PROVE  recs[n].id \in RecordIds(rest)
            BY DEF RecordIds
        <3>1. n \in 1..Len(recs) \ {i}
            BY <2>1, <2>2
        <3>2. PICK k \in DOMAIN rest : from(k) = n
            BY <2>9, <3>1
        <3>3. rest[k].id = recs[n].id
            BY <2>7, <3>2
        <3>4. QED
            BY <3>3 DEF RecordIds
    <2>13. QED
        BY <2>3, <2>4, <2>10, <2>11, <2>12
<1>3. QED
    BY <1>1, <1>2

LEMMA UsedRecord ==
    ASSUME NEW recs \in Seq(Records), DistinctIds(recs), NEW r \in Records
    PROVE  /\ UsedNow(recs, r) \in Seq(Records) /\ DistinctIds(UsedNow(recs, r))
           /\ RecordIds(UsedNow(recs, r)) = RecordIds(recs) \cup {r.id}
<1> DEFINE rest == Without(recs, r.id)
           used == Append(rest, r)
<1>1. /\ rest \in Seq(Records) /\ DistinctIds(rest)
      /\ RecordIds(rest) = RecordIds(recs) \ {r.id}
    BY WithoutRecord
<1> HIDE DEF rest
<1>2. Len(rest) \in Nat /\ DOMAIN rest = 1..Len(rest)
    BY <1>1, LenProperties
<1>3. /\ used \in Seq(Records) /\ DOMAIN used = 1..Len(rest) + 1
      /\ \A i \in 1..Len(rest) : used[i] = rest[i]
      /\ used[Len(rest) + 1] = r
    BY <1>1, AppendProperties, LenProperties
<1> HIDE DEF used
<1>4. \A i \in DOMAIN rest : rest[i].id # r.id
    BY <1>1 DEF RecordIds
<1>5. \A i, j \in DOMAIN rest : rest[i].id = rest[j].id => i = j
    BY <1>1, DistinctRecords
<1>6. \A i \in DOMAIN used : i \in DOMAIN rest \/ i = Len(rest) + 1
    BY <1>2, <1>3
<1>7. DistinctIds(used)
    BY <1>2, <1>3, <1>4, <1>5, <1>6, DistinctRecords
<1>8. RecordIds(used) = RecordIds(rest) \cup {r.id}
    <2>1. RecordIds(used) \subseteq RecordIds(rest) \cup {r.id}
        BY <1>2, <1>3, <1>6 DEF RecordIds
    <2>2. DOMAIN rest \subseteq DOMAIN used /\ Len(rest) + 1 \in DOMAIN used
        BY <1>2, <1>3
    <2>3. RecordIds(rest) \cup {r.id} \subseteq RecordIds(used)
        BY <1>2, <1>3, <2>2 DEF RecordIds
    <2>4. QED
        BY <2>1, <2>3
<1>9. QED
    BY <1>1, <1>3, <1>7, <1>8 DEF UsedNow, rest, used

-----------------------------------------------------------------------------
(* The order of eviction *)

LEMMA FinitePlaces ==
    ASSUME NEW n \in Nat, NEW places \in SUBSET (1..n)
    PROVE  IsFiniteSet(places) /\ Cardinality(places) \in Nat
<1>1. IsFiniteSet(1..n)
    BY FS_Interval
<1>2. IsFiniteSet(places)
    BY <1>1, FS_Subset
<1>3. QED
    BY <1>2, FS_CardinalityType

\* Counting the places up to i, one gets to every number up to their count.
LEMMA PlaceOfRank ==
    ASSUME NEW n \in Nat, NEW places \in SUBSET (1..n), NEW k \in 1..Cardinality(places)
    PROVE  \E i \in places : Cardinality({j \in places : j <= i}) = k
<1> DEFINE upTo(i) == {j \in places : j <= i}
           T == {i \in 0..n : Cardinality(upTo(i)) >= k}
<1>0. places \subseteq 1..n
    OBVIOUS
<1>1. IsFiniteSet(places)
    BY FinitePlaces
<1>2. \A i \in 0..n : IsFiniteSet(upTo(i)) /\ Cardinality(upTo(i)) \in Nat
    BY <1>1, FS_Subset, FS_CardinalityType
<1>3. upTo(n) = places /\ upTo(0) = {}
    <2>1. \A j \in places : j \in Nat /\ j <= n /\ ~(j <= 0)
        BY <1>0
    <2>2. QED
        BY <2>1
<1>4. n \in T
    <2>1. Cardinality(places) \in Nat
        BY <1>1, FS_CardinalityType
    <2>2. QED
        BY <1>3, <2>1
<1>5. T \subseteq Nat /\ T # {}
    <2>1. 0..n \subseteq Nat
        OBVIOUS
    <2>2. QED
        BY <1>4, <2>1
<1> DEFINE i == Min(T)
<1>6. i \in T /\ \A m \in T : i <= m
    BY <1>5, MinNat
<1> HIDE DEF i
<1>7. i # 0
    BY <1>3, <1>6, FS_EmptySet
<1>8. i \in 1..n /\ i - 1 \in 0..n
    BY <1>6, <1>7
<1>9. ~(Cardinality(upTo(i - 1)) >= k)
    <2>1. ~(i <= i - 1)
        BY <1>8
    <2>2. i - 1 \notin T
        BY <1>6, <2>1
    <2>3. QED
        BY <1>8, <2>2
<1>10. upTo(i) = IF i \in places THEN upTo(i - 1) \cup {i} ELSE upTo(i - 1)
    <2>1. \A j \in places : j <= i <=> j <= i - 1 \/ j = i
        BY <1>0, <1>8
    <2>2. i <= i
        BY <1>8
    <2>3. QED
        BY <2>1, <2>2
<1>11. i \notin upTo(i - 1)
    BY <1>8
<1> HIDE DEF upTo
<1>12. i \in places
    BY <1>6, <1>9, <1>10 DEF T
<1>13. Cardinality(upTo(i)) = Cardinality(upTo(i - 1)) + 1
    BY <1>2, <1>8, <1>10, <1>11, <1>12, FS_AddElement
<1>14. Cardinality(upTo(i)) = k
    BY <1>2, <1>6, <1>8, <1>9, <1>13
<1>15. QED
    BY <1>12, <1>14 DEF upTo

LEMMA IdsAtSeq ==
    ASSUME NEW recs \in Seq(Records), NEW places \in SUBSET DOMAIN recs,
           NEW n \in Nat, n <= Cardinality(places)
    PROVE  IdsAt(recs, places, n) \in Seq(Tracks)
<1>1. Len(recs) \in Nat /\ DOMAIN recs = 1..Len(recs)
    BY LenProperties
<1>2. places \in SUBSET (1..Len(recs)) /\ Cardinality(places) \in Nat
    BY <1>1, FinitePlaces
<1> DEFINE at(k) == CHOOSE i \in places : Cardinality({j \in places : j <= i}) = k
<1>3. ASSUME NEW k \in 1..n
      PROVE  recs[at(k)].id \in Tracks
    <2>1. k \in 1..Cardinality(places)
        BY <1>2
    <2>2. \E i \in places : Cardinality({j \in places : j <= i}) = k
        BY <1>1, <1>2, <2>1, PlaceOfRank
    <2>3. at(k) \in places
        BY <2>2
    <2> HIDE DEF at
    <2>4. recs[at(k)] \in Records
        BY <2>3, ElementOfSeq, <1>1
    <2>5. QED
        BY <2>4 DEF Records
<1> HIDE DEF at
<1>4. [k \in 1..n |-> recs[at(k)].id] \in [1..n -> Tracks]
    BY <1>3
<1>5. [k \in 1..n |-> recs[at(k)].id] \in Seq(Tracks)
    BY <1>4
<1>6. QED
    BY <1>5 DEF IdsAt, at

LEMMA VictimsAreTracks ==
    ASSUME NEW recs \in Seq(Records)
    PROVE  Victims(recs) \in Seq(Tracks)
<1>1. Len(recs) \in Nat /\ DOMAIN recs = 1..Len(recs)
    BY LenProperties
<1>2. Loose(recs) \in SUBSET DOMAIN recs /\ Unpinned(recs) \in SUBSET DOMAIN recs
    BY DEF Loose, Unpinned
<1>3. Cardinality(Loose(recs)) \in Nat /\ Cardinality(Unpinned(recs)) \in Nat
    BY <1>1, <1>2, FinitePlaces
<1> DEFINE over == Max({0, Cardinality(Unpinned(recs)) - AutoLimit})
<1>4. over \in Nat
    <2>1. Cardinality(Unpinned(recs)) - AutoLimit \in Int
        BY <1>3, LimitsAssumption
    <2>2. QED
        BY <2>1, MaxWithZero
<1> HIDE DEF over
<1>5. {Cardinality(Loose(recs)), over} \subseteq Nat /\ {Cardinality(Loose(recs)), over} # {}
    BY <1>3, <1>4
<1> DEFINE n == Min({Cardinality(Loose(recs)), over})
<1>6. n \in Nat /\ n <= Cardinality(Loose(recs))
    BY <1>5, MinNat
<1>7. Excess(recs, AutoLimit) = n
    BY DEF Excess, over
<1> HIDE DEF n
<1>8. QED
    BY <1>2, <1>6, <1>7, IdsAtSeq DEF Victims

-----------------------------------------------------------------------------
(* The queue *)

\* What is no download is no trace of one; what is has a job, and a victim as
\* long as it evicts.
GoodDownload(d) ==
    /\ d.stage = "none" => d = NotActive
    /\ d.stage # "none" => d.job \in Jobs
    /\ d.stage \in {"evict", "next"} => d.victims # <<>>

GoodQueue(q) ==
    /\ q \in Queues
    /\ \A id \in Tracks :
           /\ GoodDownload(q.active[id])
           /\ q.jobs[id] # NoJob => q.active[id].stage = "none"

\* Every download goes on where it was.
Keeps(q, r) ==
    \A id \in Tracks : q.active[id].stage # "none" =>
        /\ r.active[id].stage = q.active[id].stage
        /\ r.active[id].victims = q.active[id].victims

LEMMA KeepsTransitive ==
    ASSUME NEW q, NEW r, NEW t, Keeps(q, r), Keeps(r, t)
    PROVE  Keeps(q, t)
BY DEF Keeps

LEMMA JobFacts ==
    /\ NoJob \notin Jobs
    /\ NotActive \in Downloads /\ GoodDownload(NotActive)
<1>1. NoJob \notin Jobs
    BY LimitsAssumption DEF NoJob, Jobs, Revs, NoRev
<1>2. NotActive \in Downloads
    BY EmptySeq DEF NotActive, Downloads
<1>3. QED
    BY <1>1, <1>2 DEF NotActive, GoodDownload

LEMMA ActiveStage ==
    ASSUME NEW q, GoodQueue(q), NEW id \in Tracks
    PROVE  /\ Active(q, id) <=> q.active[id].stage # "none"
           /\ Active(q, id) => q.active[id].job \in Jobs /\ q.jobs[id] = NoJob
           /\ Queued(q, id) => q.jobs[id] \in Jobs /\ q.active[id] = NotActive
<1>1. NotActive.stage = "none"
    BY DEF NotActive
<1>2. q.jobs[id] \in Jobs \cup {NoJob}
    BY DEF GoodQueue, Queues
<1>3. QED
    BY <1>1, <1>2 DEF GoodQueue, GoodDownload, Active, Queued

\* The new entries of one track.
GoodEntry(q, id) ==
    /\ q.jobs[id] \in Jobs \cup {NoJob} /\ q.active[id] \in Downloads
    /\ q.refs[id] \in Revs \cup {NoRev}
    /\ GoodDownload(q.active[id])
    /\ q.jobs[id] # NoJob => q.active[id].stage = "none"

LEMMA Entries ==
    ASSUME NEW q, GoodQueue(q), NEW id \in Tracks
    PROVE  GoodEntry(q, id)
BY DEF GoodQueue, Queues, GoodEntry

LEMMA NewEntries ==
    ASSUME NEW q, GoodQueue(q), NEW jobs, NEW active, NEW refs,
           jobs = [id \in Tracks |-> jobs[id]], active = [id \in Tracks |-> active[id]],
           refs = [id \in Tracks |-> refs[id]],
           \A id \in Tracks : GoodEntry([jobs |-> jobs, active |-> active, refs |-> refs], id)
    PROVE  GoodQueue([q EXCEPT !.jobs = jobs, !.active = active, !.refs = refs])
<1>1. \A id \in Tracks : /\ jobs[id] \in Jobs \cup {NoJob} /\ active[id] \in Downloads
                         /\ refs[id] \in Revs \cup {NoRev}
    BY DEF GoodEntry
<1>2. /\ jobs \in [Tracks -> Jobs \cup {NoJob}] /\ active \in [Tracks -> Downloads]
      /\ refs \in [Tracks -> Revs \cup {NoRev}]
    BY <1>1
<1>3. [q EXCEPT !.jobs = jobs, !.active = active, !.refs = refs] \in Queues
    BY <1>2 DEF GoodQueue, Queues
<1>4. QED
    BY <1>2, <1>3 DEF GoodQueue, Queues, GoodEntry

LEMMA EnqueueGood ==
    ASSUME NEW q, GoodQueue(q), NEW id \in Tracks, NEW rev \in Revs, NEW priority \in Nat
    PROVE  GoodEntry(Enqueue(q, id, rev, priority), id) /\ Keeps(q, Enqueue(q, id, rev, priority))
<1> DEFINE known == [q EXCEPT !.refs[id] = rev]
           sooner(p) == Min({p, priority})
<1>1. q \in Queues
    BY DEF GoodQueue
<1>2. /\ known \in Queues /\ known.active = q.active /\ known.jobs = q.jobs
      /\ known.refs[id] = rev
    BY <1>1 DEF Queues
<1> HIDE DEF known
<1>3. GoodEntry(q, id)
    BY Entries
<1>4. GoodEntry(known, id) /\ Keeps(q, known)
    BY <1>2, <1>3 DEF GoodEntry, Keeps
<1>5. CASE Active(q, id)
    <2> DEFINE job == [q.active[id].job EXCEPT !.priority = sooner(@)]
               down == [q.active[id] EXCEPT !.job = job]
    <2>1. q.active[id].job \in Jobs /\ q.jobs[id] = NoJob /\ q.active[id] \in Downloads
        BY <1>1, <1>5, ActiveStage DEF Queues
    <2>2. sooner(q.active[id].job.priority) \in Nat
        BY <2>1, MinOfTwo DEF Jobs
    <2> HIDE DEF sooner
    <2>3. job \in Jobs
        BY <2>1, <2>2 DEF Jobs
    <2> HIDE DEF job
    <2>4. /\ down \in Downloads /\ down.stage = q.active[id].stage
          /\ down.victims = q.active[id].victims /\ down.job \in Jobs
        BY <2>1, <2>3 DEF Downloads
    <2> HIDE DEF down
    <2> DEFINE r == [known EXCEPT !.active[id] = down]
    <2>5. /\ r.active = [q.active EXCEPT ![id] = down] /\ r.jobs = q.jobs
          /\ r.refs = known.refs
        BY <1>2 DEF Queues
    <2> HIDE DEF r
    <2>6. r.active[id] = down /\ \A other \in Tracks \ {id} : r.active[other] = q.active[other]
        BY <1>1, <2>5 DEF Queues
    <2>7. GoodEntry(r, id) /\ Keeps(q, r)
        BY <1>2, <1>3, <1>4, <1>5, ActiveStage, <2>1, <2>4, <2>5, <2>6 DEF GoodEntry, Keeps, GoodDownload
    <2>8. r = [known EXCEPT !.active[id].job.priority = sooner(@)]
        BY <1>2 DEF r, down, job
    <2>9. QED
        BY <1>4, <1>5, <2>7, <2>8 DEF Enqueue, known, sooner
<1>6. CASE ~Active(q, id) /\ Queued(q, id)
    <2> DEFINE job == [q.jobs[id] EXCEPT !.priority = sooner(@)]
               r == [known EXCEPT !.jobs[id] = job]
    <2>1. q.jobs[id] \in Jobs
        BY <1>6, ActiveStage
    <2>2. sooner(q.jobs[id].priority) \in Nat
        BY <2>1, MinOfTwo DEF Jobs
    <2> HIDE DEF sooner
    <2>3. job \in Jobs
        BY <2>1, <2>2 DEF Jobs
    <2>4. r = [known EXCEPT !.jobs[id].priority = sooner(@)]
        BY <1>2 DEF r, job
    <2> HIDE DEF job
    <2>5. r.active = q.active /\ r.jobs[id] = job /\ r.refs = known.refs
        BY <1>2 DEF Queues
    <2> HIDE DEF r
    <2>6. GoodEntry(r, id) /\ Keeps(q, r)
        BY <1>2, <1>3, <1>4, <1>6, ActiveStage, <2>3, <2>5 DEF GoodEntry, Keeps, NotActive
    <2>7. QED
        BY <1>4, <1>6, <2>4, <2>6 DEF Enqueue, known, sooner
<1>7. CASE ~Active(q, id) /\ ~Queued(q, id)
    <2> DEFINE job == [rev |-> rev, priority |-> priority, attempts |-> 0, waits |-> FALSE]
               r == [known EXCEPT !.jobs[id] = job]
    <2>1. job \in Jobs
        BY LimitsAssumption DEF Jobs
    <2> HIDE DEF job
    <2>2. r.active = q.active /\ r.jobs[id] = job /\ r.refs = known.refs
        BY <1>2 DEF Queues
    <2> HIDE DEF r
    <2>3. GoodEntry(r, id) /\ Keeps(q, r)
        BY <1>2, <1>3, <1>4, <1>7, ActiveStage, <2>1, <2>2 DEF GoodEntry, Keeps, NotActive
    <2>4. QED
        BY <1>4, <1>7, <2>3 DEF Enqueue, known, r, job
<1>8. QED
    BY <1>5, <1>6, <1>7

\* The least place of a track in the lists is a place.
LEMMA PlaceInLists ==
    ASSUME NEW lists \in SUBSET Seq(Tracks), NEW id \in Listed(lists)
    PROVE  Min(Places(lists, id)) \in Nat \ {0}
<1>1. PICK l \in lists : id \in Range(l)
    BY DEF Listed
<1>2. PICK i \in DOMAIN l : l[i] = id
    BY <1>1 DEF Range
<1>3. i \in Places(lists, id)
    BY <1>2 DEF Places
<1>4. \A m \in lists : DOMAIN m \subseteq Nat \ {0}
    BY LenProperties
<1>5. Places(lists, id) \subseteq Nat \ {0}
    BY <1>4 DEF Places
<1>6. Places(lists, id) \subseteq Nat /\ Places(lists, id) # {}
    BY <1>3, <1>5
<1>7. QED
    BY <1>5, <1>6, MinNat

LEMMA EnqueueAllGood ==
    ASSUME NEW q, GoodQueue(q), NEW lists \in SUBSET Seq(Tracks),
           NEW revs \in [Tracks -> Revs \cup {NoRev}], NEW priority \in Nat
    PROVE  /\ GoodQueue(EnqueueAll(q, lists, revs, priority))
           /\ Keeps(q, EnqueueAll(q, lists, revs, priority))
<1> DEFINE new(id) == IF id \notin Listed(lists) \/ revs[id] = NoRev THEN q
                      ELSE Enqueue(q, id, revs[id], priority + Min(Places(lists, id)) - 1)
<1>1. ASSUME NEW id \in Tracks
      PROVE  GoodEntry(new(id), id) /\ Keeps(q, new(id))
    <2>1. GoodEntry(q, id) /\ Keeps(q, q)
        BY Entries DEF Keeps
    <2>2. CASE id \in Listed(lists) /\ revs[id] # NoRev
        <3>1. priority + Min(Places(lists, id)) - 1 \in Nat
            BY <2>2, PlaceInLists
        <3>2. revs[id] \in Revs
            BY <2>2
        <3>3. QED
            BY <2>2, <3>1, <3>2, EnqueueGood
    <2>3. QED
        BY <2>1, <2>2
<1> HIDE DEF new
<1> DEFINE jobs == [id \in Tracks |-> new(id).jobs[id]]
           active == [id \in Tracks |-> new(id).active[id]]
           refs == [id \in Tracks |-> new(id).refs[id]]
           r == [q EXCEPT !.jobs = jobs, !.active = active, !.refs = refs]
<1>2. \A id \in Tracks : GoodEntry([jobs |-> jobs, active |-> active, refs |-> refs], id)
    BY <1>1 DEF GoodEntry
<1>3. \A id \in Tracks : active[id] = new(id).active[id]
    OBVIOUS
<1>4. /\ jobs = [id \in Tracks |-> jobs[id]] /\ active = [id \in Tracks |-> active[id]]
      /\ refs = [id \in Tracks |-> refs[id]]
    OBVIOUS
<1> HIDE DEF jobs, active, refs
<1>5. GoodQueue(r)
    BY <1>2, <1>4, NewEntries
<1>6. r.active = active
    BY DEF GoodQueue, Queues
<1>7. Keeps(q, r)
    BY <1>1, <1>3, <1>6 DEF Keeps
<1>8. QED
    BY <1>5, <1>7 DEF EnqueueAll, r, jobs, active, refs, new

\* A timer runs when a job could be started.
Awake(q) == Free(q) > 0 /\ Considered(q) # {} => q.timer

\* What the room is about to play has a timer.
PrefetchAwake(q) ==
    Free(q) > 0 /\ (\E id \in QueuedIds(q) : q.jobs[id].priority < PinPriority) => q.timer

LEMMA AwakeForPrefetch ==
    ASSUME NEW q, GoodQueue(q), Awake(q)
    PROVE  PrefetchAwake(q)
<1> SUFFICES ASSUME Free(q) > 0, NEW id \in QueuedIds(q), q.jobs[id].priority < PinPriority
             PROVE  q.timer
    BY DEF PrefetchAwake
<1>1. q.jobs[id] \in Jobs
    BY ActiveStage DEF QueuedIds
<1>2. ~(q.jobs[id].priority >= PinPriority)
    BY <1>1, LimitsAssumption DEF Jobs
<1>3. id \in Considered(q)
    BY <1>2 DEF Considered
<1>4. QED
    BY <1>3 DEF Awake

LEMMA StartedGood ==
    ASSUME NEW q, GoodQueue(q), NEW ids \in SUBSET Due(q)
    PROVE  GoodQueue(Started(q, ids)) /\ Keeps(q, Started(q, ids)) /\ Awake(Started(q, ids))
<1> DEFINE jobs == [id \in Tracks |-> IF id \in ids THEN NoJob ELSE q.jobs[id]]
           active == [id \in Tracks |-> IF id \in ids THEN Starting(q.jobs[id]) ELSE q.active[id]]
           running == [q EXCEPT !.jobs = jobs, !.active = active]
           t == Free(running) > 0 /\ Considered(running) # {}
           r == [running EXCEPT !.timer = t]
<1>1. \A id \in ids : id \in Tracks /\ Queued(q, id)
    BY DEF Due, Considered, QueuedIds
<1>2. ASSUME NEW job \in Jobs
      PROVE  /\ Starting(job) \in Downloads /\ GoodDownload(Starting(job))
    BY EmptySeq DEF Starting, NotActive, Downloads, GoodDownload
<1>3. \A id \in ids : q.jobs[id] \in Jobs /\ q.active[id].stage = "none"
    BY <1>1, ActiveStage DEF NotActive
<1>4. \A id \in Tracks : /\ active[id] \in Downloads /\ jobs[id] \in Jobs \cup {NoJob}
                         /\ GoodDownload(active[id])
                         /\ jobs[id] # NoJob => active[id].stage = "none"
    BY <1>2, <1>3 DEF GoodQueue, Queues
<1>5. \A id \in Tracks : q.active[id].stage # "none" => active[id] = q.active[id]
    BY <1>3
<1>6. jobs = [id \in Tracks |-> jobs[id]] /\ active = [id \in Tracks |-> active[id]]
    OBVIOUS
<1> HIDE DEF jobs, active
<1>7. jobs \in [Tracks -> Jobs \cup {NoJob}] /\ active \in [Tracks -> Downloads]
    BY <1>4, <1>6
<1>8. /\ running \in Queues /\ running.jobs = jobs /\ running.active = active
    BY <1>7 DEF GoodQueue, Queues
<1>9. t \in BOOLEAN
    OBVIOUS
<1> HIDE DEF running
<1>10. /\ r \in Queues /\ r.jobs = jobs /\ r.active = active /\ r.timer = t
       /\ r.quota = running.quota
    <2> HIDE DEF t
    <2>1. QED
        BY <1>8, <1>9 DEF Queues
<1> HIDE DEF r
<1>11. GoodQueue(r) /\ Keeps(q, r)
    BY <1>4, <1>5, <1>10 DEF GoodQueue, Keeps
<1>12. Free(r) = Free(running) /\ Considered(r) = Considered(running)
    BY <1>8, <1>10 DEF Free, ActiveIds, Active, Considered, QueuedIds, Queued
<1>13. Awake(r)
    BY <1>10, <1>12 DEF Awake
<1>14. Started(q, ids) = r
    BY DEF Started, r, running, jobs, active, t
<1>15. QED
    BY <1>11, <1>13, <1>14

LEMMA PumpGood ==
    ASSUME NEW q, GoodQueue(q), NEW up \in BOOLEAN, NEW r \in Pump(q, up)
    PROVE  GoodQueue(r) /\ Keeps(q, r) /\ (up => Awake(r))
<1>1. CASE up
    <2>1. PICK ids \in MostUrgent(q) : r = Started(q, ids)
        BY <1>1 DEF Pump
    <2>2. ids \in SUBSET Due(q)
        BY DEF MostUrgent
    <2>3. QED
        BY <2>1, <2>2, StartedGood
<1>2. CASE ~up
    <2>1. r = [q EXCEPT !.timer = FALSE]
        BY <1>2 DEF Pump
    <2>2. r \in Queues /\ r.jobs = q.jobs /\ r.active = q.active
        BY <2>1 DEF GoodQueue, Queues
    <2>3. QED
        BY <1>2, <2>2 DEF GoodQueue, Keeps
<1>3. QED
    BY <1>1, <1>2

\* A download that ends makes place for others.
LEMMA EndsGood ==
    ASSUME NEW q, NEW id \in Tracks, online \in BOOLEAN, Ends(id, q),
           GoodQueue([q EXCEPT !.active[id] = NotActive])
    PROVE  /\ GoodQueue(queue') /\ Keeps([q EXCEPT !.active[id] = NotActive], queue')
           /\ online => Awake(queue')
<1> DEFINE free == [q EXCEPT !.active[id] = NotActive]
<1>1. queue' \in Pump(free, online)
    BY DEF Ends
<1> HIDE DEF free
<1>2. GoodQueue(free)
    BY DEF free
<1>3. GoodQueue(queue') /\ Keeps(free, queue') /\ (online => Awake(queue'))
    BY <1>1, <1>2, PumpGood
<1>4. QED
    BY <1>3 DEF free

LEMMA RetriedLaterGood ==
    ASSUME NEW id \in Tracks, NEW stalled \in BOOLEAN, GoodQueue(queue),
           queue.active[id].stage # "none"
    PROVE  LET q == [queue EXCEPT !.active[id].aborted = @ \/ stalled]
               free == [RetriedLater(q, id) EXCEPT !.active[id] = NotActive]
           IN  GoodQueue(free) /\ free.active = [queue.active EXCEPT ![id] = NotActive]
<1> DEFINE act == [queue.active[id] EXCEPT !.aborted = @ \/ stalled]
           q == [queue EXCEPT !.active[id] = act]
           job == [act.job EXCEPT !.attempts = @ + 1, !.waits = TRUE]
           active == [queue.active EXCEPT ![id] = NotActive]
<1>1. queue \in Queues /\ queue.active[id] \in Downloads /\ queue.jobs[id] = NoJob
    BY DEF GoodQueue, Queues
<1>2. q = [queue EXCEPT !.active[id].aborted = @ \/ stalled]
    BY <1>1 DEF Queues
<1>3. act.job \in Jobs
    <2>1. queue.active[id].job \in Jobs
        BY DEF GoodQueue, GoodDownload
    <2>2. QED
        BY <1>1, <2>1 DEF Downloads
<1>4. job.attempts < MaxAttempts => job \in Jobs
    <2> DEFINE old == act.job
               n == old.attempts + 1
    <2>1. old \in Jobs
        BY <1>3
    <2> HIDE DEF old
    <2>2. n \in Nat /\ job = [old EXCEPT !.attempts = n, !.waits = TRUE] /\ job.attempts = n
        BY <2>1, LimitsAssumption DEF Jobs, old
    <2>3. n < MaxAttempts => n \in 0..MaxAttempts
        BY <2>2, LimitsAssumption
    <2> HIDE DEF n
    <2>4. QED
        BY <2>1, <2>2, <2>3 DEF Jobs
<1> HIDE DEF act, job
<1>5. q.active[id] = act /\ q.jobs = queue.jobs /\ q.failed = queue.failed
    BY <1>1 DEF Queues
<1>6. /\ active[id] = NotActive /\ \A other \in Tracks \ {id} : active[other] = queue.active[other]
      /\ active \in [Tracks -> Downloads]
    BY <1>1, JobFacts DEF Queues
<1> HIDE DEF active
<1> DEFINE plain == [queue EXCEPT !.active = active]
           failing == [queue EXCEPT !.active = active, !.failed = @ \cup {id}]
           again == [queue EXCEPT !.active = active, !.jobs[id] = job]
<1>7. GoodQueue(plain) /\ GoodQueue(failing)
    <2>1. plain \in Queues /\ failing \in Queues
        BY <1>1, <1>6 DEF Queues
    <2>2. plain.active = active /\ failing.active = active /\ plain.jobs = queue.jobs
          /\ failing.jobs = queue.jobs
        BY <1>1 DEF Queues
    <2>3. \A other \in Tracks : /\ GoodDownload(active[other])
                                /\ queue.jobs[other] # NoJob => active[other].stage = "none"
        BY <1>6, JobFacts DEF GoodQueue, NotActive
    <2>4. QED
        BY <2>1, <2>2, <2>3 DEF GoodQueue
<1>8. ASSUME job \in Jobs PROVE GoodQueue(again)
    <2>1. again \in Queues
        BY <1>1, <1>6, <1>8 DEF Queues
    <2>2. /\ again.active = active /\ again.jobs[id] = job
          /\ \A other \in Tracks \ {id} : again.jobs[other] = queue.jobs[other]
        BY <1>1 DEF Queues
    <2>3. \A other \in Tracks : /\ GoodDownload(active[other])
                                /\ again.jobs[other] # NoJob => active[other].stage = "none"
        <3>1. active[id].stage = "none" /\ GoodDownload(active[id])
            BY <1>6, JobFacts DEF NotActive
        <3>2. ASSUME NEW other \in Tracks \ {id}
              PROVE  /\ GoodDownload(active[other])
                     /\ again.jobs[other] # NoJob => active[other].stage = "none"
            BY <1>6, <2>2 DEF GoodQueue
        <3>3. QED
            BY <3>1, <3>2
    <2>4. QED
        BY <2>1, <2>2, <2>3 DEF GoodQueue
<1> DEFINE cut(x) == [x EXCEPT !.active[id] = NotActive]
<1>9. /\ plain = cut(q) /\ failing = cut([q EXCEPT !.failed = @ \cup {id}])
      /\ again = cut([q EXCEPT !.jobs[id] = job])
    BY <1>1 DEF Queues, active
<1>10. plain.active = active /\ failing.active = active /\ again.active = active
    BY <1>1 DEF Queues
<1> DEFINE later == RetriedLater(q, id)
           free == cut(later)
<1>11. \/ later = q
       \/ later = [q EXCEPT !.failed = @ \cup {id}]
       \/ later = [q EXCEPT !.jobs[id] = job] /\ ~(job.attempts >= MaxAttempts)
    <2> HIDE DEF q
    <2>1. later = IF act.aborted /\ ~Wanted(id) THEN q
                  ELSE IF job.attempts >= MaxAttempts THEN [q EXCEPT !.failed = @ \cup {id}]
                  ELSE IF Wanted(id) /\ ~Queued(q, id) THEN [q EXCEPT !.jobs[id] = job]
                  ELSE q
        BY <1>5, Zenon DEF RetriedLater, job
    <2> HIDE DEF later
    <2>2. QED
        BY <2>1, Zenon
<1>12. \/ free = plain
       \/ free = failing
       \/ free = again /\ ~(job.attempts >= MaxAttempts)
    <2> HIDE DEF cut, later, plain, failing, again, q
    <2>1. QED
        BY <1>9, <1>11, Zenon
<1>13. ~(job.attempts >= MaxAttempts) => job.attempts < MaxAttempts
    <2>1. job.attempts \in Nat
        BY <1>3 DEF job, Jobs
    <2>2. QED
        BY <2>1, LimitsAssumption
<1> HIDE DEF cut, later, plain, failing, again, free, q
<1>14. GoodQueue(free) /\ free.active = active
    BY <1>4, <1>7, <1>8, <1>10, <1>12, <1>13
<1>15. QED
    BY <1>2, <1>14 DEF free, later, cut, active

LEMMA ListedPins ==
    ASSUME pins \in Collections
    PROVE  Range(pins) \in SUBSET Seq(Tracks)
<1>1. PICK keys \in SUBSET Keys : pins \in [keys -> PinLists]
    BY DEF Collections
<1>2. Range(pins) \subseteq PinLists
    BY <1>1 DEF Range
<1>3. QED
    BY <1>2, PrioritiesAssumption

LEMMA RetriedGood ==
    ASSUME GoodQueue(queue), pins \in Collections, NEW up \in BOOLEAN, NEW r \in Retried(up)
    PROVE  GoodQueue(r) /\ Keeps(queue, r) /\ (up => Awake(r))
<1> DEFINE jobs == [id \in Tracks |-> IF queue.jobs[id] = NoJob THEN NoJob
                                      ELSE [queue.jobs[id] EXCEPT !.waits = FALSE, !.attempts = 0]]
           fresh == [queue EXCEPT !.failed = {}, !.quota = FALSE, !.jobs = jobs]
           resumed == ResumedPins(fresh, queue.refs)
<1>1. ASSUME NEW id \in Tracks
      PROVE  jobs[id] \in Jobs \cup {NoJob} /\ (jobs[id] # NoJob => queue.jobs[id] # NoJob)
    <2>1. queue.jobs[id] \in Jobs \cup {NoJob}
        BY DEF GoodQueue, Queues
    <2>2. CASE queue.jobs[id] = NoJob
        BY <2>2
    <2>3. CASE queue.jobs[id] # NoJob
        <3> DEFINE old == queue.jobs[id]
        <3>1. old \in Jobs /\ 0 \in 0..MaxAttempts
            BY <2>1, <2>3, LimitsAssumption
        <3> HIDE DEF old
        <3>2. [old EXCEPT !.waits = FALSE, !.attempts = 0] \in Jobs
            BY <3>1 DEF Jobs
        <3>3. QED
            BY <2>3, <3>2 DEF old
    <2>4. QED
        BY <2>2, <2>3
<1>2. jobs = [id \in Tracks |-> jobs[id]]
    OBVIOUS
<1> HIDE DEF jobs
<1>3. jobs \in [Tracks -> Jobs \cup {NoJob}]
    BY <1>1, <1>2
<1>4. fresh \in Queues /\ fresh.active = queue.active /\ fresh.jobs = jobs
      /\ fresh.refs = queue.refs
    BY <1>3 DEF GoodQueue, Queues
<1> HIDE DEF fresh
<1>5. GoodQueue(fresh) /\ Keeps(queue, fresh)
    BY <1>1, <1>4 DEF GoodQueue, Keeps
<1>6. queue.refs \in [Tracks -> Revs \cup {NoRev}]
    BY DEF GoodQueue, Queues
<1>7. GoodQueue(resumed) /\ Keeps(fresh, resumed)
    BY <1>5, <1>6, ListedPins, EnqueueAllGood, LimitsAssumption DEF ResumedPins
<1> HIDE DEF resumed
<1>8. r \in Pump(resumed, up)
    BY DEF Retried, resumed, fresh, jobs
<1>9. GoodQueue(r) /\ Keeps(resumed, r) /\ (up => Awake(r))
    BY <1>7, <1>8, PumpGood
<1>10. QED
    BY <1>5, <1>7, <1>9, KeepsTransitive

\* Cancelling only takes jobs away, and marks downloads.
LEMMA CancelledGood ==
    ASSUME GoodQueue(queue), NEW id \in Tracks
    PROVE  LET r == Cancelled(queue, id)
           IN  /\ GoodQueue(r) /\ Keeps(queue, r)
               /\ r.timer = queue.timer /\ r.quota = queue.quota
               /\ \A other \in Tracks : Active(r, other) <=> Active(queue, other)
               /\ \A other \in Tracks : r.jobs[other] \in {NoJob, queue.jobs[other]}
<1> DEFINE stop == \/ queue.active[id].aborted
                   \/ queue.active[id].job.priority >= PinPriority /\ ~Prefetched(id)
           act == [queue.active[id] EXCEPT !.aborted = stop]
           job == IF queue.jobs[id].priority >= PinPriority THEN NoJob ELSE queue.jobs[id]
           active == [queue.active EXCEPT ![id] = act]
           jobs == [queue.jobs EXCEPT ![id] = job]
           r == [queue EXCEPT !.jobs = jobs, !.active = active]
<1>1. queue \in Queues /\ queue.active[id] \in Downloads /\ queue.jobs[id] \in Jobs \cup {NoJob}
    BY DEF GoodQueue, Queues
<1>2. /\ act \in Downloads /\ act.stage = queue.active[id].stage
      /\ act.victims = queue.active[id].victims /\ act.job = queue.active[id].job
    <2>1. queue.active[id].aborted \in BOOLEAN
        BY <1>1 DEF Downloads
    <2>2. stop \in BOOLEAN
        BY <2>1
    <2> HIDE DEF stop
    <2>3. QED
        BY <1>1, <2>2 DEF Downloads
<1>3. queue.active[id] = NotActive => act = NotActive
    <2>1. ASSUME queue.active[id] = NotActive PROVE stop = FALSE
        BY <2>1, LimitsAssumption DEF NotActive, NoJob
    <2> HIDE DEF stop
    <2>2. [NotActive EXCEPT !.aborted = FALSE] = NotActive
        <3>1. \A d \in Downloads : d.aborted = FALSE => [d EXCEPT !.aborted = FALSE] = d
            BY DEF Downloads
        <3>2. QED
            BY <3>1, JobFacts DEF NotActive
    <2>3. QED
        BY <2>1, <2>2, Zenon
<1>4. GoodDownload(act) /\ (act.stage = "none" <=> queue.active[id].stage = "none")
    BY <1>2, <1>3 DEF GoodDownload, GoodQueue
<1>5. job \in Jobs \cup {NoJob} /\ job \in {NoJob, queue.jobs[id]}
    BY <1>1
<1> HIDE DEF act, job
<1>6. /\ active[id] = act /\ \A other \in Tracks \ {id} : active[other] = queue.active[other]
      /\ active \in [Tracks -> Downloads]
    BY <1>1, <1>2 DEF Queues
<1>7. /\ jobs[id] = job /\ \A other \in Tracks \ {id} : jobs[other] = queue.jobs[other]
      /\ jobs \in [Tracks -> Jobs \cup {NoJob}]
    BY <1>1, <1>5 DEF Queues
<1>8. r = Cancelled(queue, id)
    <2>1. Cancelled(queue, id) = [queue EXCEPT !.jobs[id] = job, !.active[id].aborted = stop]
        BY Zenon DEF Cancelled, job
    <2> HIDE DEF stop
    <2>2. [queue EXCEPT !.jobs[id] = job, !.active[id].aborted = stop]
              = [queue EXCEPT !.jobs[id] = job, !.active[id] = act]
        BY <1>1 DEF Queues, act
    <2>3. [queue EXCEPT !.jobs[id] = job, !.active[id] = act] = r
        BY <1>1 DEF Queues
    <2>4. QED
        BY <2>1, <2>2, <2>3
<1> HIDE DEF active, jobs
<1>9. /\ r \in Queues /\ r.active = active /\ r.jobs = jobs
      /\ r.timer = queue.timer /\ r.quota = queue.quota
    BY <1>1, <1>6, <1>7 DEF Queues
<1> HIDE DEF r
<1>10. \A other \in Tracks : jobs[other] \in {NoJob, queue.jobs[other]}
    BY <1>5, <1>7
<1>11. \A other \in Tracks : /\ GoodDownload(active[other])
                            /\ active[other].stage = queue.active[other].stage
                            /\ active[other].victims = queue.active[other].victims
    BY <1>2, <1>4, <1>6 DEF GoodQueue
<1>12. GoodQueue(r) /\ Keeps(queue, r)
    BY <1>9, <1>10, <1>11 DEF GoodQueue, Keeps
<1>13. \A other \in Tracks : Active(r, other) <=> Active(queue, other)
    BY <1>9, <1>11, <1>12, ActiveStage
<1>14. QED
    BY <1>8, <1>9, <1>10, <1>12, <1>13

-----------------------------------------------------------------------------
(* The invariant *)

RecordsOk(recs) == recs \in Seq(Records) /\ DistinctIds(recs)

StoreOk(s) ==
    /\ s \in [records : Seq(Records), audio : SUBSET Tracks, pins : Collections]
    /\ DistinctIds(s.records)

\* Only unpin and clear remove, and then the track at the head of their list.
CommandOk(c) ==
    /\ c \in Commands
    /\ c.at = "removing" => c.op \in {"unpin", "clear"} /\ c.todo # <<>>

CommandsOk(cs) == cs \in [Callers -> Commands] /\ \A c \in Callers : CommandOk(cs[c])

ReaderOk(r) == r \in [at : {"read", "drop"}, record : Records, found : BOOLEAN] \cup {NoReader}

IInv ==
    /\ GoodQueue(queue)
    /\ RecordsOk(records) /\ StoreOk(store)
    /\ CommandsOk(command) /\ ReaderOk(reader)
    /\ pins \in Collections /\ prefetch \in PrefetchLists \cup {<<>>}
    /\ online \in BOOLEAN /\ library \in [Tracks -> Revs] /\ refusals \in 0..MaxRefusals

\* Audio without a record.
Orphans(s) == s.audio \ RecordIds(s.records)

NoNewLeaks == \A id \in Tracks : Leaked(id)' => Leaked(id) \/ (Attended(id) /\ StoreRefuses)

\* No removal that is going on is given up.
RemovalsGoOn == \A c \in Callers : command[c].at = "removing" => command'[c] = command[c]

\* The timer, when the phone is online.
StaysAwake ==
    /\ (online => Awake(queue)) => (online' => Awake(queue'))
    /\ (online => PrefetchAwake(queue)) => (online' => PrefetchAwake(queue'))

LEMMA InvTypes == IInv => TypeOK
BY DEF IInv, TypeOK, GoodQueue, RecordsOk, StoreOk, CommandsOk, ReaderOk

LEMMA LeakedMeans ==
    ASSUME NEW id
    PROVE  Leaked(id) <=> id \in Orphans(store) /\ ~Attended(id)
BY DEF Leaked, Orphans

\* What the store refuses leaves it as it is.
LEMMA RefusedLeaks ==
    ASSUME IInv, Refuses
    PROVE  store' = store /\ refusals' \in 0..MaxRefusals /\ NoNewLeaks
<1>1. store' = store /\ refusals' = refusals - 1 /\ refusals > 0 /\ refusals \in 0..MaxRefusals
    BY DEF Refuses, IInv
<1>2. refusals' \in 0..MaxRefusals /\ StoreRefuses
    BY <1>1, LimitsAssumption DEF StoreRefuses
<1>3. \A id \in Tracks : Leaked(id)' => Leaked(id) \/ Attended(id)
    BY <1>1 DEF Leaked
<1>4. QED
    BY <1>1, <1>2, <1>3 DEF NoNewLeaks

\* What is neither orphaned nor left alone by a step does not leak by it.
LEMMA LeakFree ==
    ASSUME \A id \in Tracks : id \in Orphans(store') => id \in Orphans(store) \/ Attended(id)',
           \A id \in Tracks : id \in Orphans(store') /\ Attended(id) => Attended(id)'
    PROVE  NoNewLeaks
<1>1. ASSUME NEW id \in Tracks
      PROVE  Leaked(id)' <=> id \in Orphans(store') /\ ~Attended(id)'
    BY DEF Leaked, Orphans
<1>2. QED
    BY <1>1, LeakedMeans DEF NoNewLeaks

LEMMA AttendedOn ==
    ASSUME GoodQueue(queue), Keeps(queue, queue'), RemovalsGoOn,
           reader' = reader \/ reader.at # "drop",
           NEW id \in Tracks, Attended(id)
    PROVE  Attended(id)'
<1>1. CASE queue.active[id].stage = "audio"
    BY <1>1 DEF Keeps, Attended
<1>2. CASE \/ \E c \in Callers : command[c].at = "removing" /\ Head(command[c].todo) = id
           \/ reader.at = "drop" /\ reader.record.id = id
    BY <1>2 DEF Attended, RemovalsGoOn
<1>3. ASSUME NEW other \in Tracks, queue.active[other].stage = "evict",
             queue.active[other].victims[1] = id
      PROVE  Attended(id)'
    <2>1. queue'.active[other].stage = "evict" /\ queue'.active[other].victims[1] = id
        BY <1>3 DEF Keeps
    <2>2. QED
        BY <2>1 DEF Attended
<1>4. QED
    BY <1>1, <1>2, <1>3 DEF Attended

\* A step that orphans nothing and interrupts nobody.
LEMMA CalmStep ==
    ASSUME GoodQueue(queue), Keeps(queue, queue'), RemovalsGoOn,
           reader' = reader \/ reader.at # "drop",
           Orphans(store') \subseteq Orphans(store)
    PROVE  NoNewLeaks
BY AttendedOn, LeakFree

\* A queue that only lost jobs needs no new timer.
LEMMA QuietQueue ==
    ASSUME NEW q, NEW r, r.timer = q.timer,
           \A id \in Tracks : Active(r, id) <=> Active(q, id),
           \A id \in Tracks : Queued(r, id) =>
               Queued(q, id) /\ r.jobs[id].priority = q.jobs[id].priority
    PROVE  /\ r.quota = q.quota => (Awake(q) => Awake(r))
           /\ PrefetchAwake(q) => PrefetchAwake(r)
<1>1. ActiveIds(r) = ActiveIds(q)
    BY DEF ActiveIds
<1>2. Free(r) = Free(q)
    BY <1>1 DEF Free
<1>3. \A id \in QueuedIds(r) : id \in QueuedIds(q) /\ r.jobs[id].priority = q.jobs[id].priority
    BY DEF QueuedIds
<1>4. r.quota = q.quota => Considered(r) \subseteq Considered(q)
    BY <1>3 DEF Considered
<1>5. QED
    BY <1>2, <1>3, <1>4 DEF Awake, PrefetchAwake

LEMMA Woken ==
    ASSUME GoodQueue(queue'), online' => Awake(queue')
    PROVE  StaysAwake
BY AwakeForPrefetch DEF StaysAwake

LEMMA SameQueue ==
    ASSUME queue' = queue, online' = online
    PROVE  Keeps(queue, queue') /\ StaysAwake
BY DEF Keeps, StaysAwake

-----------------------------------------------------------------------------
(* The store *)

LEMMA PutDownloadOk ==
    ASSUME NEW s, StoreOk(s), NEW r \in Records
    PROVE  /\ StoreOk(PutDownload(s, r))
           /\ Orphans(PutDownload(s, r)) = Orphans(s) \ {r.id}
<1> DEFINE recs == UsedNow(s.records, r)
           t == [s EXCEPT !.records = recs]
<1>1. /\ recs \in Seq(Records) /\ DistinctIds(recs)
      /\ RecordIds(recs) = RecordIds(s.records) \cup {r.id}
    BY UsedRecord DEF StoreOk
<1> HIDE DEF recs
<1>2. StoreOk(t) /\ t.records = recs /\ t.audio = s.audio
    BY <1>1 DEF StoreOk
<1>3. t = PutDownload(s, r)
    BY DEF PutDownload, recs
<1> HIDE DEF t
<1>4. QED
    BY <1>1, <1>2, <1>3 DEF Orphans

LEMMA DeleteRecordOk ==
    ASSUME NEW s, StoreOk(s), NEW id
    PROVE  /\ StoreOk(DeleteRecord(s, id))
           /\ Orphans(DeleteRecord(s, id)) \subseteq Orphans(s) \cup {id}
<1> DEFINE recs == Without(s.records, id)
           t == [s EXCEPT !.records = recs]
<1>1. /\ recs \in Seq(Records) /\ DistinctIds(recs)
      /\ RecordIds(recs) = RecordIds(s.records) \ {id}
    BY WithoutRecord DEF StoreOk
<1> HIDE DEF recs
<1>2. StoreOk(t) /\ t.records = recs /\ t.audio = s.audio
    BY <1>1 DEF StoreOk
<1>3. t = DeleteRecord(s, id)
    BY DEF DeleteRecord, recs
<1> HIDE DEF t
<1>4. QED
    BY <1>1, <1>2, <1>3 DEF Orphans

LEMMA AudioOk ==
    ASSUME NEW s, StoreOk(s), NEW id \in Tracks
    PROVE  /\ StoreOk(PutAudio(s, id)) /\ StoreOk(DeleteAudio(s, id))
           /\ Orphans(PutAudio(s, id)) \subseteq Orphans(s) \cup {id}
           /\ Orphans(DeleteAudio(s, id)) = Orphans(s) \ {id}
<1> DEFINE more == [s EXCEPT !.audio = s.audio \cup {id}]
           less == [s EXCEPT !.audio = s.audio \ {id}]
<1>1. /\ StoreOk(more) /\ more.audio = s.audio \cup {id} /\ more.records = s.records
      /\ StoreOk(less) /\ less.audio = s.audio \ {id} /\ less.records = s.records
    BY DEF StoreOk
<1>2. more = PutAudio(s, id) /\ less = DeleteAudio(s, id)
    BY DEF PutAudio, DeleteAudio
<1> HIDE DEF more, less
<1>3. QED
    BY <1>1, <1>2 DEF Orphans

LEMMA SavePinsOk ==
    ASSUME StoreOk(store), NEW p \in Collections, store' = [store EXCEPT !.pins = p]
    PROVE  StoreOk(store') /\ Orphans(store') = Orphans(store)
BY DEF StoreOk, Orphans

-----------------------------------------------------------------------------
(* Calls from the engine *)

\* What is shown of every step.
Safe == IInv' /\ NoNewLeaks /\ StaysAwake

LEMMA CommandFacts ==
    ASSUME CommandsOk(command), NEW c \in Callers
    PROVE  /\ CommandOk(NoCommand) /\ NoCommand.at # "removing"
           /\ CommandOk(command[c]) /\ command[c].todo \in Seq(Tracks)
           /\ command[c].todo # <<>> =>
                  Head(command[c].todo) \in Tracks /\ Tail(command[c].todo) \in Seq(Tracks)
<1>1. CommandOk(NoCommand) /\ NoCommand.at # "removing"
    BY EmptySeq DEF CommandOk, NoCommand, Commands
<1>2. CommandOk(command[c]) /\ command[c].todo \in Seq(Tracks)
    BY DEF CommandsOk, CommandOk, Commands
<1>3. QED
    BY <1>1, <1>2, HeadTailProperties

\* The command of one caller goes on, and no other.
LEMMA BecomesOk ==
    ASSUME CommandsOk(command), NEW c \in Callers, NEW next, CommandOk(next), Becomes(c, next)
    PROVE  /\ CommandsOk(command') /\ command'[c] = next
           /\ \A other \in Callers \ {c} : command'[other] = command[other]
           /\ command[c].at # "removing" => RemovalsGoOn
<1>1. next \in Commands /\ command \in [Callers -> Commands]
    BY DEF CommandOk, CommandsOk
<1>2. /\ command' \in [Callers -> Commands] /\ command'[c] = next
      /\ \A other \in Callers \ {c} : command'[other] = command[other]
    BY <1>1 DEF Becomes
<1>3. QED
    BY <1>2 DEF CommandsOk, RemovalsGoOn

\* pump was called last: it saw to the timer, and let downloads go on.
LEMMA PumpedStep ==
    ASSUME IInv, GoodQueue(queue'), Keeps(queue, queue'), online' => Awake(queue'),
           UNCHANGED <<pins, records, reader, store, library, refusals>>,
           online' \in BOOLEAN, prefetch' \in PrefetchLists \cup {<<>>},
           CommandsOk(command'), RemovalsGoOn
    PROVE  Safe
<1>1. IInv'
    BY DEF IInv
<1>2. NoNewLeaks
    BY CalmStep DEF IInv, Orphans
<1>3. QED
    BY <1>1, <1>2, Woken DEF Safe

LEMMA SameCommands ==
    ASSUME IInv, command' = command
    PROVE  CommandsOk(command') /\ RemovalsGoOn
BY DEF IInv, RemovalsGoOn

LEMMA LibraryRevs ==
    ASSUME IInv
    PROVE  library \in [Tracks -> Revs \cup {NoRev}]
BY DEF IInv

LEMMA SetPrefetchSafe ==
    ASSUME IInv, NEW ids \in PrefetchLists, SetPrefetch(ids)
    PROVE  Safe
<1> DEFINE jobs == [id \in Tracks |->
               IF queue.jobs[id].priority < PinPriority /\ id \notin Range(ids) THEN NoJob
               ELSE queue.jobs[id]]
           kept == [queue EXCEPT !.jobs = jobs]
           all == EnqueueAll(kept, {ids}, library, 1)
<1>1. GoodQueue(queue) /\ online \in BOOLEAN
    BY DEF IInv
<1>2. jobs \in [Tracks -> Jobs \cup {NoJob}] /\ \A id \in Tracks : jobs[id] \in {NoJob, queue.jobs[id]}
    BY <1>1 DEF GoodQueue, Queues
<1> HIDE DEF jobs
<1>3. kept \in Queues /\ kept.jobs = jobs /\ kept.active = queue.active
    BY <1>1, <1>2 DEF GoodQueue, Queues
<1> HIDE DEF kept
<1>4. GoodQueue(kept) /\ Keeps(queue, kept)
    BY <1>1, <1>2, <1>3 DEF GoodQueue, Keeps
<1>5. {ids} \in SUBSET Seq(Tracks)
    BY PrioritiesAssumption
<1>6. GoodQueue(all) /\ Keeps(kept, all)
    BY <1>4, <1>5, LibraryRevs, EnqueueAllGood
<1> HIDE DEF all
<1>7. queue' \in Pump(all, online)
    BY DEF SetPrefetch, all, kept, jobs
<1>8. GoodQueue(queue') /\ Keeps(all, queue') /\ (online => Awake(queue'))
    BY <1>1, <1>6, <1>7, PumpGood
<1>9. Keeps(queue, queue')
    BY <1>4, <1>6, <1>8, KeepsTransitive
<1>10. QED
    BY <1>1, <1>8, <1>9, SameCommands, PumpedStep DEF SetPrefetch

LEMMA ResumePinsSafe ==
    ASSUME IInv, ResumePins
    PROVE  Safe
<1> DEFINE all == ResumedPins(queue, library)
<1>1. GoodQueue(queue) /\ online \in BOOLEAN /\ pins \in Collections
    BY DEF IInv
<1>2. GoodQueue(all) /\ Keeps(queue, all)
    BY <1>1, ListedPins, LibraryRevs, LimitsAssumption, EnqueueAllGood DEF ResumedPins
<1> HIDE DEF all
<1>3. queue' \in Pump(all, online)
    BY DEF ResumePins, all
<1>4. GoodQueue(queue') /\ Keeps(all, queue') /\ (online => Awake(queue'))
    BY <1>1, <1>2, <1>3, PumpGood
<1>5. Keeps(queue, queue')
    BY <1>2, <1>4, KeepsTransitive
<1>6. QED
    BY <1>1, <1>4, <1>5, SameCommands, PumpedStep DEF ResumePins, IInv

LEMMA RetrySafe ==
    ASSUME IInv, Retry \/ GoOnline
    PROVE  Safe
<1>1. GoodQueue(queue) /\ online \in BOOLEAN /\ pins \in Collections
    BY DEF IInv
<1>2. queue' \in Retried(online') /\ online' \in BOOLEAN
    BY <1>1 DEF Retry, GoOnline
<1>3. GoodQueue(queue') /\ Keeps(queue, queue') /\ (online' => Awake(queue'))
    <2> DEFINE up == online'
    <2>1. up \in BOOLEAN /\ queue' \in Retried(up)
        BY <1>2
    <2> HIDE DEF up
    <2>2. GoodQueue(queue') /\ Keeps(queue, queue') /\ (up => Awake(queue'))
        BY <1>1, <2>1, RetriedGood
    <2>3. QED
        BY <2>2 DEF up
<1>4. QED
    BY <1>2, <1>3, SameCommands, PumpedStep DEF Retry, GoOnline, IInv

LEMMA GoOfflineSafe ==
    ASSUME IInv, GoOffline
    PROVE  Safe
<1>1. IInv'
    BY DEF IInv, GoOffline
<1>2. NoNewLeaks
    BY CalmStep, SameCommands DEF IInv, GoOffline, Keeps
<1>3. StaysAwake
    BY DEF StaysAwake, GoOffline
<1>4. QED
    BY <1>1, <1>2, <1>3 DEF Safe

LEMMA TimerFiresSafe ==
    ASSUME IInv, TimerFires
    PROVE  Safe
<1>1. GoodQueue(queue) /\ online \in BOOLEAN
    BY DEF IInv
<1>2. GoodQueue(queue') /\ Keeps(queue, queue') /\ (online => Awake(queue'))
    BY <1>1, PumpGood DEF TimerFires
<1>3. QED
    BY <1>1, <1>2, SameCommands, PumpedStep DEF TimerFires, IInv

-----------------------------------------------------------------------------
(* Commands of the listener *)

LEMMA FinishPinSafe ==
    ASSUME IInv, NEW c \in Callers, FinishPin(c)
    PROVE  Safe
<1> DEFINE all == EnqueueAll(queue, {command[c].todo}, library, PinPriority)
<1>1. /\ GoodQueue(queue) /\ online \in BOOLEAN /\ command[c].todo \in Seq(Tracks)
      /\ CommandsOk(command) /\ CommandOk(NoCommand)
    BY CommandFacts DEF IInv
<1>2. {command[c].todo} \in SUBSET Seq(Tracks)
    BY <1>1
<1>3. GoodQueue(all) /\ Keeps(queue, all)
    BY <1>1, <1>2, LibraryRevs, LimitsAssumption, EnqueueAllGood
<1> HIDE DEF all
<1>4. queue' \in Pump(all, online)
    BY DEF FinishPin, all
<1>5. GoodQueue(queue') /\ Keeps(all, queue') /\ (online => Awake(queue'))
    BY <1>1, <1>3, <1>4, PumpGood
<1>6. Keeps(queue, queue')
    BY <1>3, <1>5, KeepsTransitive
<1>7. CommandsOk(command') /\ RemovalsGoOn
    <2>1. command[c].at # "removing"
        BY <1>1, CommandFacts DEF FinishPin, CommandOk
    <2>2. Becomes(c, NoCommand)
        BY DEF FinishPin
    <2>3. QED
        BY <1>1, <2>1, <2>2, BecomesOk
<1>8. QED
    BY <1>1, <1>5, <1>6, <1>7, PumpedStep DEF FinishPin, IInv

\* A request is refused, and whoever made it may give up.
LEMMA RefusedStep ==
    ASSUME IInv, Refuses, GoodQueue(queue'), StaysAwake, RecordsOk(records'),
           CommandsOk(command'), ReaderOk(reader'), pins' \in Collections,
           UNCHANGED <<prefetch, online, library>>
    PROVE  Safe
<1>1. store' = store /\ refusals' \in 0..MaxRefusals /\ NoNewLeaks
    BY RefusedLeaks
<1>2. IInv'
    BY <1>1 DEF IInv
<1>3. QED
    BY <1>1, <1>2 DEF Safe

\* The collections change, and nothing is queued or removed yet.
LEMMA SavedStep ==
    ASSUME IInv, NEW c \in Callers, command[c].at # "removing",
           NEW p \in Collections, NEW next, CommandOk(next), SavePins(c, p, next),
           GoodQueue(queue'), Keeps(queue, queue'), StaysAwake,
           UNCHANGED <<prefetch, records, reader, online, library>>
    PROVE  Safe
<1>1. CommandsOk(command) /\ CommandOk(NoCommand) /\ GoodQueue(queue) /\ StoreOk(store)
    BY CommandFacts DEF IInv
<1>2. CASE Works([store EXCEPT !.pins = p]) /\ Becomes(c, next)
    <2>1. StoreOk(store') /\ Orphans(store') = Orphans(store) /\ refusals' = refusals
        BY <1>1, <1>2, SavePinsOk DEF Works
    <2>2. CommandsOk(command') /\ RemovalsGoOn
        BY <1>1, <1>2, BecomesOk
    <2>3. IInv'
        BY <2>1, <2>2 DEF IInv, SavePins
    <2>4. NoNewLeaks
        BY <1>1, <2>1, <2>2, CalmStep
    <2>5. QED
        BY <2>3, <2>4 DEF Safe
<1>3. CASE GivesUp(c)
    <2>1. CommandsOk(command')
        BY <1>1, <1>3, BecomesOk DEF GivesUp
    <2>2. QED
        BY <1>3, <2>1, RefusedStep DEF IInv, SavePins, GivesUp
<1>4. QED
    BY <1>2, <1>3 DEF SavePins

LEMMA CollectionFacts ==
    ASSUME pins \in Collections
    PROVE  /\ <<>> \in Collections
           /\ DOMAIN pins \subseteq Keys /\ \A k \in DOMAIN pins : pins[k] \in PinLists
<1>1. PICK keys \in SUBSET Keys : pins \in [keys -> PinLists]
    BY DEF Collections
<1>2. <<>> \in [{} -> PinLists]
    OBVIOUS
<1>3. <<>> \in Collections
    BY <1>2 DEF Collections
<1>4. QED
    BY <1>1, <1>3

LEMMA StartPinSafe ==
    ASSUME IInv, NEW c \in Callers, NEW key \in Keys, NEW ids \in PinLists, StartPin(c, key, ids)
    PROVE  Safe
<1> DEFINE p == [k \in DOMAIN pins \cup {key} |-> IF k = key THEN ids ELSE pins[k]]
           next == [op |-> "pin", at |-> "saving", todo |-> ids]
<1>1. DOMAIN pins \cup {key} \in SUBSET Keys /\ p \in [DOMAIN pins \cup {key} -> PinLists]
    BY CollectionFacts DEF IInv
<1>2. p \in Collections
    BY <1>1 DEF Collections
<1>3. SavePins(c, p, next) /\ command[c].at # "removing"
    BY DEF StartPin, NoCommand
<1>4. CommandOk(next)
    BY PrioritiesAssumption DEF CommandOk, Commands
<1> HIDE DEF p, next
<1>5. UNCHANGED <<queue, prefetch, records, reader, online, library>>
    BY DEF StartPin
<1>6. QED
    BY <1>2, <1>3, <1>4, <1>5, SameQueue, SavedStep DEF IInv

LEMMA StartUnpinSafe ==
    ASSUME IInv, NEW c \in Callers, NEW key \in Keys, StartUnpin(c, key)
    PROVE  Safe
<1> DEFINE p == [k \in DOMAIN pins \ {key} |-> pins[k]]
           next == [op |-> "unpin", at |-> "next", todo |-> pins[key]]
<1>1. DOMAIN pins \ {key} \in SUBSET Keys /\ p \in [DOMAIN pins \ {key} -> PinLists]
    BY CollectionFacts DEF IInv
<1>2. p \in Collections
    BY <1>1 DEF Collections
<1>3. SavePins(c, p, next) /\ command[c].at # "removing"
    BY DEF StartUnpin, NoCommand
<1>4. CommandOk(next)
    <2>1. pins[key] \in Seq(Tracks)
        BY CollectionFacts, PrioritiesAssumption DEF StartUnpin, IInv
    <2>2. QED
        BY <2>1 DEF CommandOk, Commands
<1> HIDE DEF p, next
<1>5. UNCHANGED <<queue, prefetch, records, reader, online, library>>
    BY DEF StartUnpin
<1>6. QED
    BY <1>2, <1>3, <1>4, <1>5, SameQueue, SavedStep DEF IInv

LEMMA StartClearSafe ==
    ASSUME IInv, NEW c \in Callers, StartClear(c)
    PROVE  Safe
<1> DEFINE jobs == [id \in Tracks |-> NoJob]
           active == [id \in Tracks |-> IF Active(queue, id) THEN [queue.active[id] EXCEPT !.aborted = TRUE]
                                        ELSE NotActive]
           q == [queue EXCEPT !.jobs = jobs, !.active = active]
<1>1. GoodQueue(queue) /\ queue \in Queues
    BY DEF IInv, GoodQueue
<1>2. queue' = q
    BY DEF StartClear
<1>3. ASSUME NEW id \in Tracks
      PROVE  /\ active[id] \in Downloads /\ GoodDownload(active[id])
             /\ active[id].stage = queue.active[id].stage
             /\ queue.active[id].stage # "none" => active[id].victims = queue.active[id].victims
    <2>1. CASE Active(queue, id)
        <3> DEFINE d == queue.active[id]
        <3>1. d \in Downloads /\ GoodDownload(d) /\ d.stage # "none"
            BY <1>1, <2>1, ActiveStage DEF GoodQueue, Queues
        <3>2. active[id] = [d EXCEPT !.aborted = TRUE]
            BY <2>1
        <3> HIDE DEF d, active
        <3>3. /\ active[id] \in Downloads /\ active[id].stage = d.stage /\ active[id].job = d.job
              /\ active[id].victims = d.victims
            BY <3>1, <3>2 DEF Downloads
        <3>4. QED
            BY <3>1, <3>3 DEF GoodDownload, d
    <2>2. CASE ~Active(queue, id)
        BY <1>1, <2>2, JobFacts, ActiveStage DEF NotActive
    <2>3. QED
        BY <2>1, <2>2
<1>4. active = [id \in Tracks |-> active[id]]
    OBVIOUS
<1> HIDE DEF active
<1>5. active \in [Tracks -> Downloads] /\ jobs \in [Tracks -> Jobs \cup {NoJob}]
    BY <1>3, <1>4
<1>6. /\ q \in Queues /\ q.jobs = jobs /\ q.active = active /\ q.timer = queue.timer
      /\ q.quota = queue.quota
    BY <1>1, <1>5 DEF Queues
<1> HIDE DEF q
<1>7. GoodQueue(q) /\ Keeps(queue, q)
    BY <1>3, <1>6 DEF GoodQueue, Keeps
<1>8. \A id \in Tracks : ~Queued(q, id) /\ (Active(q, id) <=> Active(queue, id))
    BY <1>1, <1>3, <1>6, <1>7, ActiveStage DEF Queued
<1>9. (Awake(queue) => Awake(q)) /\ (PrefetchAwake(queue) => PrefetchAwake(q))
    BY <1>6, <1>8, QuietQueue
<1>10. StaysAwake
    BY <1>2, <1>9 DEF StaysAwake, StartClear
<1> DEFINE next == [op |-> "clear", at |-> "saving", todo |-> <<>>]
<1>11. CommandOk(next) /\ command[c].at # "removing"
    BY EmptySeq DEF StartClear, NoCommand, CommandOk, Commands
<1>12. SavePins(c, <<>>, next) /\ UNCHANGED <<prefetch, records, reader, online, library>>
    BY DEF StartClear
<1> HIDE DEF next
<1>13. QED
    BY <1>2, <1>7, <1>10, <1>11, <1>12, CollectionFacts, SavedStep DEF IInv

\* A record goes, and somebody is about to see to its audio.
LEMMA ForgottenStep ==
    ASSUME IInv, NEW id \in Tracks, RecordsOk(records'), Works(DeleteRecord(store, id)),
           GoodQueue(queue'), Keeps(queue, queue'), StaysAwake,
           CommandsOk(command'), RemovalsGoOn,
           ReaderOk(reader'), reader' = reader \/ reader.at # "drop",
           Attended(id)', UNCHANGED <<pins, prefetch, online, library>>
    PROVE  Safe
<1>1. /\ StoreOk(store') /\ Orphans(store') \subseteq Orphans(store) \cup {id}
      /\ refusals' = refusals
    BY DeleteRecordOk DEF Works, IInv
<1>2. IInv'
    BY <1>1 DEF IInv
<1>3. \A x \in Tracks : Attended(x) => Attended(x)'
    BY AttendedOn DEF IInv
<1>4. NoNewLeaks
    <2>1. \A x \in Tracks : x \in Orphans(store') => x \in Orphans(store) \/ Attended(x)'
        BY <1>1
    <2>2. QED
        BY <1>3, <2>1, LeakFree
<1>5. QED
    BY <1>2, <1>4 DEF Safe

\* Audio goes, and whoever waited for it may turn to something else.
LEMMA DroppedStep ==
    ASSUME IInv, NEW id \in Tracks, DropAudio(id), CommandsOk(command'), ReaderOk(reader'),
           \A x \in Tracks \ {id} : Attended(x) => Attended(x)',
           UNCHANGED <<queue, records, pins, prefetch, online, library>>
    PROVE  Safe
<1>1. StoreOk(store') /\ Orphans(store') = Orphans(store) \ {id} /\ refusals' = refusals
    BY AudioOk DEF DropAudio, Works, IInv
<1>2. IInv'
    BY <1>1 DEF IInv
<1>3. NoNewLeaks
    BY <1>1, LeakFree
<1>4. QED
    BY <1>2, <1>3, SameQueue DEF Safe

\* Only the command in progress goes on.
LEMMA CommandStepSafe ==
    ASSUME IInv, GoodQueue(queue'), Keeps(queue, queue'), StaysAwake,
           CommandsOk(command'), RemovalsGoOn,
           UNCHANGED <<pins, prefetch, records, reader, store, online, library, refusals>>
    PROVE  Safe
<1>1. IInv'
    BY DEF IInv
<1>2. NoNewLeaks
    BY CalmStep DEF IInv
<1>3. QED
    BY <1>1, <1>2 DEF Safe

\* A command removes the record of the track at the head of its list.
LEMMA RemoveHeadSafe ==
    ASSUME IInv, NEW c \in Callers, RemoveHead(c),
           command[c].at = "next", command[c].op \in {"unpin", "clear"}, command[c].todo # <<>>,
           GoodQueue(queue'), Keeps(queue, queue'), StaysAwake,
           UNCHANGED <<pins, prefetch, reader, online, library>>
    PROVE  Safe
<1>1. PICK id \in Tracks : id = Head(command[c].todo)
    BY CommandFacts DEF IInv
<1>2. /\ CommandsOk(command) /\ CommandOk(command[c]) /\ CommandOk(NoCommand)
      /\ pins \in Collections /\ RecordsOk(records) /\ ReaderOk(reader)
    BY CommandFacts DEF IInv
<1>3. RecordsOk(records')
    BY <1>1, <1>2, WithoutRecord DEF RemoveHead, RecordsOk
<1> DEFINE next == [command[c] EXCEPT !.at = "removing"]
<1>4. /\ CommandOk(next) /\ next.at = "removing" /\ next.todo = command[c].todo
    BY <1>2 DEF CommandOk, Commands
<1>5. CASE Works(DeleteRecord(store, id)) /\ Becomes(c, next)
    <2> HIDE DEF next
    <2>1. CommandsOk(command') /\ command'[c] = next /\ RemovalsGoOn
        BY <1>2, <1>4, <1>5, BecomesOk
    <2>2. Attended(id)'
        BY <1>1, <1>4, <2>1 DEF Attended
    <2>3. QED
        BY <1>2, <1>3, <1>5, <2>1, <2>2, ForgottenStep
<1>6. CASE GivesUp(c)
    <2>1. CommandsOk(command')
        BY <1>2, <1>6, BecomesOk DEF GivesUp
    <2>2. QED
        BY <1>2, <1>3, <1>6, <2>1, RefusedStep DEF GivesUp
<1>7. QED
    BY <1>1, <1>5, <1>6 DEF RemoveHead

LEMMA UnpinNextSafe ==
    ASSUME IInv, NEW c \in Callers, UnpinNext(c)
    PROVE  Safe
<1>0. PICK id \in Tracks : id = Head(command[c].todo)
    BY CommandFacts DEF IInv, UnpinNext
<1> DEFINE goes == ~Wanted(id) /\ Downloaded(id)
           next == [command[c] EXCEPT !.todo = Tail(command[c].todo)]
<1>1. /\ Tail(command[c].todo) \in Seq(Tracks)
      /\ command[c].op = "unpin" /\ command[c].at = "next" /\ command[c].todo # <<>>
      /\ GoodQueue(queue) /\ CommandsOk(command) /\ CommandOk(command[c])
    BY CommandFacts DEF IInv, UnpinNext
<1>2. /\ queue' = IF Pinned(id) THEN queue ELSE Cancelled(queue, id)
      /\ IF goes THEN RemoveHead(c)
         ELSE Becomes(c, next) /\ UNCHANGED <<records, store, refusals>>
      /\ UNCHANGED <<pins, prefetch, reader, online, library>>
    BY <1>0 DEF UnpinNext
<1> HIDE DEF goes
<1>3. GoodQueue(queue') /\ Keeps(queue, queue') /\ StaysAwake
    <2>1. CASE Pinned(id)
        BY <1>1, <1>2, <2>1, SameQueue
    <2>2. CASE ~Pinned(id)
        <3> DEFINE r == Cancelled(queue, id)
        <3>1. /\ GoodQueue(r) /\ Keeps(queue, r)
              /\ r.timer = queue.timer /\ r.quota = queue.quota
              /\ \A other \in Tracks : Active(r, other) <=> Active(queue, other)
              /\ \A other \in Tracks : r.jobs[other] \in {NoJob, queue.jobs[other]}
            BY <1>1, CancelledGood
        <3>2. queue' = r
            BY <1>2, <2>2
        <3> HIDE DEF r
        <3>3. \A other \in Tracks : Queued(r, other) =>
                  Queued(queue, other) /\ r.jobs[other].priority = queue.jobs[other].priority
            BY <3>1 DEF Queued
        <3>4. (Awake(queue) => Awake(r)) /\ (PrefetchAwake(queue) => PrefetchAwake(r))
            BY <3>1, <3>3, QuietQueue
        <3>5. QED
            BY <1>2, <3>1, <3>2, <3>4 DEF StaysAwake
    <2>3. QED
        BY <2>1, <2>2
<1>4. CASE goes
    BY <1>1, <1>2, <1>3, <1>4, RemoveHeadSafe
<1>5. CASE ~goes
    <2>1. CommandOk(next)
        BY <1>1 DEF CommandOk, Commands
    <2> HIDE DEF next
    <2>2. CommandsOk(command') /\ RemovalsGoOn
        BY <1>1, <1>2, <1>5, <2>1, BecomesOk
    <2>3. QED
        BY <1>2, <1>3, <1>5, <2>2, CommandStepSafe
<1>6. QED
    BY <1>4, <1>5

LEMMA ListRecordsSafe ==
    ASSUME IInv, NEW c \in Callers, ListRecords(c)
    PROVE  Safe
<1> DEFINE ids == [i \in DOMAIN records |-> records[i].id]
<1>1. records \in Seq(Records)
    BY DEF IInv, RecordsOk
<1>2. Len(records) \in Nat /\ DOMAIN records = 1..Len(records)
    BY <1>1, LenProperties
<1>3. \A i \in 1..Len(records) : records[i].id \in Tracks
    <2>1. \A i \in 1..Len(records) : records[i] \in Records
        BY <1>1, ElementOfSeq
    <2>2. QED
        BY <2>1 DEF Records
<1>4. ids \in [1..Len(records) -> Tracks]
    BY <1>2, <1>3
<1>5. ids \in Seq(Tracks)
    BY <1>2, <1>4
<1> HIDE DEF ids
<1> DEFINE next == [command[c] EXCEPT !.at = "next", !.todo = ids]
<1>6. Becomes(c, next) /\ command[c].at # "removing"
    BY DEF ListRecords, ids
<1>7. CommandOk(next) /\ CommandsOk(command)
    <2>1. CommandsOk(command) /\ CommandOk(command[c])
        BY CommandFacts DEF IInv
    <2>2. QED
        BY <1>5, <2>1 DEF CommandOk, Commands
<1> HIDE DEF next
<1>8. CommandsOk(command') /\ RemovalsGoOn
    BY <1>6, <1>7, BecomesOk
<1>9. QED
    BY <1>8, SameQueue, CommandStepSafe DEF ListRecords, IInv

LEMMA ClearNextSafe ==
    ASSUME IInv, NEW c \in Callers, ClearNext(c)
    PROVE  Safe
BY SameQueue, RemoveHeadSafe DEF ClearNext, IInv

LEMMA RemovedSafe ==
    ASSUME IInv, NEW c \in Callers, Removed(c)
    PROVE  Safe
<1>1. /\ CommandsOk(command) /\ CommandOk(command[c]) /\ CommandOk(NoCommand)
      /\ command[c].at = "removing" /\ GoodQueue(queue) /\ RecordsOk(records)
      /\ ReaderOk(reader) /\ pins \in Collections
    BY CommandFacts DEF IInv, Removed
<1>2. PICK id \in Tracks : id = Head(command[c].todo)
    BY <1>1, CommandFacts DEF CommandOk
<1> DEFINE next == [command[c] EXCEPT !.at = "next", !.todo = Tail(command[c].todo)]
<1>3. UNCHANGED <<queue, pins, prefetch, records, reader, online, library>>
    BY DEF Removed
<1>4. CommandOk(next)
    <2>1. Tail(command[c].todo) \in Seq(Tracks)
        BY <1>1, CommandFacts DEF CommandOk
    <2>2. QED
        BY <1>1, <2>1 DEF CommandOk, Commands
<1>5. CASE DropAudio(id) /\ Becomes(c, next)
    <2> HIDE DEF next
    <2>1. CommandsOk(command') /\ \A other \in Callers \ {c} : command'[other] = command[other]
        BY <1>1, <1>4, <1>5, BecomesOk
    <2>2. \A x \in Tracks \ {id} : Attended(x) => Attended(x)'
        BY <1>2, <1>3, <2>1 DEF Attended
    <2>3. QED
        BY <1>1, <1>3, <1>5, <2>1, <2>2, DroppedStep
<1>6. CASE GivesUp(c)
    <2>1. CommandsOk(command')
        BY <1>1, <1>6, BecomesOk DEF GivesUp
    <2>2. QED
        BY <1>1, <1>3, <1>6, <2>1, SameQueue, RefusedStep DEF GivesUp
<1>7. QED
    BY <1>2, <1>5, <1>6 DEF Removed

\* The one step that may put pump to sleep is a clear that lifts the quota.
LEMMA FinishCommandSafe ==
    ASSUME IInv, NEW c \in Callers, FinishCommand(c)
    PROVE  /\ IInv' /\ NoNewLeaks
           /\ LiftsQuota \/ ((online => Awake(queue)) => (online' => Awake(queue')))
           /\ (online => PrefetchAwake(queue)) => (online' => PrefetchAwake(queue'))
<1> DEFINE lifted == [queue EXCEPT !.failed = {}, !.quota = FALSE]
<1>1. GoodQueue(queue) /\ queue \in Queues
    BY DEF IInv, GoodQueue
<1>2. /\ lifted \in Queues /\ lifted.jobs = queue.jobs /\ lifted.active = queue.active
      /\ lifted.timer = queue.timer /\ lifted.quota = FALSE
    BY <1>1 DEF Queues
<1>3. queue' = IF command[c].op = "clear" THEN lifted ELSE queue
    BY DEF FinishCommand
<1> HIDE DEF lifted
<1>4. queue' \in Queues /\ queue'.jobs = queue.jobs /\ queue'.active = queue.active
      /\ queue'.timer = queue.timer
    BY <1>1, <1>2, <1>3
<1>5. GoodQueue(queue') /\ Keeps(queue, queue')
    BY <1>1, <1>4 DEF GoodQueue, Keeps
<1>6. CommandsOk(command') /\ RemovalsGoOn
    <2>1. CommandsOk(command) /\ CommandOk(NoCommand)
        BY CommandFacts DEF IInv
    <2>2. command[c].at # "removing" /\ Becomes(c, NoCommand)
        BY DEF FinishCommand
    <2>3. QED
        BY <2>1, <2>2, BecomesOk
<1>7. UNCHANGED <<pins, prefetch, records, reader, store, online, library, refusals>>
    BY DEF FinishCommand
<1>8. IInv'
    BY <1>5, <1>6, <1>7 DEF IInv
<1>9. NoNewLeaks
    BY <1>5, <1>6, <1>7, CalmStep DEF IInv
<1>10. /\ queue'.quota = queue.quota => (Awake(queue) => Awake(queue'))
       /\ PrefetchAwake(queue) => PrefetchAwake(queue')
    <2> DEFINE r == queue'
    <2>1. /\ r.timer = queue.timer
          /\ \A id \in Tracks : Active(r, id) <=> Active(queue, id)
          /\ \A id \in Tracks : Queued(r, id) =>
                 Queued(queue, id) /\ r.jobs[id].priority = queue.jobs[id].priority
        BY <1>4 DEF Active, Queued
    <2> HIDE DEF r
    <2>2. /\ r.quota = queue.quota => (Awake(queue) => Awake(r))
          /\ PrefetchAwake(queue) => PrefetchAwake(r)
        BY <2>1, QuietQueue
    <2>3. QED
        BY <2>2 DEF r
<1>11. LiftsQuota \/ queue'.quota = queue.quota
    BY <1>1, <1>2, <1>3 DEF LiftsQuota, Queues
<1>12. QED
    BY <1>7, <1>8, <1>9, <1>10, <1>11

-----------------------------------------------------------------------------
(* A download *)

\* A download goes on with something else.
LEMMA DownloadGoesOn ==
    ASSUME GoodQueue(queue), NEW id \in Tracks, queue.active[id].stage # "none",
           NEW d \in Downloads, GoodDownload(d), d.stage # "none",
           queue' = [queue EXCEPT !.active[id] = d], online' = online
    PROVE  /\ GoodQueue(queue') /\ StaysAwake
           /\ queue'.active[id] = d
           /\ \A other \in Tracks \ {id} : queue'.active[other] = queue.active[other]
<1>1. queue \in Queues
    BY DEF GoodQueue
<1> DEFINE r == queue'
<1>2. /\ r \in Queues /\ r.jobs = queue.jobs /\ r.timer = queue.timer /\ r.quota = queue.quota
      /\ r.active[id] = d
      /\ \A other \in Tracks \ {id} : r.active[other] = queue.active[other]
    BY <1>1 DEF Queues
<1> HIDE DEF r
<1>3. GoodQueue(r)
    BY <1>2 DEF GoodQueue
<1>4. \A other \in Tracks : Active(r, other) <=> Active(queue, other)
    BY <1>2, <1>3, ActiveStage
<1>5. \A other \in Tracks : Queued(r, other) =>
          Queued(queue, other) /\ r.jobs[other].priority = queue.jobs[other].priority
    BY <1>2 DEF Queued
<1>6. (Awake(queue) => Awake(r)) /\ (PrefetchAwake(queue) => PrefetchAwake(r))
    BY <1>2, <1>4, <1>5, QuietQueue
<1>7. QED
    BY <1>2, <1>3, <1>6 DEF r, StaysAwake

\* Who attended to a track still does when a download ends that did not.
LEMMA AttendedAtEnd ==
    ASSUME GoodQueue(queue), NEW id \in Tracks, NEW q,
           q.active = [queue.active EXCEPT ![id] = NotActive], Keeps(q, queue'),
           queue.active[id].stage # "audio", UNCHANGED <<command, reader>>,
           NEW x \in Tracks, Attended(x),
           ~(queue.active[id].stage = "evict" /\ queue.active[id].victims[1] = x)
    PROVE  Attended(x)'
<1>1. \A other \in Tracks \ {id} : q.active[other] = queue.active[other]
    BY DEF GoodQueue, Queues
<1>2. ASSUME NEW other \in Tracks \ {id}, queue.active[other].stage # "none"
      PROVE  /\ queue'.active[other].stage = queue.active[other].stage
             /\ queue'.active[other].victims = queue.active[other].victims
    BY <1>1, <1>2 DEF Keeps
<1>3. CASE queue.active[x].stage = "audio"
    <2>1. x \in Tracks \ {id}
        BY <1>3
    <2>2. queue'.active[x].stage = "audio"
        BY <1>2, <1>3, <2>1
    <2>3. QED
        BY <2>2 DEF Attended
<1>4. CASE \/ \E c \in Callers : command[c].at = "removing" /\ Head(command[c].todo) = x
           \/ reader.at = "drop" /\ reader.record.id = x
    BY <1>4 DEF Attended
<1>5. ASSUME NEW other \in Tracks, queue.active[other].stage = "evict",
             queue.active[other].victims[1] = x
      PROVE  Attended(x)'
    <2>1. other \in Tracks \ {id}
        BY <1>5
    <2>2. queue'.active[other].stage = "evict" /\ queue'.active[other].victims[1] = x
        BY <1>2, <1>5, <2>1
    <2>3. QED
        BY <2>2 DEF Attended
<1>6. QED
    BY <1>3, <1>4, <1>5 DEF Attended

\* A download that ends with a queue q, and leaves the store alone.
LEMMA EndedStep ==
    ASSUME IInv, NEW id \in Tracks,
           queue.active[id].stage \in {"fetch", "record", "next", "refused"},
           NEW q, Ends(id, q),
           GoodQueue([q EXCEPT !.active[id] = NotActive]),
           [q EXCEPT !.active[id] = NotActive].active = [queue.active EXCEPT ![id] = NotActive],
           RecordsOk(records'),
           UNCHANGED <<pins, prefetch, command, reader, store, online, library, refusals>>
    PROVE  Safe
<1> DEFINE free == [q EXCEPT !.active[id] = NotActive]
<1>1. GoodQueue(queue') /\ Keeps(free, queue') /\ (online => Awake(queue'))
    BY EndsGood DEF IInv
<1>2. free.active = [queue.active EXCEPT ![id] = NotActive]
    OBVIOUS
<1> HIDE DEF free
<1>3. IInv'
    BY <1>1 DEF IInv
<1>4. \A x \in Tracks : Attended(x) => Attended(x)'
    <2>1. GoodQueue(queue) /\ queue.active[id].stage # "audio" /\ queue.active[id].stage # "evict"
          /\ UNCHANGED <<command, reader>>
        BY DEF IInv
    <2>2. QED
        BY <1>1, <1>2, <2>1, AttendedAtEnd
<1>5. NoNewLeaks
    BY <1>4, LeakFree
<1>6. QED
    BY <1>1, <1>3, <1>5, Woken DEF Safe

\* A queue whose download has ended, with another set of failures.
LEMMA FreePlace ==
    ASSUME GoodQueue(queue), NEW id \in Tracks, queue.active[id].stage # "none",
           NEW failed \in SUBSET Tracks, NEW quota \in BOOLEAN
    PROVE  LET q == [queue EXCEPT !.failed = failed, !.quota = quota]
               free == [q EXCEPT !.active[id] = NotActive]
           IN  GoodQueue(free) /\ free.active = [queue.active EXCEPT ![id] = NotActive]
<1> DEFINE active == [queue.active EXCEPT ![id] = NotActive]
           free == [queue EXCEPT !.failed = failed, !.quota = quota, !.active = active]
<1>1. queue \in Queues
    BY DEF GoodQueue
<1>2. /\ active \in [Tracks -> Downloads]
      /\ \A other \in Tracks : active[other] = NotActive \/ active[other] = queue.active[other]
    BY <1>1, JobFacts DEF Queues
<1>3. free = [[queue EXCEPT !.failed = failed, !.quota = quota] EXCEPT !.active[id] = NotActive]
    BY <1>1 DEF Queues
<1> HIDE DEF active
<1>4. free \in Queues /\ free.active = active /\ free.jobs = queue.jobs
    BY <1>1, <1>2 DEF Queues
<1> HIDE DEF free
<1>5. \A other \in Tracks : /\ GoodDownload(active[other])
                            /\ queue.jobs[other] # NoJob => active[other].stage = "none"
    <2> TAKE other \in Tracks
    <2>1. CASE active[other] = NotActive
        <3>1. NotActive.stage = "none"
            BY DEF NotActive
        <3>2. QED
            BY <2>1, <3>1, JobFacts
    <2>2. CASE active[other] = queue.active[other]
        BY <2>2 DEF GoodQueue
    <2>3. QED
        BY <1>2, <2>1, <2>2
<1>6. GoodQueue(free)
    BY <1>4, <1>5 DEF GoodQueue
<1>7. QED
    BY <1>3, <1>4, <1>6 DEF active

LEMMA FetchBreaksSafe ==
    ASSUME IInv, NEW id \in Tracks, FetchBreaks(id)
    PROVE  Safe
<1>1. GoodQueue(queue) /\ queue.active[id].stage = "fetch" /\ RecordsOk(records')
      /\ UNCHANGED <<pins, prefetch, command, reader, store, online, library, refusals>>
    BY DEF IInv, FetchBreaks
<1>2. PICK stalled \in BOOLEAN :
          Ends(id, RetriedLater([queue EXCEPT !.active[id].aborted = @ \/ stalled], id))
    BY DEF FetchBreaks
<1> DEFINE q == RetriedLater([queue EXCEPT !.active[id].aborted = @ \/ stalled], id)
           free == [q EXCEPT !.active[id] = NotActive]
<1>3. GoodQueue(free) /\ free.active = [queue.active EXCEPT ![id] = NotActive]
    BY <1>1, RetriedLaterGood
<1>4. Ends(id, q)
    BY <1>2
<1> HIDE DEF q
<1>5. QED
    BY <1>1, <1>3, <1>4, EndedStep

\* A download that fails for good, with a quota that is used up or not.
LEMMA FailedGood ==
    ASSUME GoodQueue(queue), NEW id \in Tracks, queue.active[id].stage # "none",
           NEW quota \in BOOLEAN
    PROVE  LET q == [queue EXCEPT !.failed = queue.failed \cup {id}, !.quota = quota]
               free == [q EXCEPT !.active[id] = NotActive]
           IN  GoodQueue(free) /\ free.active = [queue.active EXCEPT ![id] = NotActive]
<1> DEFINE failed == queue.failed \cup {id}
<1>1. failed \in SUBSET Tracks
    BY DEF GoodQueue, Queues
<1> HIDE DEF failed
<1>2. LET q == [queue EXCEPT !.failed = failed, !.quota = quota]
          free == [q EXCEPT !.active[id] = NotActive]
      IN  GoodQueue(free) /\ free.active = [queue.active EXCEPT ![id] = NotActive]
    BY <1>1, FreePlace
<1>3. QED
    BY <1>2 DEF failed

LEMMA FetchRefusedSafe ==
    ASSUME IInv, NEW id \in Tracks, FetchRefused(id)
    PROVE  Safe
<1>1. /\ GoodQueue(queue) /\ queue \in Queues /\ queue.active[id].stage = "fetch" /\ RecordsOk(records')
      /\ UNCHANGED <<pins, prefetch, command, reader, store, online, library, refusals>>
    BY DEF IInv, FetchRefused, GoodQueue
<1> DEFINE p == [queue EXCEPT !.failed = queue.failed \cup {id}]
           q == [queue EXCEPT !.failed = queue.failed \cup {id}, !.quota = queue.quota]
           free == [q EXCEPT !.active[id] = NotActive]
<1>2. p = q /\ queue.quota \in BOOLEAN
    BY <1>1 DEF Queues
<1>3. Ends(id, p)
    BY DEF FetchRefused
<1>4. GoodQueue(free) /\ free.active = [queue.active EXCEPT ![id] = NotActive]
    BY <1>1, <1>2, FailedGood
<1> HIDE DEF p, q
<1>5. QED
    BY <1>1, <1>2, <1>3, <1>4, EndedStep

LEMMA RequestRefusedSafe ==
    ASSUME IInv, NEW id \in Tracks, RequestRefused(id)
    PROVE  Safe
<1>1. /\ GoodQueue(queue) /\ queue \in Queues /\ queue.active[id].stage = "refused"
      /\ queue.active[id] \in Downloads /\ RecordsOk(records')
      /\ UNCHANGED <<pins, prefetch, command, reader, store, online, library, refusals>>
    BY DEF IInv, RequestRefused, GoodQueue, Queues
<1> DEFINE full == [queue EXCEPT !.failed = queue.failed \cup {id}, !.quota = TRUE]
<1>2. ASSUME NEW q \in {RetriedLater(queue, id), queue, full}
      PROVE  LET free == [q EXCEPT !.active[id] = NotActive]
             IN  GoodQueue(free) /\ free.active = [queue.active EXCEPT ![id] = NotActive]
    <2>1. CASE q = RetriedLater(queue, id)
        <3> DEFINE r == [queue EXCEPT !.active[id].aborted = @ \/ FALSE]
        <3>1. r = queue
            <4>1. queue.active[id].aborted \in BOOLEAN
                BY <1>1 DEF Downloads
            <4>2. (queue.active[id].aborted \/ FALSE) = queue.active[id].aborted
                BY <4>1
            <4>3. [queue.active[id] EXCEPT !.aborted = queue.active[id].aborted] = queue.active[id]
                BY <1>1 DEF Downloads
            <4>4. [queue EXCEPT !.active[id] = queue.active[id]] = queue
                BY <1>1 DEF Queues
            <4>5. QED
                BY <4>2, <4>3, <4>4
        <3>2. LET free == [RetriedLater(r, id) EXCEPT !.active[id] = NotActive]
              IN  GoodQueue(free) /\ free.active = [queue.active EXCEPT ![id] = NotActive]
            BY <1>1, RetriedLaterGood
        <3> HIDE DEF r
        <3>3. QED
            BY <2>1, <3>1, <3>2
    <2>2. CASE q = queue
        <3> DEFINE r == [queue EXCEPT !.failed = queue.failed, !.quota = queue.quota]
        <3>1. r = queue /\ queue.failed \in SUBSET Tracks /\ queue.quota \in BOOLEAN
            BY <1>1 DEF Queues
        <3>2. LET free == [r EXCEPT !.active[id] = NotActive]
              IN  GoodQueue(free) /\ free.active = [queue.active EXCEPT ![id] = NotActive]
            BY <1>1, <3>1, FreePlace
        <3> HIDE DEF r
        <3>3. QED
            BY <2>2, <3>1, <3>2
    <2>3. CASE q = full
        BY <1>1, <2>3, FailedGood
    <2>4. QED
        BY <2>1, <2>2, <2>3
<1>3. \E q \in {RetriedLater(queue, id), queue, full} : Ends(id, q)
    BY DEF RequestRefused
<1> HIDE DEF full
<1>4. QED
    BY <1>1, <1>2, <1>3, EndedStep

\* A download comes to another stage, in its place.
LEMMA ReachesStage ==
    ASSUME IInv, NEW id \in Tracks, queue.active[id].stage # "none",
           NEW stage \in {"audio", "record", "next", "refused"}, Reaches(id, stage),
           stage = "next" => queue.active[id].victims # <<>>, online' = online
    PROVE  /\ GoodQueue(queue') /\ StaysAwake
           /\ queue'.active[id].stage = stage /\ queue'.active[id].victims = queue.active[id].victims
           /\ \A other \in Tracks \ {id} : queue'.active[other] = queue.active[other]
<1> DEFINE d == [queue.active[id] EXCEPT !.stage = stage]
<1>1. /\ GoodQueue(queue) /\ queue \in Queues /\ queue.active[id] \in Downloads
      /\ GoodDownload(queue.active[id])
    BY DEF IInv, GoodQueue, Queues
<1>2. d \in Downloads /\ d.stage = stage /\ d.victims = queue.active[id].victims /\ GoodDownload(d)
    BY <1>1 DEF Downloads, GoodDownload
<1>3. queue' = [queue EXCEPT !.active[id] = d]
    BY <1>1 DEF Reaches, Queues
<1> HIDE DEF d
<1>4. QED
    BY <1>1, <1>2, <1>3, DownloadGoesOn

\* The store refuses what a download asks of it.
LEMMA RefusedDownload ==
    ASSUME IInv, NEW id \in Tracks, queue.active[id].stage # "none", IsRefused(id),
           RecordsOk(records'), UNCHANGED <<pins, prefetch, command, reader, online, library>>
    PROVE  Safe
<1>1. GoodQueue(queue') /\ StaysAwake
    BY ReachesStage DEF IsRefused
<1>2. CommandsOk(command') /\ ReaderOk(reader') /\ pins' \in Collections
    BY DEF IInv
<1>3. QED
    BY <1>1, <1>2, RefusedStep DEF IsRefused

LEMMA FetchedSafe ==
    ASSUME IInv, NEW id \in Tracks, Fetched(id)
    PROVE  Safe
<1>1. /\ queue.active[id].stage = "fetch" /\ RecordsOk(records')
      /\ UNCHANGED <<pins, prefetch, records, command, reader, online, library>>
    BY DEF IInv, Fetched
<1>2. CASE Works(PutAudio(store, id)) /\ Reaches(id, "audio")
    <2>1. /\ GoodQueue(queue') /\ StaysAwake /\ queue'.active[id].stage = "audio"
          /\ \A other \in Tracks \ {id} : queue'.active[other] = queue.active[other]
        BY <1>1, <1>2, ReachesStage
    <2>2. /\ StoreOk(store') /\ Orphans(store') \subseteq Orphans(store) \cup {id}
          /\ refusals' = refusals
        BY <1>2, AudioOk DEF Works, IInv
    <2>3. IInv'
        BY <1>1, <2>1, <2>2 DEF IInv
    <2>4. Attended(id)'
        BY <2>1 DEF Attended
    <2>5. \A x \in Tracks : Attended(x) => Attended(x)'
        BY <1>1, <2>1, <2>4 DEF Attended
    <2>6. NoNewLeaks
        BY <2>2, <2>4, <2>5, LeakFree
    <2>7. QED
        BY <2>1, <2>3, <2>6 DEF Safe
<1>3. CASE IsRefused(id)
    BY <1>1, <1>3, RefusedDownload
<1>4. QED
    BY <1>2, <1>3 DEF Fetched

LEMMA RecordOfRecord ==
    ASSUME IInv, NEW id \in Tracks, queue.active[id].stage # "none"
    PROVE  RecordOf(id) \in Records /\ RecordOf(id).id = id
<1>1. queue.active[id].job \in Jobs
    BY DEF IInv, GoodQueue, GoodDownload
<1>2. QED
    BY <1>1 DEF RecordOf, Records, Jobs

LEMMA AudioStoredSafe ==
    ASSUME IInv, NEW id \in Tracks, AudioStored(id)
    PROVE  Safe
<1>1. /\ queue.active[id].stage = "audio" /\ RecordsOk(records')
      /\ UNCHANGED <<pins, prefetch, records, command, reader, online, library>>
    BY DEF IInv, AudioStored
<1>2. CASE Works(PutDownload(store, RecordOf(id))) /\ Reaches(id, "record")
    <2>1. /\ GoodQueue(queue') /\ StaysAwake /\ queue'.active[id].stage = "record"
          /\ \A other \in Tracks \ {id} : queue'.active[other] = queue.active[other]
        BY <1>1, <1>2, ReachesStage
    <2>2. StoreOk(store') /\ Orphans(store') = Orphans(store) \ {id} /\ refusals' = refusals
        <3> DEFINE r == RecordOf(id)
        <3>1. r \in Records /\ r.id = id /\ StoreOk(store)
            BY <1>1, RecordOfRecord DEF IInv
        <3>2. store' = PutDownload(store, r) /\ refusals' = refusals
            BY <1>2 DEF Works
        <3> HIDE DEF r
        <3>3. QED
            BY <3>1, <3>2, PutDownloadOk
    <2>3. IInv'
        BY <1>1, <2>1, <2>2 DEF IInv
    <2>4. \A x \in Tracks \ {id} : Attended(x) => Attended(x)'
        BY <1>1, <2>1 DEF Attended
    <2>5. NoNewLeaks
        BY <2>2, <2>4, LeakFree
    <2>6. QED
        BY <2>1, <2>3, <2>5 DEF Safe
<1>3. CASE IsRefused(id)
    BY <1>1, <1>3, RefusedDownload
<1>4. QED
    BY <1>2, <1>3 DEF AudioStored

\* A download that completes has failed no more.
LEMMA CompletesGood ==
    ASSUME GoodQueue(queue), NEW id \in Tracks, queue.active[id].stage # "none", Completes(id)
    PROVE  \E q : /\ Ends(id, q)
                  /\ GoodQueue([q EXCEPT !.active[id] = NotActive])
                  /\ [q EXCEPT !.active[id] = NotActive].active = [queue.active EXCEPT ![id] = NotActive]
<1> DEFINE failed == queue.failed \ {id}
           q == [queue EXCEPT !.failed = failed]
           r == [queue EXCEPT !.failed = failed, !.quota = queue.quota]
<1>1. failed \in SUBSET Tracks /\ queue.quota \in BOOLEAN /\ queue \in Queues
    BY DEF GoodQueue, Queues
<1>2. Ends(id, q)
    BY DEF Completes
<1> HIDE DEF failed
<1>3. q = r
    BY <1>1 DEF Queues
<1>4. /\ GoodQueue([r EXCEPT !.active[id] = NotActive])
      /\ [r EXCEPT !.active[id] = NotActive].active = [queue.active EXCEPT ![id] = NotActive]
    BY <1>1, FreePlace
<1> HIDE DEF q, r
<1>5. QED
    BY <1>2, <1>3, <1>4

\* A stored download turns to its next victim, if there is any.
LEMMA EvictFirstSafe ==
    ASSUME IInv, NEW id \in Tracks, queue.active[id].stage \in {"record", "next"},
           NEW recs, RecordsOk(recs), NEW victims \in Seq(Tracks), EvictFirst(id, recs, victims),
           UNCHANGED <<pins, prefetch, command, reader, online, library>>
    PROVE  Safe
<1>1. /\ GoodQueue(queue) /\ queue \in Queues /\ queue.active[id] \in Downloads
      /\ queue.active[id].stage # "none" /\ GoodDownload(queue.active[id])
    BY DEF IInv, GoodQueue, Queues
<1>2. CASE victims = <<>>
    <2>1. RecordsOk(records') /\ UNCHANGED <<store, refusals>> /\ Completes(id)
        BY <1>2 DEF EvictFirst
    <2>2. PICK q : /\ Ends(id, q)
                   /\ GoodQueue([q EXCEPT !.active[id] = NotActive])
                   /\ [q EXCEPT !.active[id] = NotActive].active = [queue.active EXCEPT ![id] = NotActive]
        BY <1>1, <2>1, CompletesGood
    <2>3. QED
        BY <2>1, <2>2, EndedStep
<1>3. CASE victims # <<>>
    <2>1. PICK first \in Tracks : first = victims[1]
        BY <1>3, HeadTailProperties
    <2>2. records' = Without(recs, first)
        BY <1>3, <2>1 DEF EvictFirst
    <2>3. RecordsOk(records')
        BY <2>2, WithoutRecord DEF RecordsOk
    <2>4. CASE Works(DeleteRecord(store, first))
               /\ queue' = [queue EXCEPT !.active[id].stage = "evict", !.active[id].victims = victims]
        <3> DEFINE d == [queue.active[id] EXCEPT !.stage = "evict", !.victims = victims]
        <3>1. d \in Downloads /\ d.stage = "evict" /\ d.victims = victims /\ GoodDownload(d)
            BY <1>1, <1>3 DEF Downloads, GoodDownload
        <3>2. queue' = [queue EXCEPT !.active[id] = d]
            BY <1>1, <2>4 DEF Queues
        <3> HIDE DEF d
        <3>3. /\ GoodQueue(queue') /\ StaysAwake /\ queue'.active[id] = d
              /\ \A other \in Tracks \ {id} : queue'.active[other] = queue.active[other]
            BY <1>1, <3>1, <3>2, DownloadGoesOn
        <3>4. /\ StoreOk(store') /\ Orphans(store') \subseteq Orphans(store) \cup {first}
              /\ refusals' = refusals
            BY <2>4, DeleteRecordOk DEF Works, IInv
        <3>5. IInv'
            BY <2>3, <3>3, <3>4 DEF IInv
        <3>6. Attended(first)'
            BY <2>1, <3>1, <3>3 DEF Attended
        <3>7. \A x \in Tracks : Attended(x) => Attended(x)'
            BY <3>3 DEF Attended
        <3>8. \A x \in Tracks : x \in Orphans(store') => x \in Orphans(store) \/ Attended(x)'
            BY <3>4, <3>6
        <3>9. QED
            BY <3>3, <3>5, <3>7, <3>8, LeakFree DEF Safe
    <2>5. CASE IsRefused(id)
        BY <1>1, <2>3, <2>5, RefusedDownload
    <2>6. QED
        BY <1>3, <2>1, <2>4, <2>5 DEF EvictFirst
<1>4. QED
    BY <1>2, <1>3

LEMMA RecordStoredSafe ==
    ASSUME IInv, NEW id \in Tracks, RecordStored(id)
    PROVE  Safe
<1> DEFINE recs == UsedNow(records, RecordOf(id))
<1>1. queue.active[id].stage = "record"
    BY DEF RecordStored
<1>2. RecordsOk(recs)
    BY <1>1, RecordOfRecord, UsedRecord DEF IInv, RecordsOk
<1>3. EvictFirst(id, recs, Victims(recs)) /\ UNCHANGED <<pins, prefetch, command, reader, online, library>>
    BY DEF RecordStored
<1> HIDE DEF recs
<1>4. Victims(recs) \in Seq(Tracks)
    BY <1>2, VictimsAreTracks DEF RecordsOk
<1>5. QED
    BY <1>1, <1>2, <1>3, <1>4, EvictFirstSafe

\* A victim's audio goes.
LEMMA VictimForgottenSafe ==
    ASSUME IInv, NEW id \in Tracks, VictimForgotten(id)
    PROVE  Safe
<1>1. /\ queue.active[id].stage = "evict" /\ RecordsOk(records')
      /\ UNCHANGED <<pins, prefetch, records, command, reader, online, library>>
    BY DEF IInv, VictimForgotten
<1>2. PICK victims \in Seq(Tracks) : victims = queue.active[id].victims /\ victims # <<>>
    BY <1>1 DEF IInv, GoodQueue, Queues, Downloads, GoodDownload
<1>3. PICK first \in Tracks : first = victims[1]
    BY <1>2, HeadTailProperties
<1>4. CASE DropAudio(first) /\ Reaches(id, "next")
    <2>1. /\ GoodQueue(queue') /\ StaysAwake /\ queue'.active[id].stage = "next"
          /\ \A other \in Tracks \ {id} : queue'.active[other] = queue.active[other]
        BY <1>1, <1>2, <1>4, ReachesStage
    <2>2. StoreOk(store') /\ Orphans(store') = Orphans(store) \ {first} /\ refusals' = refusals
        BY <1>4, AudioOk DEF DropAudio, Works, IInv
    <2>3. IInv'
        BY <1>1, <2>1, <2>2 DEF IInv
    <2>4. \A x \in Tracks \ {first} : Attended(x) => Attended(x)'
        BY <1>1, <1>2, <1>3, <2>1 DEF Attended
    <2>5. NoNewLeaks
        BY <2>2, <2>4, LeakFree
    <2>6. QED
        BY <2>1, <2>3, <2>5 DEF Safe
<1>5. CASE IsRefused(id)
    BY <1>1, <1>5, RefusedDownload
<1>6. QED
    BY <1>2, <1>3, <1>4, <1>5 DEF VictimForgotten

LEMMA VictimGoneSafe ==
    ASSUME IInv, NEW id \in Tracks, VictimGone(id)
    PROVE  Safe
<1>1. queue.active[id].stage = "next" /\ RecordsOk(records)
    BY DEF IInv, VictimGone
<1>2. queue.active[id].victims \in Seq(Tracks) /\ queue.active[id].victims # <<>>
    BY <1>1 DEF IInv, GoodQueue, Queues, Downloads, GoodDownload
<1>3. Tail(queue.active[id].victims) \in Seq(Tracks)
    BY <1>2, HeadTailProperties
<1>4. QED
    BY <1>1, <1>3, EvictFirstSafe DEF VictimGone

\* A back-off that ends changes no priority.
LEMMA BackoffEndsSafe ==
    ASSUME IInv, NEW id \in Tracks, BackoffEnds(id)
    PROVE  Safe
<1> DEFINE job == [queue.jobs[id] EXCEPT !.waits = FALSE]
           jobs == [queue.jobs EXCEPT ![id] = job]
           r == [queue EXCEPT !.jobs = jobs]
<1>1. GoodQueue(queue) /\ queue \in Queues /\ queue.jobs[id].waits = TRUE
    BY DEF IInv, GoodQueue, Queues, BackoffEnds, Jobs, NoJob
<1>2. Queued(queue, id)
    BY <1>1 DEF Queued, NoJob
<1>3. queue.jobs[id] \in Jobs
    BY <1>1, <1>2, ActiveStage
<1>4. job \in Jobs /\ job.priority = queue.jobs[id].priority
    BY <1>3 DEF Jobs
<1>5. queue' = r
    BY <1>1 DEF BackoffEnds, Queues
<1> HIDE DEF job
<1>6. /\ jobs \in [Tracks -> Jobs \cup {NoJob}] /\ jobs[id] = job
      /\ \A other \in Tracks \ {id} : jobs[other] = queue.jobs[other]
    BY <1>1, <1>4 DEF Queues
<1> HIDE DEF jobs
<1>7. /\ r \in Queues /\ r.jobs = jobs /\ r.active = queue.active /\ r.timer = queue.timer
      /\ r.quota = queue.quota
    BY <1>1, <1>6 DEF Queues
<1> HIDE DEF r
<1>8. GoodQueue(r) /\ Keeps(queue, r)
    <2>1. \A other \in Tracks : r.jobs[other] # NoJob => queue.jobs[other] # NoJob
        BY <1>2, <1>6, <1>7 DEF Queued
    <2>2. QED
        BY <1>1, <1>7, <2>1 DEF GoodQueue, Keeps
<1>9. \A other \in Tracks : /\ Active(r, other) <=> Active(queue, other)
                            /\ Queued(r, other) => /\ Queued(queue, other)
                                                   /\ r.jobs[other].priority = queue.jobs[other].priority
    BY <1>2, <1>4, <1>6, <1>7 DEF Active, Queued
<1>10. (Awake(queue) => Awake(r)) /\ (PrefetchAwake(queue) => PrefetchAwake(r))
    BY <1>7, <1>9, QuietQueue
<1>11. UNCHANGED <<pins, prefetch, records, command, reader, store, online, library, refusals>>
    BY DEF BackoffEnds
<1>12. IInv'
    BY <1>5, <1>8, <1>11 DEF IInv
<1>13. NoNewLeaks
    BY <1>1, <1>5, <1>8, <1>11, SameCommands, CalmStep
<1>14. QED
    BY <1>5, <1>10, <1>11, <1>12, <1>13 DEF Safe, StaysAwake

-----------------------------------------------------------------------------
(* Reads of stored audio *)

LEMMA ReaderFacts ==
    ASSUME IInv, reader.at # "none"
    PROVE  /\ reader.record \in Records /\ reader.record.id \in Tracks
           /\ ReaderOk(NoReader) /\ NoReader.at = "none"
           /\ ReaderOk([reader EXCEPT !.at = "drop"])
           /\ [reader EXCEPT !.at = "drop"].at = "drop"
           /\ [reader EXCEPT !.at = "drop"].record = reader.record
<1>1. NoReader.at = "none"
    BY DEF NoReader
<1>2. reader \in [at : {"read", "drop"}, record : Records, found : BOOLEAN]
    BY <1>1 DEF IInv, ReaderOk
<1>3. reader.record \in Records /\ reader.record.id \in Tracks
    BY <1>2 DEF Records
<1>4. ReaderOk([reader EXCEPT !.at = "drop"])
    BY <1>2 DEF ReaderOk
<1>5. QED
    BY <1>1, <1>2, <1>3, <1>4 DEF ReaderOk

LEMMA StartReadSafe ==
    ASSUME IInv, NEW id \in Tracks, StartRead(id)
    PROVE  Safe
<1>1. /\ UNCHANGED <<queue, pins, prefetch, records, command, store, online, library, refusals>>
      /\ reader.at # "drop"
    BY DEF StartRead, NoReader
<1>2. ReaderOk(reader')
    <2>1. PICK i \in DOMAIN records, found \in BOOLEAN :
              reader' = [at |-> "read", record |-> records[i], found |-> found]
        BY DEF StartRead
    <2>2. records[i] \in Records
        <3>1. records \in Seq(Records)
            BY DEF IInv, RecordsOk
        <3>2. QED
            BY <3>1, LenProperties
    <2>3. QED
        BY <2>1, <2>2 DEF ReaderOk
<1>3. IInv'
    BY <1>1, <1>2 DEF IInv
<1>4. Keeps(queue, queue') /\ StaysAwake
    BY <1>1, SameQueue
<1>5. Orphans(store') \subseteq Orphans(store)
    BY <1>1
<1>6. NoNewLeaks
    BY <1>1, <1>4, <1>5, SameCommands, CalmStep DEF IInv
<1>7. QED
    BY <1>3, <1>4, <1>6 DEF Safe

LEMMA ReadFoundSafe ==
    ASSUME IInv, ReadFound
    PROVE  Safe
<1>1. /\ reader.at = "read" /\ reader' = NoReader
      /\ UNCHANGED <<queue, pins, prefetch, command, online, library>>
    BY DEF ReadFound
<1>2. reader.record \in Records /\ ReaderOk(reader')
    BY <1>1, ReaderFacts
<1>3. PICK r \in Records : r = reader.record
    BY <1>2
<1>4. RecordsOk(records')
    <2>1. records' = IF r \in Range(records) THEN UsedNow(records, r) ELSE records
        BY <1>3 DEF ReadFound
    <2>2. QED
        BY <2>1, UsedRecord DEF IInv, RecordsOk
<1>5. /\ GoodQueue(queue') /\ Keeps(queue, queue') /\ StaysAwake /\ CommandsOk(command')
      /\ RemovalsGoOn /\ pins' \in Collections
    BY <1>1, SameQueue, SameCommands DEF IInv
<1>6. CASE Works(PutDownload(store, r))
    <2>1. StoreOk(store') /\ Orphans(store') = Orphans(store) \ {r.id} /\ refusals' = refusals
        BY <1>6, PutDownloadOk DEF IInv, Works
    <2>2. IInv'
        BY <1>1, <1>2, <1>4, <2>1 DEF IInv
    <2>3. NoNewLeaks
        BY <1>1, <1>5, <2>1, CalmStep DEF IInv
    <2>4. QED
        BY <1>5, <2>2, <2>3 DEF Safe
<1>7. CASE Refuses
    BY <1>1, <1>2, <1>4, <1>5, <1>7, RefusedStep
<1>8. QED
    BY <1>3, <1>6, <1>7 DEF ReadFound

LEMMA ReadMissingSafe ==
    ASSUME IInv, ReadMissing
    PROVE  Safe
<1>1. reader.at = "read" /\ UNCHANGED <<queue, pins, prefetch, command, online, library>>
    BY DEF ReadMissing
<1>2. PICK id \in Tracks : id = reader.record.id
    BY <1>1, ReaderFacts
<1>3. RecordsOk(records')
    BY <1>2, WithoutRecord DEF ReadMissing, IInv, RecordsOk
<1>4. /\ GoodQueue(queue') /\ Keeps(queue, queue') /\ StaysAwake /\ CommandsOk(command')
      /\ RemovalsGoOn /\ pins' \in Collections
    BY <1>1, SameQueue, SameCommands DEF IInv
<1>5. CASE Works(DeleteRecord(store, id)) /\ reader' = [reader EXCEPT !.at = "drop"]
    <2>1. ReaderOk(reader') /\ reader'.at = "drop" /\ reader'.record = reader.record
        BY <1>1, <1>5, ReaderFacts
    <2>2. Attended(id)'
        BY <1>2, <2>1 DEF Attended
    <2>3. QED
        BY <1>1, <1>3, <1>4, <1>5, <2>1, <2>2, ForgottenStep
<1>6. CASE Refuses /\ reader' = NoReader
    <2>1. ReaderOk(reader')
        BY <1>1, <1>6, ReaderFacts
    <2>2. QED
        BY <1>1, <1>3, <1>4, <1>6, <2>1, RefusedStep
<1>7. QED
    BY <1>2, <1>5, <1>6 DEF ReadMissing

LEMMA MissingDroppedSafe ==
    ASSUME IInv, MissingDropped
    PROVE  Safe
<1>1. /\ reader.at = "drop" /\ reader' = NoReader
      /\ UNCHANGED <<queue, pins, prefetch, records, command, online, library>>
    BY DEF MissingDropped
<1>2. ReaderOk(reader') /\ CommandsOk(command')
    BY <1>1, ReaderFacts DEF IInv
<1>3. PICK id \in Tracks : id = reader.record.id
    BY <1>1, ReaderFacts
<1>4. CASE DropAudio(id)
    <2>1. \A x \in Tracks \ {id} : Attended(x) => Attended(x)'
        BY <1>1, <1>3 DEF Attended
    <2>2. QED
        BY <1>1, <1>2, <1>4, <2>1, DroppedStep
<1>5. CASE Refuses
    <2>1. GoodQueue(queue') /\ StaysAwake /\ RecordsOk(records') /\ pins' \in Collections
        BY <1>1, SameQueue DEF IInv
    <2>2. QED
        BY <1>1, <1>2, <1>5, <2>1, RefusedStep
<1>6. QED
    BY <1>3, <1>4, <1>5 DEF MissingDropped

-----------------------------------------------------------------------------
(* The world *)

LEMMA LibraryChangesSafe ==
    ASSUME IInv, NEW id \in Tracks, LibraryChanges(id)
    PROVE  Safe
<1>1. UNCHANGED <<queue, pins, prefetch, records, command, reader, store, online, refusals>>
    BY DEF LibraryChanges
<1>2. library' \in [Tracks -> Revs]
    <2>1. library \in [Tracks -> Revs] /\ library' = [library EXCEPT ![id] = library[id] + 1]
          /\ library[id] < MaxRev
        BY DEF IInv, LibraryChanges
    <2>2. library[id] + 1 \in Revs
        BY <2>1, LimitsAssumption DEF Revs
    <2>3. QED
        BY <2>1, <2>2
<1>3. IInv'
    BY <1>1, <1>2 DEF IInv
<1>4. Keeps(queue, queue') /\ StaysAwake
    BY <1>1, SameQueue
<1>5. Orphans(store') \subseteq Orphans(store)
    BY <1>1
<1>6. NoNewLeaks
    BY <1>1, <1>4, <1>5, SameCommands, CalmStep DEF IInv
<1>7. QED
    BY <1>3, <1>4, <1>6 DEF Safe

LEMMA StutterSafe ==
    ASSUME IInv, UNCHANGED vars
    PROVE  Safe
<1>1. UNCHANGED <<queue, pins, prefetch, records, command, reader, store, online, library, refusals>>
    BY DEF vars
<1>2. IInv'
    BY <1>1 DEF IInv
<1>3. Keeps(queue, queue') /\ StaysAwake
    BY <1>1, SameQueue
<1>4. Orphans(store') \subseteq Orphans(store)
    BY <1>1
<1>5. NoNewLeaks
    BY <1>1, <1>3, <1>4, SameCommands, CalmStep DEF IInv
<1>6. QED
    BY <1>2, <1>3, <1>5 DEF Safe

\* A queue without jobs needs no timer.
LEMMA EmptyQueue ==
    ASSUME NEW jobs, NEW active, NEW refs \in [Tracks -> Revs \cup {NoRev}],
           jobs = [id \in Tracks |-> NoJob], active = [id \in Tracks |-> NotActive],
           NEW q, q = [jobs |-> jobs, active |-> active, refs |-> refs, failed |-> {},
                       quota |-> FALSE, timer |-> FALSE]
    PROVE  GoodQueue(q) /\ Awake(q)
<1>1. /\ jobs \in [Tracks -> Jobs \cup {NoJob}] /\ active \in [Tracks -> Downloads]
      /\ \A id \in Tracks : jobs[id] = NoJob /\ active[id] = NotActive
    BY JobFacts
<1>2. q \in Queues
    BY <1>1 DEF Queues
<1>3. GoodQueue(q)
    BY <1>1, <1>2, JobFacts DEF GoodQueue
<1>4. QueuedIds(q) = {}
    BY <1>1 DEF QueuedIds, Queued
<1>5. QED
    BY <1>3, <1>4 DEF Awake, Considered

LEMMA NothingKnown == [id \in Tracks |-> NoRev] \in [Tracks -> Revs \cup {NoRev}]
OBVIOUS

LEMMA NoCommands == CommandsOk([c \in Callers |-> NoCommand])
<1>1. CommandOk(NoCommand)
    BY EmptySeq DEF CommandOk, NoCommand, Commands
<1>2. QED
    BY <1>1 DEF CommandsOk, CommandOk

\* What is read from the store is what was stored.
LEMMA RestartSafe ==
    ASSUME IInv, Restart
    PROVE  IInv' /\ StaysAwake
<1>1. /\ records' = store.records /\ pins' = store.pins /\ prefetch' = <<>>
      /\ queue' = [jobs |-> [id \in Tracks |-> NoJob], active |-> [id \in Tracks |-> NotActive],
                   refs |-> [id \in Tracks |-> NoRev], failed |-> {}, quota |-> FALSE,
                   timer |-> FALSE]
      /\ command' = [c \in Callers |-> NoCommand] /\ reader' = NoReader
      /\ UNCHANGED <<store, online, library, refusals>>
    <2>1. queue \in Queues
        BY DEF IInv, GoodQueue
    <2>2. QED
        BY <2>1 DEF Restart, Queues
<1>2. GoodQueue(queue') /\ Awake(queue')
    BY <1>1, EmptyQueue, NothingKnown
<1>3. RecordsOk(records') /\ pins' \in Collections
    BY <1>1 DEF IInv, StoreOk, RecordsOk
<1>4. CommandsOk(command') /\ ReaderOk(reader')
    BY <1>1, NoCommands DEF ReaderOk
<1>5. IInv'
    BY <1>1, <1>2, <1>3, <1>4 DEF IInv
<1>6. QED
    BY <1>2, <1>5, Woken

-----------------------------------------------------------------------------
(* The theorems *)

\* Prefetched tracks keep their timer, as long as the phone is online.
PumpInv ==
    /\ IInv
    /\ online => PrefetchAwake(queue)

LEMMA InitGood == Init => PumpInv
<1> SUFFICES ASSUME Init
             PROVE  PumpInv
    OBVIOUS
<1>1. GoodQueue(queue) /\ Awake(queue)
    BY EmptyQueue, NothingKnown DEF Init
<1>2. RecordsOk(<<>>)
    BY EmptySeq DEF RecordsOk, DistinctIds, IsInjective
<1>3. <<>> \in Collections
    <2>1. <<>> = [k \in {} |-> <<>>]
        OBVIOUS
    <2>2. <<>> \in [{} -> PinLists]
        BY <2>1
    <2>3. {} \in SUBSET Keys
        OBVIOUS
    <2>4. QED
        BY <2>2, <2>3 DEF Collections
<1>4. StoreOk(EmptyStore)
    BY <1>2, <1>3 DEF EmptyStore, StoreOk, RecordsOk
<1>5. CommandsOk(command) /\ ReaderOk(NoReader)
    BY NoCommands DEF Init, ReaderOk
<1>6. library \in [Tracks -> Revs] /\ online \in BOOLEAN /\ refusals \in 0..MaxRefusals
    BY LimitsAssumption DEF Init, Revs
<1>7. IInv
    BY <1>1, <1>2, <1>3, <1>4, <1>5, <1>6 DEF Init, IInv
<1>8. QED
    BY <1>1, <1>7, AwakeForPrefetch DEF PumpInv

\* What every step keeps, and the two steps that may do what the others may not.
LEMMA NextSafe ==
    ASSUME IInv, [Next]_vars
    PROVE  /\ IInv'
           /\ NoNewLeaks \/ Restart
           /\ LiftsQuota \/ ((online => Awake(queue)) => (online' => Awake(queue')))
           /\ (online => PrefetchAwake(queue)) => (online' => PrefetchAwake(queue'))
<1> USE DEF Safe, StaysAwake
<1>1. CASE \E ids \in PrefetchLists : SetPrefetch(ids)
    BY <1>1, SetPrefetchSafe
<1>2. CASE ResumePins
    BY <1>2, ResumePinsSafe
<1>3. CASE Retry \/ GoOnline
    BY <1>3, RetrySafe
<1>4. CASE GoOffline
    BY <1>4, GoOfflineSafe
<1>5. ASSUME NEW c \in Callers, NEW key \in Keys,
             StartUnpin(c, key) \/ \E ids \in PinLists : StartPin(c, key, ids)
      PROVE  Safe
    BY <1>5, StartUnpinSafe, StartPinSafe
<1>6. ASSUME NEW c \in Callers, StartClear(c)
      PROVE  Safe
    BY <1>6, StartClearSafe
<1>7. ASSUME NEW c \in Callers,
             FinishPin(c) \/ UnpinNext(c) \/ ListRecords(c) \/ ClearNext(c) \/ Removed(c)
      PROVE  Safe
    BY <1>7, FinishPinSafe, UnpinNextSafe, ListRecordsSafe, ClearNextSafe, RemovedSafe
<1>8. ASSUME NEW c \in Callers, FinishCommand(c)
      PROVE  /\ IInv' /\ NoNewLeaks
             /\ LiftsQuota \/ ((online => Awake(queue)) => (online' => Awake(queue')))
             /\ (online => PrefetchAwake(queue)) => (online' => PrefetchAwake(queue'))
    BY <1>8, FinishCommandSafe
<1>9. ASSUME NEW id \in Tracks, DownloadStep(id)
      PROVE  Safe
    BY <1>9, FetchBreaksSafe, FetchRefusedSafe, FetchedSafe, AudioStoredSafe, RecordStoredSafe,
       VictimForgottenSafe, VictimGoneSafe, RequestRefusedSafe DEF DownloadStep
<1>10. ASSUME NEW id \in Tracks, BackoffEnds(id) \/ StartRead(id) \/ LibraryChanges(id)
       PROVE  Safe
    BY <1>10, BackoffEndsSafe, StartReadSafe, LibraryChangesSafe
<1>11. CASE TimerFires
    BY <1>11, TimerFiresSafe
<1>12. CASE ReadFound \/ ReadMissing \/ MissingDropped
    BY <1>12, ReadFoundSafe, ReadMissingSafe, MissingDroppedSafe
<1>13. CASE Restart
    BY <1>13, RestartSafe
<1>14. CASE UNCHANGED vars
    BY <1>14, StutterSafe
<1>15. QED
    BY <1>1, <1>2, <1>3, <1>4, <1>5, <1>6, <1>7, <1>8, <1>9, <1>10, <1>11, <1>12, <1>13, <1>14
       DEF Next, CommandStep

LEMMA NextKeeps == PumpInv /\ [Next]_vars => PumpInv'
BY NextSafe DEF PumpInv

\* Every variable of the downloader keeps its type, no track has two records, in memory
\* or in the store, and none is queued while it is being downloaded.
THEOREM TypeCorrect == Spec => []TypeOK
<1>1. PumpInv => TypeOK
    BY InvTypes DEF PumpInv
<1>2. QED
    BY InitGood, NextKeeps, <1>1, PTL DEF Spec

\* No lost wake-up: whatever ends, fails, waits, is cancelled or called in whatever order, a job
\* of the prefetch list that could be started has pump's timer running, and so has every other
\* job until a clear lifts the quota.
THEOREM NoLostWakeUp == Spec => PumpWillRun
<1> DEFINE Watched == online /\ Free(queue) > 0
               /\ (\E id \in QueuedIds(queue) : queue.jobs[id].priority < PinPriority)
                   => queue.timer
           Kept == PumpIsAwake => PumpIsAwake' \/ LiftsQuota
<1>1. PumpInv => Watched
    BY DEF PumpInv, PrefetchAwake
<1>2. PumpInv /\ [Next]_vars => [Kept]_vars
    <2> SUFFICES ASSUME PumpInv, [Next]_vars
                 PROVE  Kept
        OBVIOUS
    <2>1. LiftsQuota \/ ((online => Awake(queue)) => (online' => Awake(queue')))
        BY NextSafe DEF PumpInv
    <2>2. QED
        BY <2>1 DEF PumpIsAwake, Awake
<1> HIDE DEF Watched, Kept
<1>3. Spec => []Watched /\ [][Kept]_vars
    BY InitGood, NextKeeps, <1>1, <1>2, PTL DEF Spec
<1>4. QED
    BY <1>3 DEF PumpWillRun, Watched, Kept

\* Nothing is left behind: audio whose record goes has a download, a removal or a read about to
\* see to it, whatever overlaps, until the app is closed or the store refuses the very request
\* that sees to it.
THEOREM NothingIsLeftBehind == Spec => NothingLeaks
<1>1. PumpInv /\ [Next]_vars =>
          [\A id \in Tracks : Leaked(id)' => Leaked(id) \/ (Attended(id) /\ StoreRefuses) \/ Restart]_vars
    BY NextSafe DEF PumpInv, NoNewLeaks
<1>2. QED
    BY InitGood, NextKeeps, <1>1, PTL DEF Spec, NothingLeaks
=============================================================================
