---------------------------- MODULE SearchProofs ----------------------------
(***************************************************************************)
(* Theorems about Search: the index is right about every file it was told  *)
(* of in time, nothing stays uncommitted, and a link leads to the file it  *)
(* was listed with; for any files, queries, links and capacity of the bus, *)
(* and however often files change and the index fails.                     *)
(***************************************************************************)
EXTENDS Search, FiniteSetTheorems, SequenceTheorems, TLAPS

Documents == [file : Files, version : Nat]

----------------------------------------------------------------------------
(* The documents of an index.                                              *)

\* How many of the places come no later than one of them.
Rank(places) == [k \in places |-> Cardinality({j \in places : j <= k})]

\* Of finitely many places each has a rank, and each rank is one place's.
LEMMA RankIsBijective ==
    ASSUME NEW places \in SUBSET Int, IsFiniteSet(places)
    PROVE  /\ Rank(places) \in Injection(places, 1..Cardinality(places))
           /\ Rank(places) \in Surjection(places, 1..Cardinality(places))
<1> DEFINE upto(k) == {j \in places : j <= k}
           size == Cardinality(places)
<1>1. size \in Nat
  BY FS_CardinalityType
<1>2. ASSUME NEW k \in places
      PROVE  IsFiniteSet(upto(k)) /\ Cardinality(upto(k)) \in 1..size
  <2>1. IsFiniteSet(upto(k)) /\ Cardinality(upto(k)) <= size
    BY FS_Subset
  <2>2. k \in upto(k)
    OBVIOUS
  <2>3. Cardinality(upto(k)) \in Nat /\ Cardinality(upto(k)) # 0
    BY <2>1, <2>2, FS_CardinalityType, FS_EmptySet
  <2> QED
    BY <1>1, <2>1, <2>3
<1>3. ASSUME NEW k \in places, NEW l \in places, k < l
      PROVE  Cardinality(upto(k)) # Cardinality(upto(l))
  <2>1. upto(k) \subseteq upto(l) /\ l \in upto(l) /\ l \notin upto(k)
    <3>1. k \in Int /\ l \in Int /\ \A j \in places : j \in Int
      OBVIOUS
    <3>2. \A j \in places : j <= k => j <= l
      BY <1>3, <3>1
    <3>3. l <= l /\ ~(l <= k)
      BY <1>3, <3>1
    <3> QED
      BY <3>2, <3>3
  <2>2. IsFiniteSet(upto(l))
    BY <1>2
  <2> QED
    BY <2>1, <2>2, FS_Subset
<1>4. Rank(places) \in [places -> 1..size]
  BY <1>2 DEF Rank
<1>5. \A k, l \in places : Rank(places)[k] = Rank(places)[l] => k = l
  BY <1>3 DEF Rank
<1>6. Rank(places) \in Injection(places, 1..size)
  BY <1>4, <1>5 DEF Injection, IsInjective
<1>7. IsFiniteSet(1..size) /\ Cardinality(1..size) = size
  BY <1>1, FS_Interval
<1>8. Rank(places) \in Surjection(places, 1..size)
  BY <1>6, <1>7, FS_Injection
<1> QED
  BY <1>6, <1>8

\* Nth finds a place for every rank, and every place at its rank.
LEMMA NthIsRight ==
    ASSUME NEW places \in SUBSET Int, IsFiniteSet(places)
    PROVE  /\ \A n \in 1..Cardinality(places) : Nth(places, n) \in places
           /\ \A k \in places : \E n \in 1..Cardinality(places) : Nth(places, n) = k
           /\ \A n, m \in 1..Cardinality(places) : Nth(places, n) = Nth(places, m) => n = m
<1> DEFINE rank == Rank(places)
           ranks == 1..Cardinality(places)
<1>1. /\ rank \in [places -> ranks]
      /\ \A k, l \in places : rank[k] = rank[l] => k = l
      /\ \A n \in ranks : \E k \in places : rank[k] = n
  BY RankIsBijective DEF Injection, IsInjective, Surjection
<1>2. \A n : Nth(places, n) = CHOOSE k \in places : rank[k] = n
  BY DEF Nth, Rank
<1> HIDE DEF rank, ranks
<1>3. \A n \in ranks : Nth(places, n) \in places /\ rank[Nth(places, n)] = n
  BY <1>1, <1>2
<1>4. ASSUME NEW k \in places
      PROVE  rank[k] \in ranks /\ Nth(places, rank[k]) = k
  <2>1. rank[k] \in ranks
    BY <1>1
  <2>2. Nth(places, rank[k]) \in places /\ rank[Nth(places, rank[k])] = rank[k]
    BY <1>3, <2>1
  <2> QED
    BY <1>1, <2>1, <2>2
<1> QED
  BY <1>3, <1>4 DEF ranks

\* The documents at some places are those and no others, each of them once.
LEMMA AtIsRight ==
    ASSUME NEW docs \in Seq(Documents), NEW places \in SUBSET DOMAIN docs
    PROVE  /\ At(docs, places) \in Seq(Documents)
           /\ \E nth \in [DOMAIN At(docs, places) -> places] :
                /\ \A i \in DOMAIN At(docs, places) : At(docs, places)[i] = docs[nth[i]]
                /\ \A k \in places : \E i \in DOMAIN At(docs, places) : nth[i] = k
                /\ \A i, j \in DOMAIN At(docs, places) : nth[i] = nth[j] => i = j
<1>1. DOMAIN docs = 1..Len(docs) /\ Len(docs) \in Nat /\ \A k \in DOMAIN docs : docs[k] \in Documents
  BY LenProperties, ElementOfSeq
<1>2. places \in SUBSET Int /\ IsFiniteSet(places)
  <2>1. IsFiniteSet(1..Len(docs))
    BY <1>1, FS_Interval
  <2> QED
    BY <1>1, <2>1, FS_Subset
<1> DEFINE size == Cardinality(places)
<1>3. size \in Nat
  BY <1>2, FS_CardinalityType
<1>4. /\ \A n \in 1..size : Nth(places, n) \in places
      /\ \A k \in places : \E n \in 1..size : Nth(places, n) = k
      /\ \A n, m \in 1..size : Nth(places, n) = Nth(places, m) => n = m
  BY <1>2, NthIsRight
<1> HIDE DEF size
<1>5. At(docs, places) = [n \in 1..size |-> docs[Nth(places, n)]]
  BY DEF At, size
<1>6. At(docs, places) \in [1..size -> Documents]
  BY <1>1, <1>4, <1>5
<1>7. At(docs, places) \in Seq(Documents)
  BY <1>3, <1>6
<1> DEFINE nth == [n \in 1..size |-> Nth(places, n)]
<1>8. nth \in [1..size -> places] /\ \A n \in 1..size : nth[n] = Nth(places, n)
  BY <1>4
<1>9. DOMAIN At(docs, places) = 1..size
  BY <1>5
<1>10. /\ \A i \in 1..size : At(docs, places)[i] = docs[nth[i]]
       /\ \A k \in places : \E i \in 1..size : nth[i] = k
       /\ \A i, j \in 1..size : nth[i] = nth[j] => i = j
  BY <1>4, <1>5, <1>8
<1> HIDE DEF nth
<1>11. nth \in [DOMAIN At(docs, places) -> places]
  BY <1>8, <1>9
<1>12. /\ \A i \in DOMAIN At(docs, places) : At(docs, places)[i] = docs[nth[i]]
       /\ \A k \in places : \E i \in DOMAIN At(docs, places) : nth[i] = k
       /\ \A i, j \in DOMAIN At(docs, places) : nth[i] = nth[j] => i = j
  BY <1>9, <1>10
<1> QED
  BY <1>7, <1>11, <1>12, Zenon

\* Whether a file has no second document.
Sole(docs, f) == \A i, j \in DOMAIN docs : docs[i].file = f /\ docs[j].file = f => i = j

LEMMA HoldingMeans ==
    ASSUME NEW docs, NEW f
    PROVE  Holding(docs, f) = [versions |-> VersionsOf(docs, f), sole |-> Sole(docs, f)]
BY DEF Holding, Sole

\* What an index without a document of the file holds of it.
Nothing == [versions |-> {}, sole |-> TRUE]

\* Without a file's documents, the others' remain.
LEMMA HoldingWithout ==
    ASSUME NEW docs \in Seq(Documents), NEW f, NEW g
    PROVE  Holding(Without(docs, f), g) = IF g = f THEN Nothing ELSE Holding(docs, g)
<1> DEFINE places == {i \in DOMAIN docs : docs[i].file # f}
           left == Without(docs, f)
<1>1. PICK nth \in [DOMAIN left -> places] :
        /\ \A i \in DOMAIN left : left[i] = docs[nth[i]]
        /\ \A k \in places : \E i \in DOMAIN left : nth[i] = k
        /\ \A i, j \in DOMAIN left : nth[i] = nth[j] => i = j
  <2>1. left = At(docs, places) /\ places \in SUBSET DOMAIN docs
    BY DEF Without
  <2> HIDE DEF left, places
  <2> QED
    BY <2>1, AtIsRight
<1> HIDE DEF left
<1>2. \A v : v \in VersionsOf(left, g) <=> \E i \in DOMAIN left : left[i].file = g /\ left[i].version = v
  BY DEF VersionsOf
<1>3. \A v : v \in VersionsOf(docs, g) <=> \E k \in DOMAIN docs : docs[k].file = g /\ docs[k].version = v
  BY DEF VersionsOf
<1>4. CASE g = f
  <2>1. \A i \in DOMAIN left : left[i].file # g
    BY <1>1, <1>4
  <2>2. VersionsOf(left, g) = {} /\ (Sole(left, g) <=> TRUE)
    BY <1>2, <2>1 DEF Sole
  <2>3. Holding(left, g) = Nothing
    BY <2>2, HoldingMeans DEF Nothing
  <2> QED
    BY <1>4, <2>3 DEF left
<1>5. CASE g # f
  <2>1. \A v : v \in VersionsOf(left, g) => v \in VersionsOf(docs, g)
    BY <1>1, <1>2, <1>3
  <2>2. \A v : v \in VersionsOf(docs, g) => v \in VersionsOf(left, g)
    <3> SUFFICES ASSUME NEW k \in DOMAIN docs, docs[k].file = g
                 PROVE  \E i \in DOMAIN left : left[i].file = g /\ left[i].version = docs[k].version
      BY <1>2, <1>3
    <3>1. PICK i \in DOMAIN left : nth[i] = k
      BY <1>1, <1>5
    <3> QED
      BY <1>1, <3>1
  <2>3. VersionsOf(left, g) = VersionsOf(docs, g)
    BY <2>1, <2>2
  <2>4. ASSUME Sole(docs, g) PROVE Sole(left, g)
    <3> SUFFICES ASSUME NEW i \in DOMAIN left, NEW j \in DOMAIN left,
                        left[i].file = g, left[j].file = g
                 PROVE  i = j
      BY DEF Sole
    <3>1. nth[i] \in DOMAIN docs /\ nth[j] \in DOMAIN docs /\ docs[nth[i]].file = g /\ docs[nth[j]].file = g
      BY <1>1
    <3>2. nth[i] = nth[j]
      BY <2>4, <3>1 DEF Sole
    <3> QED
      BY <1>1, <3>2
  <2>5. ASSUME Sole(left, g) PROVE Sole(docs, g)
    <3> SUFFICES ASSUME NEW k \in DOMAIN docs, NEW l \in DOMAIN docs,
                        docs[k].file = g, docs[l].file = g
                 PROVE  k = l
      BY DEF Sole
    <3>1. k \in places /\ l \in places
      BY <1>5
    <3>2. PICK i \in DOMAIN left : nth[i] = k
      BY <1>1, <3>1
    <3>3. PICK j \in DOMAIN left : nth[j] = l
      BY <1>1, <3>1
    <3>4. left[i].file = g /\ left[j].file = g
      BY <1>1, <3>2, <3>3
    <3>5. i = j
      BY <2>5, <3>4 DEF Sole
    <3> QED
      BY <3>2, <3>3, <3>5
  <2>6. Holding(left, g) = Holding(docs, g)
    BY <2>3, <2>4, <2>5 DEF Holding, Sole
  <2> QED
    BY <1>5, <2>6 DEF left
<1> QED
  BY <1>4, <1>5

\* Taking documents out leaves documents.
LEMMA WithoutType ==
    ASSUME NEW docs \in Seq(Documents), NEW f
    PROVE  Without(docs, f) \in Seq(Documents)
<1> DEFINE places == {i \in DOMAIN docs : docs[i].file # f}
<1>1. At(docs, places) \in Seq(Documents)
  BY AtIsRight
<1> QED
  BY <1>1 DEF Without

\* A document more is a version more of its file, and the only one if it had none.
LEMMA HoldingIndexed ==
    ASSUME NEW docs \in Seq(Documents), NEW f \in Files, NEW v \in Nat, NEW g
    PROVE  Holding(index_file(docs, f, v), g) =
             IF g = f THEN [versions |-> VersionsOf(docs, f) \cup {v}, sole |-> VersionsOf(docs, f) = {}]
                      ELSE Holding(docs, g)
<1> DEFINE doc == Document(f, v)
           more == Append(docs, doc)
<1>1. doc \in Documents /\ doc.file = f /\ doc.version = v
  BY DEF Document, Documents
<1> HIDE DEF doc
<1>2. /\ Len(docs) \in Nat /\ DOMAIN docs = 1..Len(docs) /\ DOMAIN more = 1..(Len(docs) + 1)
      /\ \A i \in 1..Len(docs) : more[i] = docs[i]
      /\ more[Len(docs) + 1] = doc
  BY <1>1, AppendProperties, LenProperties
<1> HIDE DEF more
<1>3. \A w : w \in VersionsOf(more, g) <=> \E i \in DOMAIN more : more[i].file = g /\ more[i].version = w
  BY DEF VersionsOf
<1>4. \A w : w \in VersionsOf(docs, g) <=> \E k \in DOMAIN docs : docs[k].file = g /\ docs[k].version = w
  BY DEF VersionsOf
<1>5. \A w : w \in VersionsOf(more, g) <=> w \in VersionsOf(docs, g) \/ (g = f /\ w = v)
  <2> TAKE w
  <2>1. ASSUME w \in VersionsOf(docs, g) PROVE w \in VersionsOf(more, g)
    BY <1>2, <1>3, <1>4, <2>1
  <2>2. ASSUME g = f, w = v PROVE w \in VersionsOf(more, g)
    BY <1>1, <1>2, <1>3, <2>2
  <2>3. ASSUME w \in VersionsOf(more, g) PROVE w \in VersionsOf(docs, g) \/ (g = f /\ w = v)
    BY <1>1, <1>2, <1>3, <1>4, <2>3
  <2> QED
    BY <2>1, <2>2, <2>3
<1>6. index_file(docs, f, v) = more
  BY DEF index_file, more, doc
<1>7. CASE g = f
  <2>1. VersionsOf(more, f) = VersionsOf(docs, f) \cup {v}
    BY <1>5, <1>7
  <2>2. ASSUME VersionsOf(docs, f) = {} PROVE Sole(more, f)
    <3>1. \A k \in DOMAIN docs : docs[k].file # f
      BY <2>2 DEF VersionsOf
    <3> QED
      BY <1>2, <3>1 DEF Sole
  <2>3. ASSUME Sole(more, f) PROVE VersionsOf(docs, f) = {}
    <3>1. ASSUME NEW k \in DOMAIN docs, docs[k].file = f PROVE FALSE
      <4>1. k \in DOMAIN more /\ more[k].file = f /\ k # Len(docs) + 1
        BY <1>2, <3>1
      <4>2. Len(docs) + 1 \in DOMAIN more /\ more[Len(docs) + 1].file = f
        BY <1>1, <1>2
      <4> QED
        BY <2>3, <4>1, <4>2 DEF Sole
    <3> QED
      BY <3>1 DEF VersionsOf
  <2>4. Sole(more, f) <=> VersionsOf(docs, f) = {}
    BY <2>2, <2>3
  <2>5. Holding(more, f) = [versions |-> VersionsOf(docs, f) \cup {v}, sole |-> VersionsOf(docs, f) = {}]
    <3>1. CASE VersionsOf(docs, f) = {}
      <4>1. Sole(more, f) = TRUE /\ (VersionsOf(docs, f) = {}) = TRUE
        BY <2>4, <3>1 DEF Sole
      <4> QED
        BY <2>1, <4>1, HoldingMeans
    <3>2. CASE VersionsOf(docs, f) # {}
      <4>1. Sole(more, f) = FALSE /\ (VersionsOf(docs, f) = {}) = FALSE
        BY <2>4, <3>2 DEF Sole
      <4> QED
        BY <2>1, <4>1, HoldingMeans
    <3> QED
      BY <3>1, <3>2
  <2> QED
    BY <1>6, <1>7, <2>5
<1>8. CASE g # f
  <2>1. VersionsOf(more, g) = VersionsOf(docs, g)
    BY <1>5, <1>8
  <2>2. ASSUME Sole(more, g) PROVE Sole(docs, g)
    BY <1>2, <2>2 DEF Sole
  <2>3. ASSUME Sole(docs, g) PROVE Sole(more, g)
    <3>1. \A i \in DOMAIN more : more[i].file = g => i \in DOMAIN docs /\ docs[i].file = g
      BY <1>1, <1>2, <1>8
    <3> QED
      BY <2>3, <3>1 DEF Sole
  <2>4. Holding(more, g) = Holding(docs, g)
    BY <2>1, <2>2, <2>3 DEF Holding, Sole
  <2> QED
    BY <1>6, <1>8, <2>4
<1> QED
  BY <1>7, <1>8

\* The first document of a file is the only one.
LEMMA IndexedAnew ==
    ASSUME NEW docs \in Seq(Documents), NEW f \in Files, NEW v \in Nat, VersionsOf(docs, f) = {}
    PROVE  Holding(index_file(docs, f, v), f) = [versions |-> {v}, sole |-> TRUE]
<1>1. Holding(index_file(docs, f, v), f) = [versions |-> VersionsOf(docs, f) \cup {v}, sole |-> VersionsOf(docs, f) = {}]
  BY HoldingIndexed
<1>2. VersionsOf(docs, f) \cup {v} = {v} /\ (VersionsOf(docs, f) = {}) = TRUE
  OBVIOUS
<1> QED
  BY <1>1, <1>2

\* Of the other files nothing changes.
LEMMA OthersIndexed ==
    ASSUME NEW docs \in Seq(Documents), NEW f \in Files, NEW v \in Nat, NEW g, g # f
    PROVE  Holding(index_file(docs, f, v), g) = Holding(docs, g)
BY HoldingIndexed

\* Adding a document leaves documents.
LEMMA IndexFileType ==
    ASSUME NEW docs \in Seq(Documents), NEW f \in Files, NEW v \in Nat
    PROVE  index_file(docs, f, v) \in Seq(Documents)
<1>1. Document(f, v) \in Documents
  BY DEF Document, Documents
<1> QED
  BY <1>1, AppendProperties DEF index_file

----------------------------------------------------------------------------
(* What is on its way to the index.                                        *)

Notices == [kind : {"create", "access", "modify", "remove"}, file : Files]
Events == [is : {"FileAdded", "FileModified", "FileRemoved"}, file : Files]

\* The events the indexer will hear.
Queue == IF "indexer" \in DOMAIN inbox THEN inbox["indexer"] ELSE <<>>

FilesOf(seq) == {seq[i].file : i \in DOMAIN seq}

\* The files of notices or events, one after the other.
LEMMA FilesOfConcat ==
    ASSUME NEW S, NEW s \in Seq(S), NEW t \in Seq(S)
    PROVE  FilesOf(s \o t) = FilesOf(s) \cup FilesOf(t)
<1> DEFINE r == s \o t
<1>1. /\ Len(s) \in Nat /\ Len(t) \in Nat
      /\ DOMAIN s = 1..Len(s) /\ DOMAIN t = 1..Len(t) /\ DOMAIN r = 1..(Len(s) + Len(t))
      /\ \A i \in 1..(Len(s) + Len(t)) : r[i] = IF i <= Len(s) THEN s[i] ELSE t[i - Len(s)]
  BY ConcatProperties, LenProperties
<1> HIDE DEF r
<1>2. \A i \in DOMAIN r : r[i].file \in FilesOf(s) \cup FilesOf(t)
  <2> TAKE i \in DOMAIN r
  <2>1. CASE i <= Len(s)
    BY <1>1, <2>1 DEF FilesOf
  <2>2. CASE ~(i <= Len(s))
    <3>1. i - Len(s) \in DOMAIN t /\ r[i] = t[i - Len(s)]
      BY <1>1, <2>2
    <3> QED
      BY <3>1 DEF FilesOf
  <2> QED
    BY <2>1, <2>2
<1>3. \A i \in DOMAIN s : i \in DOMAIN r /\ r[i] = s[i]
  BY <1>1
<1>4. \A i \in DOMAIN t : i + Len(s) \in DOMAIN r /\ r[i + Len(s)] = t[i]
  BY <1>1
<1>5. FilesOf(s) \subseteq FilesOf(r)
  BY <1>3 DEF FilesOf
<1>6. FilesOf(t) \subseteq FilesOf(r)
  BY <1>4 DEF FilesOf
<1>7. FilesOf(r) \subseteq FilesOf(s) \cup FilesOf(t)
  BY <1>2 DEF FilesOf
<1> QED
  BY <1>5, <1>6, <1>7 DEF r

\* One more at the end.
LEMMA FilesOfAppend ==
    ASSUME NEW S, NEW s \in Seq(S), NEW e \in S
    PROVE  FilesOf(Append(s, e)) = FilesOf(s) \cup {e.file}
<1>1. Append(s, e) = s \o <<e>> /\ <<e>> \in Seq(S)
  BY AppendIsConcat
<1>2. FilesOf(<<e>>) = {e.file}
  BY DEF FilesOf
<1> QED
  BY <1>1, <1>2, FilesOfConcat

\* The first one taken away.
LEMMA FilesOfTail ==
    ASSUME NEW S, NEW s \in Seq(S), s # <<>>
    PROVE  FilesOf(s) = {Head(s).file} \cup FilesOf(Tail(s))
<1> DEFINE r == Tail(s)
<1>1. /\ Len(s) \in Nat \ {0} /\ DOMAIN s = 1..Len(s)
      /\ r \in Seq(S) /\ Len(r) = Len(s) - 1
      /\ \A i \in 1..Len(r) : r[i] = s[i + 1]
  BY HeadTailProperties, LenProperties, EmptySeq
<1>2. Head(s) = s[1]
  BY <1>1
<1> HIDE DEF r
<1>3. DOMAIN r = 1..Len(r)
  BY <1>1, LenProperties
<1>4. \A i \in DOMAIN r : i + 1 \in DOMAIN s /\ s[i + 1] = r[i]
  BY <1>1, <1>3
<1>5. \A i \in DOMAIN s : i = 1 \/ (i - 1 \in DOMAIN r /\ r[i - 1] = s[i])
  BY <1>1, <1>3
<1>6. FilesOf(r) \subseteq FilesOf(s)
  BY <1>4 DEF FilesOf
<1>7. Head(s).file \in FilesOf(s)
  BY <1>1, <1>2 DEF FilesOf
<1>8. FilesOf(s) \subseteq {Head(s).file} \cup FilesOf(r)
  BY <1>2, <1>5 DEF FilesOf
<1> QED
  BY <1>6, <1>7, <1>8 DEF r

\* A file is settled when neither the watcher nor the indexer has it to do.
LEMMA SettledMeans ==
    ASSUME NEW f
    PROVE  /\ Settled(f) <=> f \notin FilesOf(Queue) /\ f \notin FilesOf(notified)
           /\ Awaits(f) <=> f \in FilesOf(Queue)
           /\ Settled(f)' <=> f \notin FilesOf(Queue') /\ f \notin FilesOf(notified')
BY DEF Settled, Awaits, FilesOf, Queue

\* What publish does to the queue of the indexer: what was there stays, but for
\* the file it loses.
LEMMA PublishedToQueue ==
    ASSUME Queue \in Seq(Events), NEW e \in Events, publish(e)
    PROVE  /\ Queue' \in Seq(Events)
           /\ "indexer" \in DOMAIN inbox => e.file \in FilesOf(Queue')
           /\ FilesOf(Queue) \subseteq FilesOf(Queue') \cup Loses
<1>1. CASE "indexer" \notin DOMAIN inbox
  BY <1>1 DEF publish, Queue, FilesOf
<1>2. CASE "indexer" \in DOMAIN inbox
  <2> DEFINE q == Queue
             kept == IF Overflows("indexer") THEN Tail(q) ELSE q
  <2>1. inbox'["indexer"] = Append(kept, e) /\ "indexer" \in DOMAIN inbox'
    BY <1>2 DEF publish, Queue
  <2>2. Queue' = Append(kept, e)
    BY <2>1 DEF Queue
  <2>3. Overflows("indexer") => q # <<>> /\ Loses = {Head(q).file}
    <3>1. Overflows("indexer") => Len(q) # 0
      BY <1>2, EventBusAssumption DEF Overflows, Queue
    <3>2. q = <<>> => Len(q) = 0
      BY EmptySeq
    <3> QED
      BY <1>2, <3>1, <3>2 DEF Loses, Queue
  <2>4. kept \in Seq(Events) /\ FilesOf(q) \subseteq FilesOf(kept) \cup Loses
    <3>1. CASE Overflows("indexer")
      BY <2>3, <3>1, HeadTailProperties, FilesOfTail
    <3>2. CASE ~Overflows("indexer")
      BY <3>2
    <3> QED
      BY <3>1, <3>2
  <2> HIDE DEF q, kept
  <2>5. FilesOf(Append(kept, e)) = FilesOf(kept) \cup {e.file} /\ Append(kept, e) \in Seq(Events)
    BY <2>4, FilesOfAppend, AppendProperties
  <2> QED
    BY <2>2, <2>4, <2>5 DEF q
<1> QED
  BY <1>1, <1>2

----------------------------------------------------------------------------
(* The index.                                                              *)

BatchShape ==
    batch.on => DOMAIN batch.left \subseteq Files /\ \A f \in DOMAIN batch.left : batch.left[f] \in Nat \ {0}

IndexShape ==
    /\ written \in Seq(Documents) /\ committed \in Seq(Documents)
    /\ disk \in [Files -> Nat] /\ known \in [Files -> Nat] /\ changes \in Nat
    /\ notified \in Seq(Notices) /\ Queue \in Seq(Events)
    /\ BatchShape

\* A file is opened to be written: a notice of the write follows.
WritesFollow ==
    \A i \in DOMAIN notified :
      notified[i].kind = "access" =>
        /\ i + 1 \in DOMAIN notified
        /\ notified[i + 1].file = notified[i].file

\* Where nothing is on its way, the writer is right, whether or not it has
\* committed; and what nobody means to commit is committed.
Kept(f) ==
    /\ Settled(f) => Holding(written, f) = Present(f)
    /\ ~pending_commit /\ ~batch.on => Holding(written, f) = Holding(committed, f)

IndexInv == IndexShape /\ WritesFollow /\ \A f \in Files \ missed : Kept(f)

\* A file stays kept when a step brings nothing of it to an end, and leaves its
\* documents and its origin alone.
LEMMA StaysKept ==
    ASSUME NEW f, Kept(f), Settled(f)' => Settled(f), disk'[f] = disk[f],
           Holding(written', f) = Holding(written, f),
           ~pending_commit' /\ ~batch'.on => Holding(written', f) = Holding(committed', f)
    PROVE  Kept(f)'
BY DEF Kept, Present

\* A step that touches neither origin, watcher nor indexer.
LEMMA OthersKeepIndex ==
    ASSUME IndexInv, UNCHANGED <<disk, changes, notified, indexer>>, known' \in [Files -> Nat],
           Queue' = Queue
    PROVE  IndexInv'
<1>1. IndexShape' /\ WritesFollow'
  BY DEF IndexInv, IndexShape, BatchShape, WritesFollow, indexer, index
<1>2. ASSUME NEW f \in Files \ missed' PROVE Kept(f)'
  <2>1. Kept(f) /\ missed' = missed
    BY <1>2 DEF IndexInv, indexer
  <2>2. Settled(f)' => Settled(f)
    BY SettledMeans
  <2> QED
    BY <2>1, <2>2, StaysKept DEF indexer, index, Kept
<1> QED
  BY <1>1, <1>2 DEF IndexInv

\* A change at the origin: notices of the file come last, and if it was opened
\* the write comes after that.
LEMMA ChangeKeepsIndex ==
    ASSUME IndexInv, NEW f \in Files, NEW version \in Nat, NEW notices \in Seq(Notices),
           Change(f, version, notices),
           FilesOf(notices) = {f},
           \A i \in DOMAIN notices :
             notices[i].kind = "access" =>
               i + 1 \in DOMAIN notices /\ notices[i + 1].file = notices[i].file
    PROVE  IndexInv'
<1>1. /\ changes' = changes + 1 /\ disk' = [disk EXCEPT ![f] = version]
      /\ notified' = notified \o notices
      /\ UNCHANGED <<known, bus, indexer>>
  BY DEF Change
<1>2. notified \in Seq(Notices) /\ disk \in [Files -> Nat] /\ changes \in Nat
  BY DEF IndexInv, IndexShape
<1>3. Queue' = Queue
  BY <1>1 DEF Queue, bus
<1>4. notified' \in Seq(Notices) /\ FilesOf(notified') = FilesOf(notified) \cup {f}
  BY <1>1, <1>2, ConcatProperties, FilesOfConcat
<1>5. IndexShape'
  BY <1>1, <1>2, <1>3, <1>4 DEF IndexInv, IndexShape, BatchShape, indexer, index
<1>6. WritesFollow'
  <2> DEFINE s == notified
             r == notified'
  <2>1. /\ Len(s) \in Nat /\ Len(notices) \in Nat
        /\ DOMAIN s = 1..Len(s) /\ DOMAIN notices = 1..Len(notices)
        /\ DOMAIN r = 1..(Len(s) + Len(notices))
        /\ \A i \in 1..(Len(s) + Len(notices)) : r[i] = IF i <= Len(s) THEN s[i] ELSE notices[i - Len(s)]
    BY <1>1, <1>2, <1>4, ConcatProperties, LenProperties
  <2>2. \A i \in DOMAIN s : s[i].kind = "access" => i + 1 \in DOMAIN s /\ s[i + 1].file = s[i].file
    BY DEF IndexInv, WritesFollow
  <2> HIDE DEF s, r
  <2>3. ASSUME NEW i \in DOMAIN r, r[i].kind = "access"
        PROVE  i + 1 \in DOMAIN r /\ r[i + 1].file = r[i].file
    <3>1. CASE i <= Len(s)
      <4>1. i \in DOMAIN s /\ r[i] = s[i]
        BY <2>1, <3>1
      <4>2. i + 1 \in DOMAIN s /\ s[i + 1].file = s[i].file
        BY <2>2, <2>3, <4>1
      <4> QED
        BY <2>1, <4>1, <4>2
    <3>2. CASE ~(i <= Len(s))
      <4>1. PICK j \in DOMAIN notices : i = j + Len(s) /\ r[i] = notices[j]
        BY <2>1, <3>2
      <4>2. j + 1 \in DOMAIN notices /\ notices[j + 1].file = notices[j].file
        BY <2>3, <4>1
      <4>3. i + 1 \in DOMAIN r /\ r[i + 1] = notices[j + 1]
        BY <2>1, <4>1, <4>2
      <4> QED
        BY <4>1, <4>2, <4>3
    <3> QED
      BY <3>1, <3>2
  <2> QED
    BY <2>3 DEF WritesFollow, r
<1>7. ASSUME NEW g \in Files \ missed' PROVE Kept(g)'
  <2>1. Kept(g) /\ UNCHANGED <<written, committed, pending_commit, batch>>
    BY <1>1, <1>7 DEF IndexInv, indexer, index
  <2>2. CASE g = f
    <3>1. ~Settled(g)'
      BY <1>4, <2>2, SettledMeans
    <3> QED
      BY <2>1, <3>1 DEF Kept
  <2>3. CASE g # f
    <3>1. Settled(g)' => Settled(g)
      BY <1>3, <1>4, SettledMeans
    <3>2. disk'[g] = disk[g]
      BY <1>1, <1>2, <2>3
    <3> QED
      BY <2>1, <3>1, <3>2, StaysKept DEF Kept
  <2> QED
    BY <2>2, <2>3
<1> QED
  BY <1>5, <1>6, <1>7 DEF IndexInv

\* A file is written or removed.
LEMMA WritingKeepsIndex ==
    ASSUME IndexInv, NEW f \in Files, WriteFile(f) \/ RemoveFile(f)
    PROVE  IndexInv'
<1> DEFINE created == Notice("create", f)
           opened == Notice("access", f)
           modified == Notice("modify", f)
           removed == Notice("remove", f)
<1>1. /\ created \in Notices /\ created.file = f /\ created.kind # "access"
      /\ opened \in Notices /\ opened.file = f
      /\ modified \in Notices /\ modified.file = f /\ modified.kind # "access"
      /\ removed \in Notices /\ removed.file = f /\ removed.kind # "access"
  BY DEF Notice, Notices
<1>2. changes + 1 \in Nat /\ 0 \in Nat
  BY DEF IndexInv, IndexShape
<1>3. \/ Change(f, changes + 1, <<created>>) \/ Change(f, changes + 1, <<opened, modified>>)
      \/ Change(f, 0, <<removed>>)
  BY DEF WriteFile, RemoveFile
<1> HIDE DEF created, opened, modified, removed
<1>4. ASSUME NEW n \in Notices, n.file = f, n.kind # "access"
      PROVE  /\ <<n>> \in Seq(Notices) /\ FilesOf(<<n>>) = {f}
             /\ \A i \in DOMAIN <<n>> :
                  <<n>>[i].kind = "access" =>
                    i + 1 \in DOMAIN <<n>> /\ <<n>>[i + 1].file = <<n>>[i].file
  BY <1>4 DEF FilesOf
<1>5. /\ <<opened, modified>> \in Seq(Notices) /\ FilesOf(<<opened, modified>>) = {f}
      /\ \A i \in DOMAIN <<opened, modified>> :
           <<opened, modified>>[i].kind = "access" =>
             i + 1 \in DOMAIN <<opened, modified>>
             /\ <<opened, modified>>[i + 1].file = <<opened, modified>>[i].file
  <2> DEFINE both == <<opened, modified>>
  <2>1. DOMAIN both = {1, 2} /\ both[1] = opened /\ both[2] = modified /\ both \in Seq(Notices)
    BY <1>1
  <2> HIDE DEF both
  <2>2. FilesOf(both) = {f}
    BY <1>1, <2>1 DEF FilesOf
  <2>3. \A i \in DOMAIN both : both[i].kind = "access" => i + 1 \in DOMAIN both /\ both[i + 1].file = both[i].file
    BY <1>1, <2>1
  <2> QED
    BY <2>1, <2>2, <2>3 DEF both
<1>6. CASE Change(f, changes + 1, <<created>>)
  BY <1>1, <1>2, <1>4, <1>6, ChangeKeepsIndex
<1>7. CASE Change(f, changes + 1, <<opened, modified>>)
  BY <1>2, <1>5, <1>7, ChangeKeepsIndex
<1>8. CASE Change(f, 0, <<removed>>)
  BY <1>1, <1>2, <1>4, <1>8, ChangeKeepsIndex
<1> QED
  BY <1>3, <1>6, <1>7, <1>8

\* The watcher takes a notice: what of the file is kept is on its way to the
\* indexer, which hears of it or is lost to it.
LEMMA NoticeKeepsIndex ==
    ASSUME IndexInv, HandleNotifyEvent
    PROVE  IndexInv'
<1> DEFINE f == Head(notified).file
           kind == Head(notified).kind
           quiet == f \notin debouncer
           event == [is |-> EventOf(kind), file |-> f]
           out == quiet /\ kind # "access"
<1>1. /\ notified # <<>> /\ notified' = Tail(notified)
      /\ IF out THEN publish(event) ELSE UNCHANGED bus
      /\ missed' = missed \cup
           (IF kind = "access" THEN {}
            ELSE IF quiet THEN Loses \cup (IF "indexer" \in DOMAIN inbox THEN {} ELSE {f})
            ELSE IF Awaits(f) THEN {} ELSE {f})
      /\ UNCHANGED <<disk, changes, known, written, committed, pending_commit, batch>>
  BY DEF HandleNotifyEvent, world, index
<1>2. notified \in Seq(Notices) /\ Queue \in Seq(Events)
  BY DEF IndexInv, IndexShape
<1>3. Head(notified) \in Notices
  BY <1>1, <1>2, HeadTailProperties
<1>4. f \in Files /\ (kind # "access" => event \in Events) /\ event.file = f
  BY <1>3 DEF Notices, Events, EventOf
<1>5. notified' \in Seq(Notices) /\ FilesOf(notified) = {f} \cup FilesOf(notified')
  BY <1>1, <1>2, HeadTailProperties, FilesOfTail
<1> DEFINE s == notified
           r == notified'
<1>6. /\ Len(s) \in Nat \ {0} /\ DOMAIN s = 1..Len(s) /\ DOMAIN r = 1..Len(s) - 1
      /\ \A i \in DOMAIN r : r[i] = s[i + 1]
      /\ Head(s) = s[1]
  <2>1. Len(s) \in Nat \ {0} /\ DOMAIN s = 1..Len(s) /\ Head(s) = s[1]
    BY <1>1, <1>2, EmptySeq, LenProperties
  <2>2. Len(r) = Len(s) - 1 /\ \A i \in 1..Len(r) : r[i] = s[i + 1]
    BY <1>1, <1>2, HeadTailProperties
  <2>3. DOMAIN r = 1..Len(r)
    BY <1>5, LenProperties
  <2> QED
    BY <2>1, <2>2, <2>3
<1>7. \A i \in DOMAIN s : s[i].kind = "access" => i + 1 \in DOMAIN s /\ s[i + 1].file = s[i].file
  BY DEF IndexInv, WritesFollow
<1> HIDE DEF f, kind, event, quiet, out, s, r
<1>8. WritesFollow'
  <2>1. ASSUME NEW i \in DOMAIN r, r[i].kind = "access"
        PROVE  i + 1 \in DOMAIN r /\ r[i + 1].file = r[i].file
    <3>1. i + 1 \in DOMAIN s /\ s[i + 1].kind = "access"
      BY <1>6, <2>1
    <3>2. i + 1 + 1 \in DOMAIN s /\ s[i + 1 + 1].file = s[i + 1].file
      BY <1>7, <3>1
    <3>3. i + 1 \in DOMAIN r
      BY <1>6, <3>2
    <3> QED
      BY <1>6, <3>2, <3>3
  <2> QED
    BY <2>1 DEF WritesFollow, r
<1>9. kind = "access" => f \in FilesOf(notified')
  <2> SUFFICES ASSUME kind = "access" PROVE f \in FilesOf(r)
    BY DEF r
  <2>1. 1 \in DOMAIN s /\ s[1].kind = "access" /\ s[1].file = f
    BY <1>6 DEF kind, f, s
  <2>2. 1 + 1 \in DOMAIN s /\ s[1 + 1].file = f
    BY <1>7, <2>1
  <2>3. 1 \in DOMAIN r /\ r[1].file = f
    BY <1>6, <2>2
  <2> QED
    BY <2>3 DEF FilesOf
<1>10. /\ Queue' \in Seq(Events)
       /\ out => FilesOf(Queue) \subseteq FilesOf(Queue') \cup Loses
       /\ out /\ "indexer" \in DOMAIN inbox => f \in FilesOf(Queue')
       /\ ~out => Queue' = Queue
  <2>1. CASE out
    BY <1>1, <1>2, <1>4, <2>1, PublishedToQueue DEF out
  <2>2. CASE ~out
    BY <1>1, <1>2, <2>2 DEF Queue, bus
  <2> QED
    BY <2>1, <2>2
<1>11. IndexShape'
  BY <1>1, <1>5, <1>10 DEF IndexInv, IndexShape, BatchShape
<1>12. ASSUME NEW g \in Files \ missed' PROVE Kept(g)'
  <2>1. g \notin missed /\ Kept(g)
    BY <1>1, <1>12 DEF IndexInv
  <2>2. Settled(g)' => Settled(g)
    <3> SUFFICES ASSUME g \notin FilesOf(Queue'), g \notin FilesOf(notified')
                 PROVE  g \notin FilesOf(Queue) /\ g # f
      BY <1>5, SettledMeans
    <3>1. CASE out
      <4>1. g \notin Loses /\ ("indexer" \in DOMAIN inbox \/ g # f)
        BY <1>1, <1>12, <3>1 DEF out
      <4> QED
        BY <1>10, <3>1, <4>1
    <3>2. CASE kind = "access"
      BY <1>9, <1>10, <3>2 DEF out
    <3>3. CASE kind # "access" /\ ~quiet
      <4>1. Queue' = Queue /\ (Awaits(f) \/ g # f)
        BY <1>1, <1>10, <1>12, <3>3 DEF out
      <4>2. Awaits(f) => f \in FilesOf(Queue)
        BY SettledMeans
      <4> QED
        BY <4>1, <4>2
    <3> QED
      BY <3>1, <3>2, <3>3 DEF out
  <2> QED
    BY <1>1, <2>1, <2>2, StaysKept DEF Kept
<1> QED
  BY <1>8, <1>11, <1>12 DEF IndexInv

\* An event changes the documents of its own file only.
LEMMA HandledOthers ==
    ASSUME IndexShape, NEW f \in Files, NEW is \in {"FileAdded", "FileModified", "FileRemoved"}, NEW g
    PROVE  /\ Handled(written, is, f) \in Seq(Documents)
           /\ g # f => Holding(Handled(written, is, f), g) = Holding(written, g)
<1> DEFINE less == Without(written, f)
<1>1. written \in Seq(Documents) /\ known[f] \in Nat
  BY DEF IndexShape
<1>2. less \in Seq(Documents) /\ Holding(less, g) = IF g = f THEN Nothing ELSE Holding(written, g)
  BY <1>1, WithoutType, HoldingWithout
<1>3. CASE is = "FileAdded" /\ known[f] # 0
  <2>1. Handled(written, is, f) = index_file(written, f, known[f])
    BY <1>3 DEF Handled
  <2>2. index_file(written, f, known[f]) \in Seq(Documents)
    BY <1>1, IndexFileType
  <2>3. g # f => Holding(index_file(written, f, known[f]), g) = Holding(written, g)
    BY <1>1, OthersIndexed
  <2> QED
    BY <2>1, <2>2, <2>3
<1>4. CASE is = "FileRemoved"
  <2>1. Handled(written, is, f) = less \/ Handled(written, is, f) = written
    BY <1>4 DEF Handled, remove_file, remove_by_path
  <2> QED
    BY <1>1, <1>2, <2>1
<1>5. CASE is = "FileModified" /\ known[f] # 0
  <2>1. Handled(written, is, f) = index_file(less, f, known[f])
    BY <1>5 DEF Handled, remove_file
  <2> HIDE DEF less
  <2>2. index_file(less, f, known[f]) \in Seq(Documents)
    BY <1>1, <1>2, IndexFileType
  <2>3. g # f => Holding(index_file(less, f, known[f]), g) = Holding(less, g)
    BY <1>1, <1>2, OthersIndexed
  <2> QED
    BY <1>2, <2>1, <2>2, <2>3
<1>6. CASE is # "FileRemoved" /\ known[f] = 0
  <2>1. Handled(written, is, f) = written
    BY <1>6 DEF Handled
  <2> QED
    BY <1>1, <2>1
<1> QED
  BY <1>3, <1>4, <1>5, <1>6

\* An event that mends, or does not spoil, leaves the file as it is at the
\* origin.
LEMMA HandledIsRight ==
    ASSUME IndexShape, NEW f \in Files, NEW is \in {"FileAdded", "FileModified", "FileRemoved"},
           Mends(is, f) \/ ~Spoils(is, f)
    PROVE  Holding(Handled(written, is, f), f) = Present(f)
<1> DEFINE less == Without(written, f)
<1>1. written \in Seq(Documents) /\ known[f] \in Nat /\ disk[f] \in Nat
  BY DEF IndexShape
<1>2. less \in Seq(Documents) /\ Holding(less, f) = Nothing
  BY <1>1, WithoutType, HoldingWithout
<1>3. CASE is = "FileAdded"
  <2>1. known[f] # 0 /\ known[f] = disk[f] /\ VersionsOf(written, f) = {}
    BY <1>3 DEF Mends, Spoils
  <2>2. Handled(written, is, f) = index_file(written, f, known[f])
    BY <1>3, <2>1 DEF Handled
  <2>3. Holding(index_file(written, f, known[f]), f) = [versions |-> {known[f]}, sole |-> TRUE]
    BY <1>1, <2>1, IndexedAnew
  <2> QED
    BY <2>1, <2>2, <2>3 DEF Present
<1>4. CASE is = "FileModified"
  <2>1. known[f] # 0 /\ known[f] = disk[f]
    BY <1>4 DEF Mends, Spoils
  <2>2. Handled(written, is, f) = index_file(less, f, known[f])
    BY <1>4, <2>1 DEF Handled, remove_file
  <2>3. VersionsOf(less, f) = {}
    BY <1>2, HoldingMeans DEF Nothing
  <2> HIDE DEF less
  <2>4. Holding(index_file(less, f, known[f]), f) = [versions |-> {known[f]}, sole |-> TRUE]
    BY <1>1, <1>2, <2>3, IndexedAnew
  <2> QED
    BY <2>1, <2>2, <2>4 DEF Present
<1>5. CASE is = "FileRemoved"
  <2>1. known[f] # 0 /\ disk[f] = 0
    BY <1>5 DEF Mends, Spoils
  <2>2. Handled(written, is, f) = less
    BY <1>5, <2>1 DEF Handled, remove_file
  <2> QED
    BY <1>2, <2>1, <2>2 DEF Present, Nothing
<1> QED
  BY <1>3, <1>4, <1>5

\* The indexer hears of the event that waited longest.
LEMMA IndexerHears ==
    ASSUME IndexShape, Hears("indexer")
    PROVE  /\ Queue # <<>> /\ Head(inbox["indexer"]) = Head(Queue) /\ Head(Queue) \in Events
           /\ Queue' = Tail(Queue) /\ Queue' \in Seq(Events)
           /\ FilesOf(Queue) = {Head(Queue).file} \cup FilesOf(Queue')
<1>1. Queue \in Seq(Events) /\ "indexer" \in DOMAIN inbox /\ Queue = inbox["indexer"] /\ Queue # <<>>
  BY DEF Hears, IndexShape, Queue
<1>2. Queue' = Tail(Queue)
  BY <1>1 DEF Hears, Queue
<1> QED
  BY <1>1, <1>2, HeadTailProperties, FilesOfTail

\* The indexer handles an event, or fails to: of the file it is then right, or
\* excused.
LEMMA HandlingKeepsIndex ==
    ASSUME IndexInv, NEW failed \in BOOLEAN, HandleEvent(failed)
    PROVE  IndexInv'
<1> DEFINE event == Head(Queue)
           f == event.file
           is == event.is
<1>0. IndexShape /\ Hears("indexer")
  BY DEF IndexInv, HandleEvent
<1>1. /\ Head(inbox["indexer"]) = event /\ event \in Events
      /\ Queue' \in Seq(Events) /\ FilesOf(Queue) = {f} \cup FilesOf(Queue')
  BY <1>0, IndexerHears
<1>2. f \in Files /\ is \in {"FileAdded", "FileModified", "FileRemoved"}
  BY <1>1 DEF Events
<1>3. /\ UNCHANGED <<disk, changes, known, notified, committed, batch>> /\ pending_commit' = TRUE
      /\ IF failed
         THEN /\ written' = written \/ written' = Without(written, f)
              /\ missed' = missed \cup {f}
         ELSE /\ written' = Handled(written, is, f)
              /\ missed' = IF Mends(is, f) THEN missed \ {f}
                           ELSE IF Spoils(is, f) THEN missed \cup {f} ELSE missed
  BY <1>1 DEF HandleEvent, PendingAfter, watcher, remove_file
<1> HIDE DEF event, f, is
<1>4. written \in Seq(Documents)
  BY <1>0 DEF IndexShape
<1>5. /\ written' \in Seq(Documents)
      /\ \A g \in Files : g # f => Holding(written', g) = Holding(written, g)
  <2>1. Without(written, f) \in Seq(Documents)
        /\ \A g \in Files : g # f => Holding(Without(written, f), g) = Holding(written, g)
    BY <1>4, WithoutType, HoldingWithout
  <2>2. Handled(written, is, f) \in Seq(Documents)
        /\ \A g \in Files : g # f => Holding(Handled(written, is, f), g) = Holding(written, g)
    BY <1>0, <1>2, HandledOthers
  <2> QED
    BY <1>3, <1>4, <2>1, <2>2
<1>6. IndexShape' /\ WritesFollow'
  BY <1>0, <1>1, <1>3, <1>5 DEF IndexInv, IndexShape, BatchShape, WritesFollow
<1>7. ASSUME NEW g \in Files \ missed' PROVE Kept(g)'
  <2>1. CASE g = f
    <3>1. Holding(written', f) = Present(f)
      BY <1>0, <1>2, <1>3, <1>7, <2>1, HandledIsRight
    <3> QED
      BY <1>3, <2>1, <3>1 DEF Kept, Present
  <2>2. CASE g # f
    <3>1. Kept(g)
      BY <1>3, <1>7, <2>2 DEF IndexInv
    <3>2. Settled(g)' => Settled(g)
      BY <1>1, <1>3, <2>2, SettledMeans
    <3> QED
      BY <1>3, <1>5, <1>7, <2>2, <3>1, <3>2, StaysKept
  <2> QED
    BY <2>1, <2>2
<1> QED
  BY <1>6, <1>7 DEF IndexInv

\* The timer: what fails to be committed is excused.
LEMMA TickKeepsIndex ==
    ASSUME IndexInv, CommitTick
    PROVE  IndexInv'
<1>1. /\ UNCHANGED <<disk, changes, known, notified, bus, written, batch>>
      /\ \/ committed' = written /\ missed' = missed
         \/ committed' \in {committed, written} /\ missed' = missed \cup Uncommitted
  BY DEF CommitTick, CommitSucceeds, CommitFails, commit, watcher
<1>2. Queue' = Queue
  BY <1>1 DEF Queue, bus
<1>3. IndexShape' /\ WritesFollow'
  BY <1>1, <1>2 DEF IndexInv, IndexShape, BatchShape, WritesFollow
<1>4. ASSUME NEW g \in Files \ missed' PROVE Kept(g)'
  <2>1. Kept(g)
    BY <1>1, <1>4 DEF IndexInv
  <2>2. Settled(g)' => Settled(g)
    BY <1>1, <1>2, SettledMeans
  <2>3. Holding(written', g) = Holding(committed', g)
    BY <1>1, <1>4 DEF Uncommitted
  <2> QED
    BY <1>1, <2>1, <2>2, <2>3, StaysKept
<1> QED
  BY <1>3, <1>4 DEF IndexInv

\* The indexer stops: what waited for it is excused, and what its last commit
\* fails to write.
LEMMA StoppingKeepsIndex ==
    ASSUME IndexInv, Stop
    PROVE  IndexInv'
<1>1. /\ UNCHANGED <<disk, changes, known, notified, written, batch>>
      /\ \/ pending_commit /\ committed' = written /\ missed' = missed \cup Unheard
         \/ /\ pending_commit /\ committed' \in {committed, written}
            /\ missed' = missed \cup Unheard \cup Uncommitted
         \/ ~pending_commit /\ committed' = committed /\ missed' = missed \cup Unheard
  BY DEF Stop, CommitSucceeds, CommitFails, commit, watcher, index
<1>2. Queue' = <<>> /\ Queue' \in Seq(Events) /\ FilesOf(Queue') = {}
  BY DEF Stop, Unsubscribe, Remove, Queue, FilesOf
<1>3. IndexShape' /\ WritesFollow'
  BY <1>1, <1>2 DEF IndexInv, IndexShape, BatchShape, WritesFollow
<1>4. ASSUME NEW g \in Files \ missed' PROVE Kept(g)'
  <2>1. Kept(g) /\ g \notin Unheard
    BY <1>1, <1>4 DEF IndexInv
  <2>2. Settled(g)' => Settled(g)
    BY <1>1, <2>1, SettledMeans DEF Unheard
  <2>3. ~batch.on => Holding(written', g) = Holding(committed', g)
    <3>1. CASE ~pending_commit
      BY <1>1, <2>1, <3>1 DEF Kept
    <3>2. CASE pending_commit /\ g \notin Uncommitted
      BY <1>1, <3>2 DEF Uncommitted
    <3>3. CASE committed' = written
      BY <1>1, <3>3
    <3> QED
      BY <1>1, <1>4, <3>1, <3>2, <3>3
  <2> QED
    BY <1>1, <2>1, <2>2, <2>3, StaysKept
<1> QED
  BY <1>3, <1>4 DEF IndexInv

\* index_batch begins, commits or breaks off: the writer's documents stay.
LEMMA BatchFrameKeepsIndex ==
    ASSUME IndexInv, NEW files \in SUBSET Files, BatchBegin(files) \/ BatchCommit \/ BatchBreaksOff
    PROVE  IndexInv'
<1>1. /\ UNCHANGED <<disk, changes, known, notified, bus, written, pending_commit>>
      /\ \/ /\ committed' = committed /\ missed' = missed
            /\ batch' = [on |-> TRUE, left |-> [f \in files |-> known[f]]]
            /\ \A f \in files : known[f] # 0
         \/ committed' = written /\ missed' = missed /\ batch' = NoBatch
         \/ /\ committed' \in {committed, written} /\ missed' = missed \cup Uncommitted
            /\ batch' = NoBatch
  BY DEF BatchBegin, BatchCommit, BatchBreaksOff, Batch, CommitSucceeds, CommitFails, commit, watcher, index
<1>2. Queue' = Queue
  BY <1>1 DEF Queue, bus
<1>3. known \in [Files -> Nat] /\ files \subseteq Files
  BY DEF IndexInv, IndexShape
<1>4. BatchShape'
  BY <1>1, <1>3 DEF BatchShape, NoBatch
<1>5. IndexShape' /\ WritesFollow'
  BY <1>1, <1>2, <1>4 DEF IndexInv, IndexShape, WritesFollow
<1>6. ASSUME NEW g \in Files \ missed' PROVE Kept(g)'
  <2>1. Kept(g)
    BY <1>1, <1>6 DEF IndexInv
  <2>2. Settled(g)' => Settled(g)
    BY <1>1, <1>2, SettledMeans
  <2>3. ~batch'.on => Holding(written', g) = Holding(committed', g)
    BY <1>1, <1>6 DEF Uncommitted
  <2> QED
    BY <1>1, <2>1, <2>2, <2>3, StaysKept
<1> QED
  BY <1>5, <1>6 DEF IndexInv

\* index_batch adds a document: of its file the index is then right, or excused.
LEMMA BatchKeepsIndex ==
    ASSUME IndexInv, NEW f \in Files, BatchIndex(f)
    PROVE  IndexInv'
<1> DEFINE v == batch.left[f]
<1>1. /\ batch.on /\ f \in DOMAIN batch.left
      /\ written' = index_file(written, f, v)
      /\ missed' = IF v = disk[f] /\ VersionsOf(written, f) = {}
                   THEN missed \ {f} ELSE missed \cup {f}
      /\ batch' = [on |-> TRUE, left |-> Remove(batch.left, {f})]
      /\ UNCHANGED <<disk, changes, known, notified, bus, pending_commit, committed>>
  BY DEF BatchIndex, Batch, watcher
<1>2. Queue' = Queue
  BY <1>1 DEF Queue, bus
<1>3. written \in Seq(Documents) /\ v \in Nat /\ v # 0
  BY <1>1 DEF IndexInv, IndexShape, BatchShape
<1>4. written' \in Seq(Documents)
  BY <1>1, <1>3, IndexFileType
<1>5. BatchShape'
  BY <1>1 DEF IndexInv, IndexShape, BatchShape, Remove
<1>6. IndexShape' /\ WritesFollow'
  BY <1>1, <1>2, <1>4, <1>5 DEF IndexInv, IndexShape, WritesFollow
<1> HIDE DEF v
<1>7. \A g : g # f => Holding(written', g) = Holding(written, g)
  BY <1>1, <1>3, OthersIndexed
<1>8. ASSUME NEW g \in Files \ missed' PROVE Kept(g)'
  <2>1. batch'.on
    BY <1>1
  <2>2. CASE g = f
    <3>1. v = disk[f] /\ VersionsOf(written, f) = {}
      BY <1>1, <1>8, <2>2
    <3>2. Holding(written', f) = [versions |-> {v}, sole |-> TRUE]
      BY <1>1, <1>3, <3>1, IndexedAnew
    <3>3. Holding(written', g) = Present(g)' /\ disk' = disk
      BY <1>1, <1>3, <2>2, <3>1, <3>2 DEF Present
    <3> QED
      BY <2>1, <3>3 DEF Kept
  <2>3. CASE g # f
    <3>1. Kept(g)
      BY <1>1, <1>8, <2>3 DEF IndexInv
    <3>2. Settled(g)' => Settled(g)
      BY <1>1, <1>2, SettledMeans
    <3> QED
      BY <1>1, <1>7, <2>1, <2>3, <3>1, <3>2, StaysKept
  <2> QED
    BY <2>2, <2>3
<1> QED
  BY <1>6, <1>8 DEF IndexInv

\* The daemon comes back with what was committed, or with nothing at all.
LEMMA CrashKeepsIndex ==
    ASSUME IndexInv, Crash
    PROVE  IndexInv'
<1>1. /\ UNCHANGED <<disk, changes, known>> /\ notified' = <<>>
      /\ batch' = NoBatch
      /\ \/ /\ written' = committed /\ committed' = committed
            /\ missed' = missed \cup Uncommitted
                  \cup {f \in Files : Awaits(f) \/ \E i \in DOMAIN notified : notified[i].file = f}
         \/ written' = <<>> /\ committed' = <<>> /\ missed' = Files
  BY DEF Crash, open_with_recovery
<1>2. Queue' = <<>>
  BY DEF Crash, Queue
<1>3. IndexShape' /\ WritesFollow'
  <2>1. <<>> \in Seq(Documents) /\ <<>> \in Seq(Notices) /\ <<>> \in Seq(Events) /\ DOMAIN <<>> = {}
    BY EmptySeq
  <2> QED
    BY <1>1, <1>2, <2>1 DEF IndexInv, IndexShape, BatchShape, NoBatch, WritesFollow
<1>4. ASSUME NEW g \in Files \ missed' PROVE Kept(g)'
  <2>1. /\ g \notin missed /\ Settled(g) /\ g \notin Uncommitted
        /\ written' = committed /\ committed' = committed
    BY <1>1, <1>4 DEF Settled
  <2>2. Kept(g) /\ Holding(written, g) = Holding(committed, g)
    BY <1>4, <2>1 DEF IndexInv, Uncommitted
  <2> QED
    BY <1>1, <2>1, <2>2 DEF Kept, Present
<1> QED
  BY <1>3, <1>4 DEF IndexInv

\* Every step keeps the invariant.
LEMMA IndexStep ==
    ASSUME IndexInv, [Next]_vars
    PROVE  IndexInv'
<1>0. known \in [Files -> Nat] /\ disk \in [Files -> Nat]
  BY DEF IndexInv, IndexShape
<1>1. ASSUME NEW f \in Files, WriteFile(f) \/ RemoveFile(f) PROVE IndexInv'
  BY <1>1, WritingKeepsIndex
<1>2. ASSUME NEW f \in Files, Learn(f) PROVE IndexInv'
  <2>1. known' \in [Files -> Nat]
    BY <1>0, <1>2 DEF Learn
  <2>2. Queue' = Queue /\ UNCHANGED <<disk, changes, notified, indexer>>
    BY <1>2 DEF Learn, watcher, bus, Queue
  <2> QED
    BY <2>1, <2>2, OthersKeepIndex
<1>3. CASE HandleNotifyEvent
  BY <1>3, NoticeKeepsIndex
<1>4. CASE HandleEventDone \/ HandleEventFails
  BY <1>4, HandlingKeepsIndex DEF HandleEventDone, HandleEventFails
<1>5. CASE CommitTick
  BY <1>5, TickKeepsIndex
<1>6. CASE Stop
  BY <1>6, StoppingKeepsIndex
<1>7. CASE Crash
  BY <1>7, CrashKeepsIndex
<1>8. ASSUME NEW f \in Files, BatchIndex(f) PROVE IndexInv'
  BY <1>8, BatchKeepsIndex
<1>17. ASSUME NEW files \in Batches, BatchBegin(files) PROVE IndexInv'
  BY <1>17, SearchAssumption, BatchFrameKeepsIndex
<1>18. CASE BatchCommit \/ BatchBreaksOff
  <2>1. {} \in SUBSET Files
    OBVIOUS
  <2> QED
    BY <1>18, <2>1, BatchFrameKeepsIndex
<1>9. ASSUME UNCHANGED <<disk, changes, known, notified, indexer>>, Queue' = Queue PROVE IndexInv'
  BY <1>0, <1>9, OthersKeepIndex
<1>10. ASSUME NEW f \in Files, DebounceOver(f) PROVE IndexInv'
  BY <1>9, <1>10 DEF DebounceOver, world, bus, Queue
<1>11. CASE IndexerLags
  BY <1>9, <1>11 DEF IndexerLags, HearsLagged, world, watcher, Queue
<1>12. CASE HookReceives
  <2>1. UNCHANGED <<disk, changes, known, notified, indexer>>
    BY <1>12 DEF HookReceives, Hook, world, watcher
  <2>2. Queue' = Queue
    BY <1>12 DEF HookReceives, Hears, HearsLagged, Queue
  <2> QED
    BY <1>9, <2>1, <2>2
<1>13. CASE Delivered \/ DeliveryFails
  BY <1>9, <1>13 DEF Delivered, DeliveryFails, Hook, world, watcher, bus, Queue
<1>14. ASSUME NEW q \in Queries, NEW first, NEW last, ReaddirQuery(q, first, last) \/ ResultsExpire(q)
       PROVE  IndexInv'
  BY <1>9, <1>14 DEF ReaddirQuery, ResultsExpire, Executes, world, watcher, bus, Queue
<1>15. ASSUME NEW i \in 1..Limit, Readlink(i) \/ LinkExpires(i) PROVE IndexInv'
  BY <1>9, <1>15 DEF Readlink, LinkExpires, Executes, world, watcher, bus, Queue
<1>16. CASE UNCHANGED vars
  BY <1>9, <1>16 DEF vars, world, watcher, bus, Queue
<1> QED
  BY <1>1, <1>2, <1>3, <1>4, <1>5, <1>6, <1>7, <1>8, <1>10, <1>11, <1>12, <1>13, <1>14, <1>15,
     <1>16, <1>17, <1>18 DEF Next

\* The invariant holds throughout: what the index is to have of a file the
\* writer has, as soon as nothing of the file is on its way, and a commit that
\* nobody means to make would change nothing.
THEOREM IndexInvariance == Spec => []IndexInv
<1>1. Init => IndexInv
  <2> SUFFICES ASSUME Init PROVE IndexInv
    OBVIOUS
  <2>1. <<>> \in Seq(Documents) /\ <<>> \in Seq(Notices) /\ <<>> \in Seq(Events) /\ DOMAIN <<>> = {}
    BY EmptySeq
  <2>2. Queue = <<>>
    BY DEF Init, BusInit, Queue
  <2>3. IndexShape /\ WritesFollow
    BY <2>1, <2>2 DEF Init, IndexInit, IndexShape, BatchShape, NoBatch, WritesFollow
  <2>4. \A f \in Files : Kept(f)
    <3>1. \A f : VersionsOf(<<>>, f) = {} /\ Sole(<<>>, f) = TRUE
      BY DEF VersionsOf, Sole
    <3>2. \A f : Holding(<<>>, f) = Nothing
      BY <3>1, HoldingMeans DEF Nothing
    <3> QED
      BY <3>2 DEF Init, IndexInit, Kept, Present, Nothing
  <2> QED
    BY <2>3, <2>4 DEF IndexInv
<1>2. IndexInv /\ [Next]_vars => IndexInv'
  BY IndexStep
<1> QED
  BY <1>1, <1>2, PTL DEF Spec

\* Watcher, bus, indexer and batches together: a settled, committed file has one
\* document in the index, as it is at the origin, unless it was missed in one of
\* the ways IndexIsRight names (watcher.rs, events.rs, indexer.rs).
THEOREM IndexStaysRight == Spec => []IndexIsRight
<1>1. IndexInv => IndexIsRight
  BY DEF IndexInv, Kept, IndexIsRight
<1> QED
  BY <1>1, IndexInvariance, PTL

----------------------------------------------------------------------------
(* What is committed.                                                      *)

\* Outside a batch nothing stays uncommitted for longer than the timer takes, so
\* that a crash loses nothing the writer had, unless the last commit failed or a
\* batch broke off (the loop that Indexer::start spawns, and index_batch).
THEOREM NothingStaysUncommitted == Spec => []NothingUncommitted
<1>1. Init => NothingUncommitted
  BY DEF Init, IndexInit, NothingUncommitted
<1>2. NothingUncommitted /\ [Next]_vars => NothingUncommitted'
  <2> SUFFICES ASSUME NothingUncommitted, [Next]_vars
               PROVE  NothingUncommitted'
    OBVIOUS
  <2>1. ASSUME UNCHANGED <<written, committed, pending_commit, batch, unsaved>>
        PROVE  NothingUncommitted'
    BY <2>1 DEF NothingUncommitted
  <2>2. ASSUME NEW f \in Files, WriteFile(f) \/ RemoveFile(f) \/ Learn(f) \/ DebounceOver(f)
        PROVE  NothingUncommitted'
    BY <2>1, <2>2 DEF WriteFile, RemoveFile, Change, Learn, DebounceOver, indexer, index
  <2>3. CASE HandleNotifyEvent
    BY <2>1, <2>3 DEF HandleNotifyEvent, index
  <2>4. CASE HandleEventDone \/ HandleEventFails
    BY <2>4 DEF HandleEventDone, HandleEventFails, HandleEvent, PendingAfter, NothingUncommitted
  <2>5. CASE IndexerLags \/ HookReceives \/ Delivered \/ DeliveryFails \/ UNCHANGED vars
    BY <2>1, <2>5 DEF IndexerLags, HookReceives, Delivered, DeliveryFails, Hook, vars, indexer, index
  <2>6. CASE CommitTick
    BY <2>6 DEF CommitTick, CommitSucceeds, CommitFails, commit, NothingUncommitted
  <2>7. CASE Stop
    BY <2>7 DEF Stop, CommitSucceeds, CommitFails, commit, index, NothingUncommitted
  <2>8. CASE Crash
    BY <2>8 DEF Crash, open_with_recovery, NothingUncommitted
  <2>9. ASSUME NEW files \in Batches, BatchBegin(files)
        PROVE  NothingUncommitted'
    BY <2>9 DEF BatchBegin, NothingUncommitted
  <2>10. ASSUME NEW f \in Files, BatchIndex(f)
         PROVE  NothingUncommitted'
    BY <2>10 DEF BatchIndex, NothingUncommitted
  <2>11. CASE BatchCommit \/ BatchBreaksOff
    BY <2>11 DEF BatchCommit, BatchBreaksOff, CommitSucceeds, CommitFails, commit, NothingUncommitted
  <2>12. ASSUME NEW q \in Queries, NEW first, NEW last, ReaddirQuery(q, first, last) \/ ResultsExpire(q)
         PROVE  NothingUncommitted'
    BY <2>1, <2>12 DEF ReaddirQuery, ResultsExpire, Executes, indexer, index
  <2>13. ASSUME NEW i \in 1..Limit, Readlink(i) \/ LinkExpires(i)
         PROVE  NothingUncommitted'
    BY <2>1, <2>13 DEF Readlink, LinkExpires, Executes, indexer, index
  <2> QED
    BY <2>2, <2>3, <2>4, <2>5, <2>6, <2>7, <2>8, <2>9, <2>10, <2>11, <2>12, <2>13 DEF Next
<1> QED
  BY <1>1, <1>2, PTL DEF Spec

----------------------------------------------------------------------------
(* The links of .search.                                                   *)

\* What stood for a link of a listing is still among the results that are kept.
LinksInv ==
    /\ \A l \in DOMAIN shown :
         /\ l = <<l[1], l[2]>>
         /\ l[1] \in DOMAIN result_cache
         /\ l[2] \in DOMAIN result_cache[l[1]]
         /\ shown[l] = result_cache[l[1]][l[2]]
    /\ \A i \in DOMAIN inode_to_result : inode_to_result[i].hit = i
    /\ \A q \in DOMAIN result_cache : DOMAIN result_cache[q] \subseteq 1..Limit

\* Whatever becomes of the index.
LEMMA OthersKeepLinks ==
    ASSUME LinksInv, UNCHANGED links
    PROVE  LinksInv'
BY DEF LinksInv, links

\* To execute a query again changes nothing of the hits that are kept.
LEMMA ExecutedAgain ==
    ASSUME LinksInv, NEW q, Executes(q)
    PROVE  /\ DOMAIN result_cache' = DOMAIN result_cache \cup {q}
           /\ result_cache'[q] = execute_query(q)
           /\ \A p \in DOMAIN result_cache : result_cache'[p] = result_cache[p]
           /\ \A p \in DOMAIN result_cache' : DOMAIN result_cache'[p] \subseteq 1..Limit
<1>1. result_cache' = Insert(result_cache, q, execute_query(q))
  BY DEF Executes
<1>2. q \in DOMAIN result_cache => execute_query(q) = result_cache[q]
  BY DEF execute_query
<1>3. DOMAIN execute_query(q) \subseteq 1..Limit
  <2>1. DOMAIN search(q) \subseteq 1..Limit
    BY DEF search
  <2> QED
    BY <2>1 DEF execute_query, LinksInv
<1> HIDE DEF execute_query
<1> QED
  BY <1>1, <1>2, <1>3 DEF Insert, LinksInv

\* The kernel lists a query: its links lead to the hits there are, which are those
\* of an earlier listing if its results are kept.
LEMMA ListingKeepsLinks ==
    ASSUME LinksInv, NEW q, NEW first, NEW last, ReaddirQuery(q, first, last)
    PROVE  LinksInv'
<1> DEFINE hits == execute_query(q)
           listed == DOMAIN hits \cap first..last
           linked_to == [i \in listed |-> [query |-> q, hit |-> i]]
           standing == [l \in {q} \X listed |-> hits[l[2]]]
<1>1. /\ DOMAIN result_cache' = DOMAIN result_cache \cup {q}
      /\ result_cache'[q] = hits
      /\ \A p \in DOMAIN result_cache : result_cache'[p] = result_cache[p]
      /\ \A p \in DOMAIN result_cache' : DOMAIN result_cache'[p] \subseteq 1..Limit
  BY ExecutedAgain DEF ReaddirQuery
<1>2. /\ inode_to_result' = Over(linked_to, inode_to_result)
      /\ shown' = Over(shown, standing)
  BY DEF ReaddirQuery
<1>3. listed \subseteq DOMAIN hits
  OBVIOUS
<1>4. /\ DOMAIN standing = {q} \X listed
      /\ \A l \in DOMAIN standing : l = <<l[1], l[2]>> /\ l[1] = q /\ l[2] \in listed /\ standing[l] = hits[l[2]]
  OBVIOUS
<1>5. \A i \in DOMAIN linked_to : linked_to[i].hit = i
  OBVIOUS
<1> HIDE DEF hits, listed, linked_to, standing
<1>6. ASSUME NEW l \in DOMAIN shown'
      PROVE  /\ l = <<l[1], l[2]>>
             /\ l[1] \in DOMAIN result_cache'
             /\ l[2] \in DOMAIN result_cache'[l[1]]
             /\ shown'[l] = result_cache'[l[1]][l[2]]
  <2>1. CASE l \in DOMAIN shown
    BY <1>1, <1>2, <2>1 DEF LinksInv, Over
  <2>2. CASE l \notin DOMAIN shown
    <3>1. l \in DOMAIN standing /\ shown'[l] = standing[l]
      BY <1>2, <2>2 DEF Over
    <3> QED
      BY <1>1, <1>3, <1>4, <3>1
  <2> QED
    BY <2>1, <2>2
<1>7. \A i \in DOMAIN inode_to_result' : inode_to_result'[i].hit = i
  BY <1>2, <1>5 DEF LinksInv, Over
<1> QED
  BY <1>1, <1>6, <1>7 DEF LinksInv

\* A link is read: the query is executed again if its results are gone.
LEMMA ReadingKeepsLinks ==
    ASSUME LinksInv, NEW i, Readlink(i)
    PROVE  LinksInv'
<1> DEFINE q == inode_to_result[i].query
<1>1. /\ DOMAIN result_cache' = DOMAIN result_cache \cup {q}
      /\ \A p \in DOMAIN result_cache : result_cache'[p] = result_cache[p]
      /\ \A p \in DOMAIN result_cache' : DOMAIN result_cache'[p] \subseteq 1..Limit
  BY ExecutedAgain DEF Readlink
<1>2. UNCHANGED <<inode_to_result, shown>>
  BY DEF Readlink
<1> QED
  BY <1>1, <1>2 DEF LinksInv

\* What stood for the links of a query is forgotten with its results.
LEMMA ExpiryKeepsLinks ==
    ASSUME LinksInv, NEW x, ResultsExpire(x) \/ LinkExpires(x)
    PROVE  LinksInv'
<1>1. CASE LinkExpires(x)
  BY <1>1 DEF LinkExpires, Remove, LinksInv
<1>2. CASE ResultsExpire(x)
  <2>1. /\ result_cache' = Remove(result_cache, {x})
        /\ shown' = Remove(shown, {x} \X (1..Limit))
        /\ inode_to_result' = inode_to_result
    BY <1>2 DEF ResultsExpire
  <2>2. ASSUME NEW l \in DOMAIN shown'
        PROVE  /\ l = <<l[1], l[2]>>
               /\ l[1] \in DOMAIN result_cache'
               /\ l[2] \in DOMAIN result_cache'[l[1]]
               /\ shown'[l] = result_cache'[l[1]][l[2]]
    <3>1. l \in DOMAIN shown /\ shown'[l] = shown[l] /\ l \notin {x} \X (1..Limit)
      BY <2>1 DEF Remove
    <3>2. /\ l[1] \in DOMAIN result_cache /\ l[2] \in DOMAIN result_cache[l[1]]
          /\ shown[l] = result_cache[l[1]][l[2]] /\ l[2] \in 1..Limit
          /\ l = <<l[1], l[2]>>
      BY <3>1 DEF LinksInv
    <3>3. l[1] # x
      BY <3>1, <3>2
    <3> QED
      BY <2>1, <3>1, <3>2, <3>3 DEF Remove
  <2> QED
    BY <2>1, <2>2 DEF LinksInv, Remove
<1> QED
  BY <1>1, <1>2

\* While a query's results are kept, a link that is its own leads to the file it
\* stood for in every listing of it, whatever is indexed, committed or lost in
\* between (ops/search.rs).
THEOREM LinksStayTrue == Spec => []LinksKeepTheirHit
<1>1. Init => LinksInv
  BY DEF Init, LinksInv, EmptyMap
<1>2. LinksInv /\ [Next]_vars => LinksInv'
  <2> SUFFICES ASSUME LinksInv, [Next]_vars PROVE LinksInv'
    OBVIOUS
  <2>1. ASSUME NEW f \in Files, WriteFile(f) \/ RemoveFile(f) \/ Learn(f) \/ DebounceOver(f) \/ BatchIndex(f)
        PROVE  LinksInv'
    BY <2>1, OthersKeepLinks DEF WriteFile, RemoveFile, Change, Learn, DebounceOver, BatchIndex, Batch
  <2>2. CASE HandleNotifyEvent \/ HandleEventDone \/ HandleEventFails \/ IndexerLags \/ CommitTick \/ Stop
    BY <2>2, OthersKeepLinks DEF HandleNotifyEvent, HandleEventDone, HandleEventFails, HandleEvent,
       IndexerLags, CommitTick, Stop
  <2>3. CASE HookReceives \/ Delivered \/ DeliveryFails \/ UNCHANGED vars
    BY <2>3, OthersKeepLinks DEF HookReceives, Delivered, DeliveryFails, Hook, vars
  <2>4. CASE Crash
    BY <2>4 DEF Crash, LinksInv, EmptyMap
  <2>5. ASSUME NEW files \in Batches, BatchBegin(files)
        PROVE  LinksInv'
    BY <2>5, OthersKeepLinks DEF BatchBegin, Batch
  <2>6. CASE BatchCommit \/ BatchBreaksOff
    BY <2>6, OthersKeepLinks DEF BatchCommit, BatchBreaksOff, Batch
  <2>7. ASSUME NEW q \in Queries, NEW first, NEW last, ReaddirQuery(q, first, last) \/ ResultsExpire(q)
        PROVE  LinksInv'
    BY <2>7, ListingKeepsLinks, ExpiryKeepsLinks
  <2>8. ASSUME NEW i \in 1..Limit, Readlink(i) \/ LinkExpires(i)
        PROVE  LinksInv'
    BY <2>8, ReadingKeepsLinks, ExpiryKeepsLinks
  <2> QED
    BY <2>1, <2>2, <2>3, <2>4, <2>5, <2>6, <2>7, <2>8 DEF Next
<1>3. LinksInv => LinksKeepTheirHit
  <2> SUFFICES ASSUME LinksInv, NEW i \in DOMAIN inode_to_result,
                      <<inode_to_result[i].query, i>> \in DOMAIN shown
               PROVE  linked(i) = shown[<<inode_to_result[i].query, i>>]
    BY DEF LinksKeepTheirHit
  <2> DEFINE q == inode_to_result[i].query
  <2>1. q \in DOMAIN result_cache /\ i \in DOMAIN result_cache[q] /\ shown[<<q, i>>] = result_cache[q][i]
    BY DEF LinksInv
  <2>2. inode_to_result[i].hit = i
    BY DEF LinksInv
  <2> QED
    BY <2>1, <2>2 DEF linked, execute_query
<1> QED
  BY <1>1, <1>2, <1>3, PTL DEF Spec
=============================================================================
