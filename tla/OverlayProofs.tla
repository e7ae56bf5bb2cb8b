--------------------------- MODULE OverlayProofs ---------------------------
(***************************************************************************)
(* Theorems about Overlay: what an application reads is one whole virtual  *)
(* file and shows what users have set; for any versions of the file, rows, *)
(* edits, sizes of a read and failures, as long as no version is cut off   *)
(* inside its header.                                                      *)
(***************************************************************************)
EXTENDS Overlay, FiniteSetTheorems, SequenceTheorems, TLAPS

----------------------------------------------------------------------------
(* Slices.                                                                 *)

\* A slice holds what it says, and as much of it as there is.
LEMMA SliceIs ==
    ASSUME NEW T, NEW s \in Seq(T), NEW offset \in Nat, NEW size \in Nat
    PROVE  /\ Slice(s, offset, size) \in Seq(T)
           /\ Len(Slice(s, offset, size)) =
                IF offset < Len(s) THEN Min2(offset + size, Len(s)) - offset ELSE 0
           /\ \A i \in 1..Len(Slice(s, offset, size)) :
                Slice(s, offset, size)[i] = s[offset + i]
<1> DEFINE last == Min2(offset + size, Len(s))
<1>1. Len(s) \in Nat /\ last \in Nat /\ last <= Len(s)
  BY LenProperties DEF Min2
<1>2. \A i \in offset + 1 .. last : s[i] \in T
  BY <1>1, ElementOfSeq
<1>3. /\ SubSeq(s, offset + 1, last) \in Seq(T)
      /\ Len(SubSeq(s, offset + 1, last)) =
           IF offset + 1 <= last THEN last - (offset + 1) + 1 ELSE 0
      /\ \A i \in 1 .. last - (offset + 1) + 1 :
           SubSeq(s, offset + 1, last)[i] = s[offset + 1 + i - 1]
  <2> HIDE DEF last
  <2> QED
    BY <1>1, <1>2, SubSeqProperties
<1>4. Slice(s, offset, size) = SubSeq(s, offset + 1, last)
  BY DEF Slice
<1> HIDE DEF last
<1>5. Len(SubSeq(s, offset + 1, last)) = IF offset < Len(s) THEN last - offset ELSE 0
  BY <1>1, <1>3 DEF last, Min2
<1>6. \A i \in 1..Len(SubSeq(s, offset + 1, last)) :
        SubSeq(s, offset + 1, last)[i] = s[offset + i]
  BY <1>1, <1>3
<1> QED
  BY <1>3, <1>4, <1>5, <1>6 DEF last

\* What has the length and the elements of a slice is that slice.
LEMMA IsSlice ==
    ASSUME NEW T, NEW s \in Seq(T), NEW offset \in Nat, NEW size \in Nat, NEW t \in Seq(T),
           Len(t) = IF offset < Len(s) THEN Min2(offset + size, Len(s)) - offset ELSE 0,
           \A i \in 1..Len(t) : t[i] = s[offset + i]
    PROVE  t = Slice(s, offset, size)
<1>1. Slice(s, offset, size) \in Seq(T) /\ Len(Slice(s, offset, size)) = Len(t)
  BY SliceIs
<1>2. \A i \in 1..Len(t) : t[i] = Slice(s, offset, size)[i]
  BY <1>1, SliceIs
<1> QED
  BY <1>1, <1>2, SeqEqual

\* A slice and the one after it.
LEMMA SliceAfterSlice ==
    ASSUME NEW T, NEW s \in Seq(T), NEW offset \in Nat, NEW size \in Nat,
           offset <= Len(s)
    PROVE  Slice(s, 0, offset) \o Slice(s, offset, size) = Slice(s, 0, offset + size)
<1> DEFINE a == Slice(s, 0, offset)
           b == Slice(s, offset, size)
<1>1. Len(s) \in Nat
  BY LenProperties
<1>2. a \in Seq(T) /\ Len(a) = offset /\ \A i \in 1..offset : a[i] = s[i]
  <2>1. /\ a \in Seq(T) /\ Len(a) = IF 0 < Len(s) THEN Min2(0 + offset, Len(s)) - 0 ELSE 0
        /\ \A i \in 1..Len(a) : a[i] = s[0 + i]
    BY SliceIs
  <2> HIDE DEF a
  <2>2. Len(a) = offset
    BY <1>1, <2>1 DEF Min2
  <2> QED
    BY <2>1, <2>2
<1>3. /\ b \in Seq(T) /\ Len(b) = IF offset < Len(s) THEN Min2(offset + size, Len(s)) - offset ELSE 0
      /\ \A i \in 1..Len(b) : b[i] = s[offset + i]
  BY SliceIs
<1> HIDE DEF a, b
<1>4. /\ a \o b \in Seq(T) /\ Len(a \o b) = offset + Len(b)
      /\ \A i \in 1..offset + Len(b) :
           (a \o b)[i] = IF i <= offset THEN a[i] ELSE b[i - offset]
  BY <1>2, <1>3, ConcatProperties
<1>5. Len(a \o b) = IF 0 < Len(s) THEN Min2(0 + (offset + size), Len(s)) - 0 ELSE 0
  BY <1>1, <1>3, <1>4 DEF Min2
<1>6. Len(b) \in Nat
  BY <1>3, LenProperties
<1>7. \A i \in 1..Len(a \o b) : (a \o b)[i] = s[0 + i]
  <2> SUFFICES ASSUME NEW i \in 1..offset + Len(b) PROVE (a \o b)[i] = s[i]
    BY <1>4, <1>6
  <2>1. i <= offset \/ i > offset
    BY <1>6
  <2>2. CASE i <= offset
    BY <2>2, <1>2, <1>4, <1>6
  <2>3. CASE i > offset
    BY <2>3, <1>3, <1>4, <1>6
  <2> QED
    BY <2>1, <2>2, <2>3
<1>8. a \o b = Slice(s, 0, offset + size)
  <2> HIDE DEF Slice
  <2> DEFINE t == a \o b
             n == offset + size
  <2>1. t \in Seq(T) /\ n \in Nat
    BY <1>4
  <2>2. Len(t) = IF 0 < Len(s) THEN Min2(0 + n, Len(s)) - 0 ELSE 0
    BY <1>5
  <2>3. \A i \in 1..Len(t) : t[i] = s[0 + i]
    BY <1>7
  <2> HIDE DEF t, n
  <2>4. t = Slice(s, 0, n)
    BY <2>1, <2>2, <2>3, IsSlice
  <2> QED
    BY <2>4 DEF t, n
<1> QED
  BY <1>8 DEF a, b

\* A piece shorter than what was asked for is the end of the file, so what was
\* read up to it is all there is.
LEMMA ShortSliceEnds ==
    ASSUME NEW T, NEW s \in Seq(T), NEW offset \in Nat, NEW size \in Nat, NEW all \in Nat,
           offset <= Len(s), Len(Slice(s, offset, size)) < size, offset + size <= all
    PROVE  Slice(s, 0, offset) \o Slice(s, offset, size) = Slice(s, 0, all)
<1>1. Len(s) \in Nat
  BY LenProperties
<1>2. Len(s) <= offset + size
  BY <1>1, SliceIs DEF Min2
<1>3. Min2(0 + (offset + size), Len(s)) = Min2(0 + all, Len(s))
  BY <1>1, <1>2 DEF Min2
<1> QED
  BY <1>3, SliceAfterSlice DEF Slice

----------------------------------------------------------------------------
(* The bytes of a virtual file.                                            *)

\* No version that has a layout is cut off inside its header, and none is as
\* long as a u64 can tell.  The handlers take the header's end from its blocks
\* and the audio's from the size; where they cross, the sum that
\* OverlayReader::read makes of them is not the size of the virtual file.
WholeFiles ==
    /\ DOMAIN Versions = 1..Len(Versions) /\ Len(Versions) \in Nat
    /\ \A v \in DOMAIN Versions :
         Analyze(v) # NULL =>
           /\ Versions[v].start <= Versions[v].end
           /\ (Versions[v].end - Versions[v].start) + Cardinality(Fields) < Width

TagValues == {Versions[v].tags[f] : v \in DOMAIN Versions, f \in Fields}
               \cup {t[f] : t \in Edits, f \in Fields} \cup {NULL}

Tokens == ({"origin"} \X Nat \X Nat) \cup ({"info"} \X Nat \X {0})
            \cup ({"title", "date"} \X TagValues)

LayoutOK(layout) ==
    /\ {layout.start, layout.end, layout.format_data} \subseteq Nat
    /\ layout.start <= layout.end
    /\ (layout.end - layout.start) + 3 < Width

\* A row of the table.
RowOK(r) ==
    /\ r = [tags |-> r.tags, layout |-> r.layout]
    /\ \A f \in Fields : r.tags[f] \in TagValues
    /\ r.layout # NULL => LayoutOK(r.layout)

LEMMA FieldsAreThree == IsFiniteSet(Fields) /\ Cardinality(Fields) = 3
<1>1. IsFiniteSet({}) /\ Cardinality({}) = 0
  BY FS_EmptySet
<1>2. IsFiniteSet({"title"}) /\ Cardinality({"title"}) = 1
  BY FS_Singleton
<1>3. IsFiniteSet({"title"} \cup {"date"}) /\ Cardinality({"title"} \cup {"date"}) = 2
  BY <1>2, FS_AddElement
<1>4. /\ IsFiniteSet(({"title"} \cup {"date"}) \cup {"year"})
      /\ Cardinality(({"title"} \cup {"date"}) \cup {"year"}) = 3
  BY <1>3, FS_AddElement
<1>5. Fields = ({"title"} \cup {"date"}) \cup {"year"}
  BY DEF Fields
<1> QED
  BY <1>4, <1>5

\* What a scan finds is a row.
LEMMA UpsertedOK ==
    ASSUME WholeFiles, NEW v \in DOMAIN Versions
    PROVE  RowOK(Upserted(v))
<1>1. v \in Nat /\ Width \in Nat
  BY OverlayAssumption DEF WholeFiles
<1>2. {Versions[v].size, Versions[v].start, Versions[v].end} \subseteq 0 .. Width - 1
  BY OverlayAssumption
<1>3. \A f \in Fields : Versions[v].tags[f] \in TagValues
  BY DEF TagValues
<1>4. ASSUME Analyze(v) # NULL
      PROVE  LayoutOK(Analyze(v))
  <2>1. /\ Versions[v].start <= Versions[v].end
        /\ (Versions[v].end - Versions[v].start) + 3 < Width
    BY <1>4, FieldsAreThree DEF WholeFiles
  <2>2. /\ Analyze(v).start = Versions[v].start /\ Analyze(v).end = Versions[v].end
        /\ Analyze(v).format_data \in {v, 0}
    BY <1>4 DEF Analyze, AnalyzeFlac, AnalyzeMp3
  <2>3. {Versions[v].start, Versions[v].end} \subseteq Nat
    BY <1>1, <1>2
  <2> QED
    BY <1>1, <2>1, <2>2, <2>3 DEF LayoutOK
<1> QED
  BY <1>3, <1>4 DEF RowOK, Upserted

\* A header is up to three tokens.
LEMMA SynthesizeIs ==
    ASSUME NEW tags, \A f \in Fields : tags[f] \in TagValues, NEW layout, LayoutOK(layout)
    PROVE  /\ Synthesize(tags, layout) \in Seq(Tokens)
           /\ Len(Synthesize(tags, layout)) \in 1..3
           /\ Synthesize(tags, layout) =
                << <<"info", layout.format_data, 0>> >>
                  \o (Comment("title", tags["title"]) \o Comment("date", DateOf(tags)))
<1> DEFINE info == << <<"info", layout.format_data, 0>> >>
           title == Comment("title", tags["title"])
           date == Comment("date", DateOf(tags))
<1>1. layout.format_data \in Nat
  BY DEF LayoutOK
<1>2. <<"info", layout.format_data, 0>> \in Tokens
  BY <1>1 DEF Tokens
<1>3. info \in Seq(Tokens) /\ Len(info) = 1
  BY <1>2
<1>4. tags["title"] \in TagValues /\ DateOf(tags) \in TagValues
  BY DEF Fields, DateOf
<1>5. ASSUME NEW key \in {"title", "date"}, NEW value \in TagValues
      PROVE  Comment(key, value) \in Seq(Tokens) /\ Len(Comment(key, value)) \in 0..1
  <2>1. <<key, value>> \in Tokens
    BY DEF Tokens
  <2>2. << <<key, value>> >> \in Seq(Tokens) /\ Len(<< <<key, value>> >>) = 1
    BY <2>1
  <2>3. <<>> \in Seq(Tokens) /\ Len(<<>>) = 0
    OBVIOUS
  <2> QED
    BY <2>2, <2>3 DEF Comment
<1>6. /\ title \in Seq(Tokens) /\ Len(title) \in 0..1
      /\ date \in Seq(Tokens) /\ Len(date) \in 0..1
  BY <1>4, <1>5
<1>7. Synthesize(tags, layout) = info \o (title \o date)
  BY DEF Synthesize, Comments
<1> HIDE DEF info, title, date
<1>8. title \o date \in Seq(Tokens) /\ Len(title \o date) = Len(title) + Len(date)
  BY <1>6, ConcatProperties
<1>9. /\ info \o (title \o date) \in Seq(Tokens)
      /\ Len(info \o (title \o date)) = Len(info) + Len(title \o date)
  BY <1>3, <1>8, ConcatProperties
<1>10. Len(info \o (title \o date)) \in 1..3
  BY <1>3, <1>6, <1>8, <1>9
<1> QED
  BY <1>7, <1>9, <1>10 DEF info, title, date

\* The file at the origin.
LEMMA ServedIs ==
    ASSUME WholeFiles, NEW v \in DOMAIN Versions, NEW all \in Nat
    PROVE  Served(v, all) \in Seq(Tokens)
<1>1. v \in Nat /\ Min2(Versions[v].size, all) \in Nat
  BY OverlayAssumption DEF WholeFiles, Min2
<1>2. \A i \in 1..Min2(Versions[v].size, all) : <<"origin", v, i>> \in Tokens
  BY <1>1 DEF Tokens
<1> QED
  BY <1>1, <1>2 DEF Served

\* The virtual file of a row is a file of tokens.
LEMMA VirtualIs ==
    ASSUME WholeFiles, NEW r, RowOK(r), NEW v \in DOMAIN Versions, NEW all \in Nat
    PROVE  Virtual(r, v, all) \in Seq(Tokens)
<1>1. Served(v, all) \in Seq(Tokens)
  BY ServedIs
<1>2. CASE r.layout = NULL
  BY <1>1, <1>2 DEF Virtual
<1>3. CASE r.layout # NULL
  <2> DEFINE bytes == Served(v, all)
             last == Min2(r.layout.end, Len(bytes))
  <2>1. LayoutOK(r.layout) /\ \A f \in Fields : r.tags[f] \in TagValues
    BY <1>3 DEF RowOK
  <2>2. Synthesize(r.tags, r.layout) \in Seq(Tokens)
    BY <2>1, SynthesizeIs
  <2>3. Len(bytes) \in Nat /\ last \in Nat /\ last <= Len(bytes) /\ r.layout.start \in Nat
    BY <1>1, <2>1, LenProperties DEF Min2, LayoutOK
  <2>4. \A i \in r.layout.start + 1 .. last : bytes[i] \in Tokens
    BY <1>1, <2>3, ElementOfSeq
  <2>5. SubSeq(bytes, r.layout.start + 1, last) \in Seq(Tokens)
    <3> HIDE DEF bytes, last
    <3> QED
      BY <2>3, <2>4, SubSeqProperties
  <2>6. Synthesize(r.tags, r.layout) \o SubSeq(bytes, r.layout.start + 1, last) \in Seq(Tokens)
    BY <2>2, <2>5, ConcatProperties
  <2> QED
    BY <1>3, <2>6 DEF Virtual
<1> QED
  BY <1>2, <1>3

\* The bytes of a from start to end behind a header h, how many OverlayReader
\* takes them for, where a read of them ends, and what it takes of the header.
Spliced(h, a, layout) == h \o SubSeq(a, layout.start + 1, Min2(layout.end, Len(a)))
SizeOf(h, layout) == Len(h) + (layout.end - layout.start)
EndOf(h, layout, offset, size) == Min2(offset + size, SizeOf(h, layout))
FrontOf(h, layout, offset, size) ==
    SubSeq(h, offset + 1, Min2(EndOf(h, layout, offset, size), Len(h)))
FromOf(h, layout, offset) == AudioOffset(layout, Len(h), offset)
NeededOf(h, layout, offset, size) == AudioNeeded(Len(h), offset, EndOf(h, layout, offset, size))
ReadOf(h, a, layout, offset, size) ==
    FrontOf(h, layout, offset, size)
      \o Slice(a, FromOf(h, layout, offset), NeededOf(h, layout, offset, size))

\* What is served of the two is a slice of the whole, whatever of it lies
\* before the header's end.
LEMMA SpliceIsSlice ==
    ASSUME NEW h \in Seq(Tokens), NEW a \in Seq(Tokens), NEW layout, LayoutOK(layout),
           NEW offset \in Nat, NEW size \in Nat
    PROVE  /\ offset >= SizeOf(h, layout) => <<>> = Slice(Spliced(h, a, layout), offset, size)
           /\ offset < SizeOf(h, layout) /\ EndOf(h, layout, offset, size) <= Len(h) =>
                FrontOf(h, layout, offset, size) = Slice(Spliced(h, a, layout), offset, size)
           /\ offset < SizeOf(h, layout) /\ EndOf(h, layout, offset, size) > Len(h) =>
                ReadOf(h, a, layout, offset, size) = Slice(Spliced(h, a, layout), offset, size)
<1> DEFINE last == Min2(layout.end, Len(a))
           audio == SubSeq(a, layout.start + 1, last)
           whole == h \o audio
           virtual == Len(h) + (layout.end - layout.start)
           virtual_end == Min2(offset + size, virtual)
           stop == Min2(virtual_end, Len(h))
           front == SubSeq(h, offset + 1, stop)
           from == AudioOffset(layout, Len(h), offset)
           needed == AudioNeeded(Len(h), offset, virtual_end)
           back == Slice(a, from, needed)
<1>1. /\ Len(h) \in Nat /\ Len(a) \in Nat /\ layout.start \in Nat /\ layout.end \in Nat
      /\ layout.start <= layout.end
  BY LenProperties DEF LayoutOK
<1>2. last \in Nat /\ last <= Len(a) /\ last <= layout.end
  BY <1>1 DEF Min2
<1>3. \A i \in layout.start + 1 .. last : a[i] \in Tokens
  BY <1>1, <1>2, ElementOfSeq
<1>4. /\ audio \in Seq(Tokens)
      /\ Len(audio) = IF layout.start < last THEN last - layout.start ELSE 0
      /\ \A i \in 1..Len(audio) : audio[i] = a[layout.start + i]
  <2> HIDE DEF last
  <2> DEFINE first == layout.start + 1
  <2>1. first \in Int /\ last \in Int /\ \A i \in first .. last : a[i] \in Tokens
    BY <1>1, <1>2, <1>3
  <2>2. /\ SubSeq(a, first, last) \in Seq(Tokens)
        /\ Len(SubSeq(a, first, last)) = IF first <= last THEN last - first + 1 ELSE 0
        /\ \A i \in 1 .. last - first + 1 : SubSeq(a, first, last)[i] = a[first + i - 1]
    <3> HIDE DEF first
    <3> QED
      BY <2>1, SubSeqProperties
  <2>3. Len(audio) = IF layout.start < last THEN last - layout.start ELSE 0
    BY <1>1, <1>2, <2>2
  <2>4. ASSUME NEW i \in 1..Len(audio)
        PROVE  audio[i] = a[layout.start + i]
    <3>1. i \in 1 .. last - first + 1 /\ first + i - 1 = layout.start + i
      <4> HIDE DEF audio
      <4> QED
        BY <1>1, <1>2, <2>3
    <3> QED
      BY <2>2, <3>1
  <2> QED
    BY <2>2, <2>3, <2>4
<1>5. /\ stop <= Len(h) /\ stop \in Nat /\ virtual \in Nat /\ virtual_end \in Nat
      /\ \A i \in offset + 1 .. stop : h[i] \in Tokens
  BY <1>1, ElementOfSeq DEF Min2
<1>6. /\ front \in Seq(Tokens)
      /\ Len(front) = IF offset < stop THEN stop - offset ELSE 0
      /\ \A i \in 1..Len(front) : front[i] = h[offset + i]
  <2> HIDE DEF stop
  <2> DEFINE first == offset + 1
  <2>1. first \in Int /\ stop \in Int /\ \A i \in first .. stop : h[i] \in Tokens
    BY <1>5
  <2>2. /\ SubSeq(h, first, stop) \in Seq(Tokens)
        /\ Len(SubSeq(h, first, stop)) = IF first <= stop THEN stop - first + 1 ELSE 0
        /\ \A i \in 1 .. stop - first + 1 : SubSeq(h, first, stop)[i] = h[first + i - 1]
    <3> HIDE DEF first
    <3> QED
      BY <2>1, SubSeqProperties
  <2>3. Len(front) = IF offset < stop THEN stop - offset ELSE 0
    BY <1>5, <2>2
  <2>4. ASSUME NEW i \in 1..Len(front)
        PROVE  front[i] = h[offset + i]
    <3>1. i \in 1 .. stop - first + 1 /\ first + i - 1 = offset + i
      BY <1>5, <2>3
    <3> QED
      BY <2>2, <3>1
  <2> QED
    BY <2>2, <2>3, <2>4
<1> HIDE DEF audio, front
<1>7. /\ whole \in Seq(Tokens) /\ Len(whole) = Len(h) + Len(audio)
      /\ \A i \in 1 .. Len(h) + Len(audio) :
           whole[i] = IF i <= Len(h) THEN h[i] ELSE audio[i - Len(h)]
  BY <1>4, ConcatProperties
<1>8. Len(audio) \in Nat /\ Len(audio) <= layout.end - layout.start
  BY <1>1, <1>2, <1>4
<1> HIDE DEF whole, last
<1>9. ASSUME offset >= virtual
      PROVE  <<>> = Slice(whole, offset, size)
  <2>1. Len(<<>>) = IF offset < Len(whole) THEN Min2(offset + size, Len(whole)) - offset ELSE 0
    BY <1>1, <1>7, <1>8, <1>9
  <2>2. <<>> \in Seq(Tokens) /\ \A i \in 1..Len(<<>>) : <<>>[i] = whole[offset + i]
    OBVIOUS
  <2> QED
    BY <1>7, <2>1, <2>2, IsSlice
<1>10. ASSUME offset < virtual, virtual_end <= Len(h)
       PROVE  front = Slice(whole, offset, size)
  <2>1. Len(front) = IF offset < Len(whole) THEN Min2(offset + size, Len(whole)) - offset ELSE 0
    <3>1. stop = virtual_end
      BY <1>1, <1>5, <1>10 DEF Min2
    <3>2. CASE offset + size <= Len(h)
      <4>1. virtual_end = offset + size
        BY <1>1, <3>2 DEF Min2
      <4> QED
        BY <1>1, <1>6, <1>7, <1>8, <3>1, <3>2, <4>1 DEF Min2
    <3>3. CASE offset + size > Len(h)
      <4>1. virtual_end = Len(h) /\ virtual = Len(h)
        BY <1>1, <1>10, <3>3 DEF Min2
      <4>2. Len(audio) = 0
        BY <1>1, <1>8, <4>1
      <4> QED
        BY <1>1, <1>6, <1>7, <1>10, <3>1, <3>3, <4>1, <4>2 DEF Min2
    <3> QED
      BY <1>1, <3>2, <3>3
  <2>2. \A i \in 1..Len(front) : front[i] = whole[offset + i]
    <3> SUFFICES ASSUME NEW i \in 1..Len(front)
                 PROVE  front[i] = whole[offset + i]
      OBVIOUS
    <3>1. offset + i \in 1..Len(h)
      BY <1>1, <1>5, <1>6
    <3>2. whole[offset + i] = h[offset + i]
      BY <1>1, <1>7, <1>8, <3>1
    <3> QED
      BY <1>6, <3>2
  <2> QED
    BY <1>6, <1>7, <2>1, <2>2, IsSlice
<1>11. ASSUME offset < virtual, virtual_end > Len(h)
       PROVE  front \o back = Slice(whole, offset, size)
  <2>1. from \in Nat /\ needed \in Nat
    BY <1>1, <1>5, <1>11 DEF AudioOffset, AudioNeeded, Max2, Min2
  <2>2. /\ back \in Seq(Tokens)
        /\ Len(back) = IF from < Len(a) THEN Min2(from + needed, Len(a)) - from ELSE 0
        /\ \A i \in 1..Len(back) : back[i] = a[from + i]
    <3> HIDE DEF from, needed
    <3> QED
      BY <2>1, SliceIs
  <2> HIDE DEF back
  <2>3. stop = Len(h)
    BY <1>1, <1>5, <1>11 DEF Min2
  <2>4. Len(front) = Max2(Len(h), offset) - offset /\ from = layout.start + offset + Len(front) - Len(h)
    <3>1. Len(front) = Max2(Len(h), offset) - offset
      BY <1>1, <1>6, <2>3 DEF Max2
    <3>2. from = layout.start + (Max2(Len(h), offset) - Len(h))
      BY DEF AudioOffset
    <3>3. Max2(Len(h), offset) \in Nat
      BY <1>1 DEF Max2
    <3> HIDE DEF from
    <3> QED
      BY <1>1, <3>1, <3>2, <3>3
  <2>5. /\ front \o back \in Seq(Tokens) /\ Len(front \o back) = Len(front) + Len(back)
        /\ \A i \in 1 .. Len(front) + Len(back) :
             (front \o back)[i] = IF i <= Len(front) THEN front[i] ELSE back[i - Len(front)]
    BY <1>6, <2>2, ConcatProperties
  <2>6. from + needed = layout.start + virtual_end - Len(h)
    BY <1>1, <1>5 DEF AudioOffset, AudioNeeded, Max2
  <2>7. Len(front) \in Nat /\ Len(back) \in Nat
    BY <1>6, <2>2, LenProperties
  <2>8. Len(front) + Len(back)
          = IF offset < Len(whole) THEN Min2(offset + size, Len(whole)) - offset ELSE 0
    <3> DEFINE m == Max2(Len(h), offset)
               ve == virtual_end
    <3>1. /\ m \in Nat /\ m >= Len(h) /\ m >= offset /\ (m = offset \/ m = Len(h))
          /\ Len(front) = m - offset
      BY <1>1, <2>4 DEF Max2
    <3>2. ve \in Nat /\ ve <= offset + size /\ ve <= virtual /\ (ve = offset + size \/ ve = virtual)
      BY <1>1, <1>5 DEF Min2
    <3>3. ve > Len(h) /\ offset < virtual
      BY <1>11
    <3> HIDE DEF from, needed, m, ve
    <3>4. Len(back) = IF from < Len(a) THEN Min2(layout.start + ve - Len(h), Len(a)) - from ELSE 0
      BY <2>2, <2>6 DEF ve
    <3>5. from = layout.start + m - Len(h)
      BY <1>1, <2>1, <2>4, <3>1
    <3>6. CASE Len(a) <= layout.start
      <4>1. Len(audio) = 0 /\ Len(back) = 0
        BY <1>1, <1>2, <1>4, <3>1, <3>4, <3>5, <3>6
      <4> QED
        BY <1>1, <1>7, <3>1, <3>2, <3>3, <4>1 DEF Min2
    <3>7. CASE Len(a) > layout.start
      <4>1. Len(audio) = Min2(layout.end, Len(a)) - layout.start
        BY <1>1, <1>2, <1>4, <3>7 DEF last, Min2
      <4>2. Len(whole) = Len(h) + Min2(layout.end, Len(a)) - layout.start
        BY <1>1, <1>7, <4>1 DEF Min2
      <4>3. ve = Min2(offset + size, Len(h) + (layout.end - layout.start)) /\ m = Max2(Len(h), offset)
        BY DEF ve, m
      <4>4. Len(front) + Len(back)
              = m - offset + IF layout.start + m - Len(h) < Len(a)
                             THEN Min2(layout.start + ve - Len(h), Len(a)) - (layout.start + m - Len(h))
                             ELSE 0
        BY <3>1, <3>4, <3>5
      <4> DEFINE start == layout.start
                 end == layout.end
                 lh == Len(h)
                 la == Len(a)
      <4>5. /\ lh \in Nat /\ la \in Nat /\ start \in Nat /\ end \in Nat /\ start <= end /\ start < la
            /\ m = Max2(lh, offset) /\ ve = Min2(offset + size, lh + (end - start))
            /\ ve > lh /\ offset < lh + (end - start)
        BY <1>1, <3>3, <3>7, <4>3
      <4> HIDE DEF start, end, lh, la
      <4>6. LET lw == lh + Min2(end, la) - start
            IN  m - offset + (IF start + m - lh < la
                              THEN Min2(start + ve - lh, la) - (start + m - lh) ELSE 0)
                  = IF offset < lw THEN Min2(offset + size, lw) - offset ELSE 0
        <5>1. CASE offset <= lh
          <6>1. m = lh /\ start + m - lh = start
            BY <4>5, <5>1 DEF Max2
          <6> QED
            BY <4>5, <5>1, <6>1 DEF Min2
        <5>2. CASE offset > lh
          <6>1. m = offset
            BY <4>5, <5>2 DEF Max2
          <6> QED
            BY <4>5, <5>2, <6>1 DEF Min2
        <5> QED
          BY <4>5, <5>1, <5>2
      <4> QED
        BY <4>2, <4>4, <4>6 DEF start, end, lh, la
    <3> QED
      BY <1>1, <3>6, <3>7
  <2>9. \A i \in 1..Len(front \o back) : (front \o back)[i] = whole[offset + i]
    <3> SUFFICES ASSUME NEW i \in 1..Len(front) + Len(back)
                 PROVE  (front \o back)[i] = whole[offset + i]
      BY <2>5
    <3>1. i \in Nat /\ (i <= Len(front) \/ i > Len(front))
      BY <2>7
    <3>2. CASE i <= Len(front)
      <4>1. offset + i \in 1..Len(h)
        BY <1>1, <1>6, <2>3, <3>1, <3>2
      <4>2. whole[offset + i] = h[offset + i]
        BY <1>1, <1>7, <1>8, <4>1
      <4> QED
        BY <1>6, <2>5, <2>7, <3>1, <3>2, <4>2
    <3>3. CASE i > Len(front)
      <4>1. i - Len(front) \in 1..Len(back)
        BY <2>7, <3>3
      <4>2. (front \o back)[i] = a[from + (i - Len(front))]
        BY <2>2, <2>5, <2>7, <3>1, <3>3, <4>1
      <4>3. offset + i \in Len(h) + 1 .. Len(whole)
        <5>1. Len(h) - offset <= Len(front)
          BY <1>1, <2>4, <2>7 DEF Max2
        <5>2. offset < Len(whole) /\ Len(front) + Len(back) <= Len(whole) - offset
          BY <1>1, <1>7, <1>8, <2>7, <2>8, <3>3 DEF Min2
        <5> QED
          BY <1>1, <1>7, <1>8, <2>7, <3>3, <5>1, <5>2
      <4>4. whole[offset + i] = audio[offset + i - Len(h)]
        BY <1>1, <1>7, <1>8, <4>3
      <4>5. offset + i - Len(h) \in 1..Len(audio)
        BY <1>1, <1>7, <1>8, <4>3
      <4>6. audio[offset + i - Len(h)] = a[layout.start + (offset + i - Len(h))]
        BY <1>4, <4>5
      <4>7. layout.start + (offset + i - Len(h)) = from + (i - Len(front))
        BY <1>1, <2>4, <2>7, <3>1
      <4> QED
        BY <4>2, <4>4, <4>6, <4>7
    <3> QED
      BY <3>1, <3>2, <3>3
  <2> QED
    <3> DEFINE t == front \o back
    <3>1. /\ t \in Seq(Tokens)
          /\ Len(t) = IF offset < Len(whole) THEN Min2(offset + size, Len(whole)) - offset ELSE 0
          /\ \A i \in 1..Len(t) : t[i] = whole[offset + i]
      BY <2>5, <2>8, <2>9
    <3> HIDE DEF t
    <3>2. t = Slice(whole, offset, size)
      BY <1>7, <3>1, IsSlice
    <3> QED
      BY <3>2 DEF t
<1> QED
  BY <1>9, <1>10, <1>11
  DEF audio, front, whole, last, Spliced, SizeOf, EndOf, FrontOf, FromOf, NeededOf, ReadOf

\* What is set in a row is in its header, but for a year where there is a date.
LEMMA HeaderShows ==
    ASSUME NEW tags, \A f \in Fields : tags[f] \in TagValues, NEW layout, LayoutOK(layout),
           NEW f \in Fields, tags[f] # NULL, f = "year" => tags["date"] = NULL
    PROVE  \E i \in 1..Len(Synthesize(tags, layout)) :
             Synthesize(tags, layout)[i] = <<IF f = "year" THEN "date" ELSE f, tags[f]>>
<1> DEFINE info == << <<"info", layout.format_data, 0>> >>
           title == Comment("title", tags["title"])
           date == Comment("date", DateOf(tags))
           comments == title \o date
           header == info \o comments
<1>1. tags["title"] \in TagValues /\ DateOf(tags) \in TagValues /\ layout.format_data \in Nat
  BY DEF Fields, DateOf, LayoutOK
<1>2. \A value \in TagValues : <<"title", value>> \in Tokens /\ <<"date", value>> \in Tokens
  BY DEF Tokens
<1>3. /\ title \in Seq(Tokens) /\ date \in Seq(Tokens) /\ Len(title) \in Nat /\ Len(date) \in Nat
      /\ tags["title"] # NULL => Len(title) = 1 /\ title[1] = <<"title", tags["title"]>>
      /\ DateOf(tags) # NULL => Len(date) = 1 /\ date[1] = <<"date", DateOf(tags)>>
  <2>1. ASSUME NEW key \in {"title", "date"}, NEW value \in TagValues
        PROVE  /\ Comment(key, value) \in Seq(Tokens) /\ Len(Comment(key, value)) \in Nat
               /\ value # NULL => /\ Len(Comment(key, value)) = 1
                                  /\ Comment(key, value)[1] = <<key, value>>
    <3>1. <<key, value>> \in Tokens
      BY DEF Tokens
    <3>2. << <<key, value>> >> \in Seq(Tokens) /\ Len(<< <<key, value>> >>) = 1
      BY <3>1
    <3>3. <<>> \in Seq(Tokens) /\ Len(<<>>) = 0
      OBVIOUS
    <3> QED
      BY <3>2, <3>3 DEF Comment
  <2> QED
    BY <1>1, <2>1
<1>4. info \in Seq(Tokens) /\ Len(info) = 1
  <2>1. <<"info", layout.format_data, 0>> \in Tokens
    BY <1>1 DEF Tokens
  <2> QED
    BY <2>1
<1> HIDE DEF info, title, date
<1>5. /\ comments \in Seq(Tokens) /\ Len(comments) = Len(title) + Len(date)
      /\ \A i \in 1 .. Len(title) + Len(date) :
           comments[i] = IF i <= Len(title) THEN title[i] ELSE date[i - Len(title)]
  BY <1>3, ConcatProperties
<1> HIDE DEF comments
<1>6. /\ Len(header) = 1 + Len(comments)
      /\ \A i \in 1 .. 1 + Len(comments) :
           header[i] = IF i <= 1 THEN info[i] ELSE comments[i - 1]
  <2>1. /\ Len(header) = Len(info) + Len(comments)
        /\ \A i \in 1 .. Len(info) + Len(comments) :
             header[i] = IF i <= Len(info) THEN info[i] ELSE comments[i - Len(info)]
    <3>1. info \in Seq(Tokens) /\ comments \in Seq(Tokens)
      BY <1>4, <1>5
    <3> QED
      BY <3>1, ConcatProperties
  <2> HIDE DEF header
  <2> QED
    BY <1>4, <2>1
<1>7. header = Synthesize(tags, layout)
  BY DEF Synthesize, Comments, info, title, date, comments
<1> HIDE DEF header
<1>8. CASE f = "title"
  <2>1. comments[1] = <<"title", tags["title"]>> /\ Len(comments) >= 1
    <3>1. Len(title) = 1 /\ title[1] = <<"title", tags["title"]>>
      BY <1>3, <1>8
    <3>2. 1 \in 1 .. Len(title) + Len(date) /\ 1 <= Len(title)
      BY <1>3, <3>1
    <3> QED
      BY <1>3, <1>5, <3>1, <3>2
  <2>2. 2 \in 1..Len(header) /\ header[2] = comments[1]
    BY <1>3, <1>5, <1>6, <2>1
  <2> QED
    BY <1>7, <1>8, <2>1, <2>2
<1>9. CASE f # "title"
  <2>1. DateOf(tags) = tags[f] /\ f \in {"date", "year"}
    BY <1>9 DEF DateOf, Fields
  <2> DEFINE k == Len(title) + 1
  <2>2. comments[k] = <<"date", tags[f]>> /\ k \in 1..Len(comments)
    <3>1. Len(date) = 1 /\ date[1] = <<"date", tags[f]>>
      BY <1>3, <2>1
    <3>2. k \in 1 .. Len(title) + Len(date) /\ ~(k <= Len(title)) /\ k - Len(title) = 1
      BY <1>3, <3>1
    <3> QED
      BY <1>5, <3>1, <3>2
  <2>3. k + 1 \in 1..Len(header) /\ header[k + 1] = comments[k]
    BY <1>3, <1>5, <1>6, <2>2
  <2> QED
    BY <1>7, <2>1, <2>2, <2>3
<1> QED
  BY <1>8, <1>9

----------------------------------------------------------------------------
(* The invariant.                                                          *)

CallFields == {"pc", "offset", "size", "layout", "front", "from", "n", "seen", "edits", "forgotten"}
AppFields == {"pc", "size", "offset", "got", "steady"}

OverlayTypes ==
    /\ mode \in {"up", "down"} /\ origin \in DOMAIN Versions
    /\ manifest \in {0} \cup DOMAIN Versions /\ tree_size \in Nat /\ RowOK(row)
    /\ mode = "down" => call = NoCall /\ app = NoApp
    /\ app # NoApp =>
         /\ DOMAIN app = AppFields /\ app.pc \in {"open", "read", "failed"}
         /\ app.size \in Nat /\ app.offset \in Nat /\ app.got \in Seq(Tokens)
         /\ app.steady \in BOOLEAN
    /\ call # NoCall =>
         /\ DOMAIN call = CallFields /\ call.pc \in {"layout", "row", "cas"}
         /\ call.offset \in Nat /\ call.size \in Nat
         /\ IsFiniteSet(call.seen) /\ \A r \in call.seen : RowOK(r)

\* The version that FileReader holds or may come to hold.
Reachable == IF manifest = 0 THEN DOMAIN Versions ELSE {manifest}

\* What a read is about to answer with is a slice of the virtual file of a row
\* that held during the read, whichever version FileReader will read from.
SlicesOf(r) ==
    \A v \in DOMAIN Versions :
      call.front \o Slice(Served(v, tree_size), call.from, call.n)
        = Slice(Virtual(r, v, tree_size), call.offset, call.size)

\* A read goes on where the application is, has seen the row and a row of its
\* layout, and in a steady application nothing but the row.
CallGoesOn ==
    call # NoCall =>
      /\ app # NoApp /\ app.pc = "open"
      /\ call.offset = app.offset /\ call.offset + call.size <= app.size
      /\ row \in call.seen
      /\ app.steady => call.seen = {row}
      /\ call.pc = "row" =>
           /\ call.layout # NULL /\ LayoutOK(call.layout)
           /\ \E r \in call.seen : r.layout = call.layout
      /\ call.pc = "cas" =>
           /\ call.front \in Seq(Tokens) /\ call.from \in Nat /\ call.n \in Nat
           /\ \E r \in Rows(call.seen) : SlicesOf(r)

\* What a steady application has got is what the virtual file begins with,
\* whichever version that will be.
GotIsWhole ==
    app # NoApp /\ app.steady =>
      \A v \in Reachable :
        /\ app.pc = "open" => /\ app.got = Slice(Virtual(row, v, tree_size), 0, app.offset)
                              /\ app.offset <= Len(Virtual(row, v, tree_size))
        /\ app.pc = "read" => app.got = Slice(Virtual(row, v, tree_size), 0, app.size)

WholeInv == OverlayTypes /\ CallGoesOn /\ GotIsWhole /\ ReadsAreWhole

\* The row has what users have set.
Carries(set, tags) == \A f \in Fields : set[f] # NULL => tags[f] = set[f]

\* The row, and the row each read began with, has the edits of its time.
EditsKept ==
    /\ ~forgotten => Carries(edits, row.tags)
    /\ call # NoCall => \E r \in call.seen : ~call.forgotten => Carries(call.edits, r.tags)

----------------------------------------------------------------------------
(* The steps of a read.                                                    *)

\* The rows of a read: those it has seen, and nothing but the row where it has
\* seen no other.
LEMMA RowsAre ==
    ASSUME NEW seen, \A r \in seen : RowOK(r)
    PROVE  /\ seen \subseteq Rows(seen) /\ \A r \in Rows(seen) : RowOK(r)
           /\ \A r, l \in seen : Mixed(r, l) \in Rows(seen)
           /\ \A more : seen \subseteq more => Rows(seen) \subseteq Rows(more)
           /\ \A r : seen = {r} => Rows(seen) = {r}
<1>1. \A r \in seen : r = Mixed(r, r)
  BY DEF RowOK, Mixed
<1>2. \A r, l \in seen : RowOK(Mixed(r, l))
  BY DEF RowOK, Mixed
<1>3. \A r, l \in seen : Mixed(r, l) \in Rows(seen)
  BY DEF Rows
<1>4. seen \subseteq Rows(seen)
  BY <1>1, <1>3
<1>5. \A r \in Rows(seen) : RowOK(r)
  BY <1>2 DEF Rows
<1>6. \A more : seen \subseteq more => Rows(seen) \subseteq Rows(more)
  BY DEF Rows
<1>7. ASSUME NEW r, seen = {r}
      PROVE  Rows(seen) = {r}
  <2>1. \A x \in Rows(seen) : x = r
    BY <1>1, <1>7 DEF Rows
  <2> QED
    BY <1>4, <1>7, <2>1
<1> QED
  BY <1>3, <1>4, <1>5, <1>6, <1>7

\* What one version is served, all versions that may be are.
LEMMA HeldIsReachable ==
    ASSUME OverlayTypes
    PROVE  Held \in DOMAIN Versions /\ Held \in Reachable /\ Reachable \subseteq DOMAIN Versions
BY DEF OverlayTypes, Held, Reachable

\* A read answers with a slice of the virtual file of a row of its time; where
\* FileReader holds what it held or what it has read from, of whichever version
\* it will hold.
LEMMA AnswerKeepsWhole ==
    ASSUME WholeFiles, WholeInv, call # NoCall, NEW bytes, Answer(bytes),
           NEW r \in Rows(call.seen), manifest' \in {0} \cup DOMAIN Versions,
           bytes = Slice(Virtual(r, Held, tree_size), call.offset, call.size),
           manifest' \in {manifest, Held} =>
             \A v \in Reachable' :
               bytes = Slice(Virtual(r, v, tree_size), call.offset, call.size),
           UNCHANGED <<mode, origin, tree_size, row, history>>
    PROVE  WholeInv'
<1> DEFINE steady == app.steady /\ manifest' \in {manifest, Held}
<1>0. \A x \in call.seen : RowOK(x)
  BY DEF WholeInv, OverlayTypes
<1>1. /\ RowOK(r) /\ app # NoApp /\ app.pc = "open" /\ tree_size \in Nat
      /\ call.offset = app.offset /\ call.offset + call.size <= app.size
      /\ app.steady => r = row
  <2>1. RowOK(r) /\ \A x : call.seen = {x} => r = x
    <3> DEFINE seen == call.seen
    <3>1. (\A x \in seen : RowOK(x)) /\ r \in Rows(seen)
      BY <1>0
    <3> HIDE DEF seen
    <3>2. RowOK(r) /\ \A x : seen = {x} => r = x
      BY <3>1, RowsAre
    <3> QED
      BY <3>2 DEF seen
  <2> QED
    BY <2>1 DEF WholeInv, CallGoesOn, OverlayTypes
<1>2. Held \in DOMAIN Versions /\ Held \in Reachable /\ Reachable \subseteq DOMAIN Versions
  BY HeldIsReachable DEF WholeInv
<1>3. steady => Reachable' \subseteq Reachable
  BY <1>2 DEF Reachable, Held, WholeInv, OverlayTypes
<1>4. Virtual(r, Held, tree_size) \in Seq(Tokens) /\ call.offset \in Nat /\ call.size \in Nat
  BY <1>1, <1>2, VirtualIs DEF WholeInv, OverlayTypes
<1>5. bytes \in Seq(Tokens)
  BY <1>4, SliceIs
<1>6. /\ DOMAIN app = AppFields /\ app.size \in Nat /\ app.offset \in Nat
      /\ app.got \in Seq(Tokens) /\ app.steady \in BOOLEAN
  BY <1>1 DEF WholeInv, OverlayTypes
<1>7. Len(bytes) \in Nat
  BY <1>5, LenProperties
<1>8. /\ DOMAIN app' = AppFields /\ app'.size = app.size /\ app'.steady = steady
      /\ app'.offset = app.offset + Len(bytes)
      /\ app'.got = IF steady THEN app.got \o bytes ELSE <<>>
      /\ app'.pc = IF Len(bytes) < call.size \/ app.offset + Len(bytes) = app.size
                   THEN "read" ELSE "open"
  BY <1>6 DEF Answer, AppFields
<1>9. app'.got \in Seq(Tokens)
  <2>1. <<>> \in Seq(Tokens)
    OBVIOUS
  <2> QED
    BY <1>5, <1>6, <1>8, <2>1, ConcatProperties
<1>10. OverlayTypes'
  <2>1. mode # "down"
    BY <1>1 DEF WholeInv, OverlayTypes
  <2>2. manifest' \in {0} \cup DOMAIN Versions
    BY <1>2 DEF WholeInv, OverlayTypes
  <2>3. call' = NoCall
    BY DEF Answer
  <2> QED
    BY <1>6, <1>7, <1>8, <1>9, <2>1, <2>2, <2>3 DEF WholeInv, OverlayTypes, RowOK, LayoutOK
<1>11. CallGoesOn'
  BY DEF CallGoesOn, Answer
<1>12. GotIsWhole'
  <2> SUFFICES ASSUME steady, NEW v \in Reachable'
               PROVE  /\ app'.pc = "open" => /\ app'.got = Slice(Virtual(row, v, tree_size), 0, app'.offset)
                                             /\ app'.offset <= Len(Virtual(row, v, tree_size))
                      /\ app'.pc = "read" => app'.got = Slice(Virtual(row, v, tree_size), 0, app'.size)
    BY <1>8 DEF GotIsWhole, Virtual, Served
  <2> DEFINE file == Virtual(row, v, tree_size)
  <2>1. r = row /\ v \in Reachable /\ v \in DOMAIN Versions
    BY <1>1, <1>2, <1>3
  <2>2. file \in Seq(Tokens) /\ Len(file) \in Nat
    BY <1>1, <2>1, VirtualIs, LenProperties
  <2>3. bytes = Slice(file, app.offset, call.size)
    BY <1>1, <2>1
  <2>4. app.got = Slice(file, 0, app.offset) /\ app.offset <= Len(file)
    BY <1>1, <2>1 DEF WholeInv, GotIsWhole
  <2>5. app'.got = Slice(file, 0, app.offset) \o Slice(file, app.offset, call.size)
    BY <1>8, <2>3, <2>4
  <2> HIDE DEF file
  <2>6. Len(bytes) = IF app.offset < Len(file)
                     THEN Min2(app.offset + call.size, Len(file)) - app.offset ELSE 0
    BY <1>4, <1>6, <2>2, <2>3, SliceIs
  <2>7. CASE Len(bytes) < call.size
    <3> DEFINE offset == app.offset
               size == call.size
               all == app.size
    <3>1. /\ offset \in Nat /\ size \in Nat /\ all \in Nat /\ offset <= Len(file)
          /\ Len(Slice(file, offset, size)) < size /\ offset + size <= all
      BY <1>1, <1>4, <1>6, <2>3, <2>4, <2>7
    <3> HIDE DEF offset, size, all
    <3>2. Slice(file, 0, offset) \o Slice(file, offset, size) = Slice(file, 0, all)
      BY <2>2, <3>1, ShortSliceEnds
    <3>3. app'.got = Slice(file, 0, app.size)
      BY <2>5, <3>2 DEF offset, size, all
    <3> QED
      BY <1>8, <2>7, <3>3 DEF file
  <2>8. CASE ~(Len(bytes) < call.size)
    <3>1. Len(bytes) = call.size /\ app.offset + call.size <= Len(file)
      BY <1>4, <1>6, <1>7, <2>2, <2>4, <2>6, <2>8 DEF Min2
    <3>2. app'.got = Slice(file, 0, app.offset + call.size)
      <4> DEFINE offset == app.offset
                 size == call.size
      <4>1. offset \in Nat /\ size \in Nat /\ offset <= Len(file)
        BY <1>4, <1>6, <2>4
      <4> HIDE DEF offset, size
      <4>2. Slice(file, 0, offset) \o Slice(file, offset, size) = Slice(file, 0, offset + size)
        BY <2>2, <4>1, SliceAfterSlice
      <4> QED
        BY <2>5, <4>2 DEF offset, size
    <3>3. /\ app'.offset = app.offset + call.size /\ app'.pc \in {"open", "read"}
          /\ app'.pc = "read" => app.offset + call.size = app.size
      BY <1>8, <3>1
    <3>4. app'.got = Slice(file, 0, app'.offset) /\ app'.offset <= Len(file)
      <4>1. app'.got = Slice(file, 0, app'.offset)
        BY <3>2, <3>3, Zenon
      <4> QED
        BY <3>1, <3>3, <4>1
    <3>5. app'.pc = "read" => app'.got = Slice(file, 0, app'.size)
      <4>1. app'.pc = "read" => app'.offset = app'.size
        BY <1>8, <3>3
      <4> QED
        BY <3>4, <4>1, Zenon
    <3> QED
      BY <3>4, <3>5 DEF file
  <2> QED
    BY <2>7, <2>8 DEF file
<1>13. ReadsAreWhole'
  BY DEF Answer, ReadsAreWhole, Virtual, Served
<1> QED
  BY <1>10, <1>11, <1>12, <1>13 DEF WholeInv

\* A call that neither moves nor answers, with the row and what FileReader may
\* come to hold no more than before.
LEMMA OthersKeepWhole ==
    ASSUME WholeFiles, WholeInv, OverlayTypes', UNCHANGED <<call, app, row, tree_size>>,
           Reachable' \subseteq Reachable, NoneGiven
    PROVE  WholeInv'
<1>1. CallGoesOn'
  BY DEF WholeInv, CallGoesOn, SlicesOf, Virtual, Served
<1>2. GotIsWhole'
  BY DEF WholeInv, GotIsWhole, Virtual, Served
<1>3. ReadsAreWhole'
  BY DEF NoneGiven, NoAnswer, ReadsAreWhole
<1> QED
  BY <1>1, <1>2, <1>3 DEF WholeInv

\* Mount, Unmount and a change at the origin.
LEMMA MountsKeepWhole ==
    ASSUME WholeFiles, WholeInv, Mount \/ Unmount \/ OriginChanges
    PROVE  WholeInv'
<1>1. CASE Mount
  <2>1. call' = NoCall /\ app' = NoApp /\ NoneGiven
    BY <1>1 DEF Mount, WholeInv, OverlayTypes
  <2>2. OverlayTypes'
    <3>1. origin \in DOMAIN Versions /\ RowOK(Upserted(origin)) /\ Versions[origin].size \in Nat
      BY UpsertedOK, OverlayAssumption DEF WholeInv, OverlayTypes
    <3> QED
      BY <1>1, <2>1, <3>1 DEF Mount, WholeInv, OverlayTypes, RowOK, LayoutOK
  <2> QED
    BY <2>1, <2>2 DEF WholeInv, CallGoesOn, GotIsWhole, NoneGiven, NoAnswer, ReadsAreWhole
<1>2. CASE Unmount
  BY <1>2 DEF Unmount, NoneGiven, NoAnswer, WholeInv, OverlayTypes, RowOK, LayoutOK,
              CallGoesOn, GotIsWhole, ReadsAreWhole
<1>3. CASE OriginChanges
  <2>1. origin + 1 \in DOMAIN Versions
    BY <1>3 DEF OriginChanges, WholeInv, OverlayTypes, WholeFiles
  <2>2. OverlayTypes'
    BY <1>3, <2>1 DEF OriginChanges, WholeInv, OverlayTypes, RowOK, LayoutOK
  <2>3. Reachable' \subseteq Reachable
    BY <1>3 DEF OriginChanges, Reachable
  <2> QED
    BY <1>3, <2>2, <2>3, OthersKeepWhole DEF OriginChanges
<1> QED
  BY <1>1, <1>2, <1>3

\* An edit or a clear: reads and applications know that there was one.
LEMMA ChangedKeepsWhole ==
    ASSUME WholeFiles, WholeInv, NEW new, RowOK(new), mode = "up", Changed(new)
    PROVE  WholeInv'
<1>1. app' = IF app # NoApp THEN [app EXCEPT !.steady = FALSE, !.got = <<>>] ELSE app
  BY DEF Changed
<1>2. app # NoApp =>
        /\ DOMAIN app' = AppFields /\ app'.pc = app.pc /\ app'.size = app.size
        /\ app'.offset = app.offset /\ app'.steady = FALSE /\ app'.got \in Seq(Tokens)
  <2>1. <<>> \in Seq(Tokens)
    OBVIOUS
  <2> QED
    BY <1>1, <2>1 DEF WholeInv, OverlayTypes, AppFields
<1>3. CASE call = NoCall
  <2>1. call' = NoCall
    BY <1>3 DEF Changed
  <2>2. OverlayTypes'
    <3>1. app = NoApp => app' = NoApp
      BY <1>1
    <3>2. mode = "up" /\ UNCHANGED <<mode, origin, manifest, tree_size>> /\ RowOK(row')
      BY DEF Changed
    <3>3. app # NoApp => app.pc \in {"open", "read", "failed"} /\ app.size \in Nat /\ app.offset \in Nat
      BY DEF WholeInv, OverlayTypes
    <3> QED
      BY <1>2, <2>1, <3>1, <3>2, <3>3 DEF WholeInv, OverlayTypes, RowOK, LayoutOK
  <2> QED
    BY <1>1, <1>2, <2>1, <2>2
    DEF WholeInv, CallGoesOn, GotIsWhole, Changed, NoneGiven, NoAnswer, ReadsAreWhole
<1>4. CASE call # NoCall
  <2> DEFINE seen == call.seen \cup {new}
  <2>1. /\ DOMAIN call = CallFields /\ app # NoApp
        /\ IsFiniteSet(call.seen) /\ \A r \in call.seen : RowOK(r)
    BY <1>4 DEF WholeInv, OverlayTypes, CallGoesOn
  <2>2. call' = [call EXCEPT !.seen = seen]
    BY <1>4 DEF Changed
  <2>3. IsFiniteSet(seen)
    BY <2>1, FS_AddElement
  <2>4. \A r \in seen : RowOK(r)
    BY <2>1
  <2>5. new \in seen /\ call.seen \subseteq seen /\ Rows(call.seen) \subseteq Rows(seen)
    BY <2>1, RowsAre
  <2> HIDE DEF seen
  <2>6. /\ DOMAIN call' = CallFields /\ call'.seen = seen
        /\ call'.pc = call.pc /\ call'.offset = call.offset /\ call'.size = call.size
        /\ call'.layout = call.layout /\ call'.front = call.front /\ call'.from = call.from
        /\ call'.n = call.n
    BY <2>1, <2>2 DEF CallFields
  <2>7. row' = new /\ UNCHANGED <<mode, origin, manifest, tree_size>> /\ answer' = NoAnswer
    BY DEF Changed, NoneGiven
  <2>8. OverlayTypes'
    <3>1. app' # NoApp
      BY <1>2, <2>1 DEF NoApp, AppFields
    <3>2. /\ DOMAIN app' = AppFields /\ app'.pc \in {"open", "read", "failed"}
          /\ app'.size \in Nat /\ app'.offset \in Nat /\ app'.got \in Seq(Tokens)
          /\ app'.steady \in BOOLEAN
      BY <1>2, <2>1 DEF WholeInv, OverlayTypes
    <3>3. /\ call'.pc \in {"layout", "row", "cas"} /\ call'.offset \in Nat /\ call'.size \in Nat
          /\ IsFiniteSet(call'.seen) /\ \A r \in call'.seen : RowOK(r)
      BY <1>4, <2>3, <2>4, <2>6 DEF WholeInv, OverlayTypes
    <3> QED
      BY <2>6, <2>7, <3>2, <3>3 DEF WholeInv, OverlayTypes, RowOK, LayoutOK
  <2>9. CallGoesOn'
    <3>1. app' # NoApp /\ app'.pc = "open" /\ call'.offset = app'.offset /\ ~app'.steady
          /\ call'.offset + call'.size <= app'.size
      BY <1>2, <1>4, <2>1, <2>6 DEF WholeInv, CallGoesOn, NoApp, AppFields
    <3>2. ASSUME call.pc = "row"
          PROVE  /\ call.layout # NULL /\ LayoutOK(call.layout)
                 /\ \E r \in seen : r.layout = call.layout
      BY <1>4, <2>5, <3>2 DEF WholeInv, CallGoesOn
    <3>3. ASSUME call.pc = "cas"
          PROVE  /\ call.front \in Seq(Tokens) /\ call.from \in Nat /\ call.n \in Nat
                 /\ \E r \in Rows(seen) : SlicesOf(r)'
      <4>1. \A r : SlicesOf(r) => SlicesOf(r)'
        BY <2>6, <2>7 DEF SlicesOf, Virtual, Served
      <4> QED
        BY <1>4, <2>5, <3>3, <4>1 DEF WholeInv, CallGoesOn
    <3> QED
      BY <2>5, <2>6, <2>7, <3>1, <3>2, <3>3 DEF CallGoesOn, LayoutOK
  <2>10. GotIsWhole'
    BY <1>2, <2>1 DEF GotIsWhole
  <2> QED
    BY <2>7, <2>8, <2>9, <2>10 DEF WholeInv, NoAnswer, ReadsAreWhole
<1> QED
  BY <1>3, <1>4

\* An update merges what is given into the row, a clear leaves nothing.
LEMMA EditsAreRows ==
    ASSUME WholeInv
    PROVE  /\ \A t \in Edits : RowOK([row EXCEPT !.tags = Merged(@, t)])
           /\ RowOK([tags |-> NoTags, layout |-> NULL])
<1>1. RowOK(row)
  BY DEF WholeInv, OverlayTypes
<1>2. NULL \in TagValues /\ \A t \in Edits : \A f \in Fields : t[f] \in TagValues
  BY DEF TagValues
<1>3. ASSUME NEW t \in Edits
      PROVE  RowOK([row EXCEPT !.tags = Merged(@, t)])
  <2> DEFINE tags == Merged(row.tags, t)
  <2>1. \A f \in Fields : tags[f] \in TagValues
    BY <1>1, <1>2 DEF Merged, RowOK
  <2>2. [row EXCEPT !.tags = Merged(@, t)] = [tags |-> tags, layout |-> row.layout]
    BY <1>1 DEF RowOK
  <2> HIDE DEF tags
  <2> QED
    BY <1>1, <2>1, <2>2 DEF RowOK
<1>4. RowOK([tags |-> NoTags, layout |-> NULL])
  BY <1>2 DEF RowOK, NoTags
<1> QED
  BY <1>3, <1>4

\* The application opens and closes the file, and begins to read a piece.
LEMMA ApplicationKeepsWhole ==
    ASSUME WholeFiles, WholeInv,
           Lookup \/ Getattr \/ Close \/ \E n \in Pieces : Read(n)
    PROVE  WholeInv'
<1>1. ASSUME NEW size \in Nat, Open(size)
      PROVE  WholeInv'
  <2>1. app' = [pc |-> "open", size |-> size, offset |-> 0, got |-> <<>>, steady |-> TRUE]
    BY <1>1 DEF Open
  <2>2. /\ DOMAIN app' = AppFields /\ app'.pc = "open" /\ app'.size \in Nat /\ app'.offset = 0
        /\ app'.got = <<>> /\ app'.got \in Seq(Tokens) /\ app'.steady \in BOOLEAN
    BY <2>1 DEF AppFields
  <2>3. call = NoCall /\ call' = NoCall
    BY <1>1 DEF Open, WholeInv, CallGoesOn
  <2>4. OverlayTypes'
    BY <1>1, <2>2, <2>3 DEF Open, WholeInv, OverlayTypes, RowOK, LayoutOK
  <2>5. GotIsWhole'
    <3> SUFFICES ASSUME NEW v \in Reachable'
                 PROVE  <<>> = Slice(Virtual(row, v, tree_size), 0, 0) /\ 0 <= Len(Virtual(row, v, tree_size))
      BY <1>1, <2>2 DEF GotIsWhole, Open, Virtual, Served
    <3>1. v \in DOMAIN Versions
      BY <1>1, HeldIsReachable DEF Open, Reachable, WholeInv
    <3>2. Virtual(row, v, tree_size) \in Seq(Tokens) /\ Len(Virtual(row, v, tree_size)) \in Nat
      BY <3>1, VirtualIs, LenProperties DEF WholeInv, OverlayTypes
    <3> DEFINE file == Virtual(row, v, tree_size)
               none == <<>>
               from == 0
               size0 == 0
    <3>3. Len(none) = IF from < Len(file) THEN Min2(from + size0, Len(file)) - from ELSE 0
      BY <3>2 DEF Min2
    <3>4. <<>> \in Seq(Tokens)
      OBVIOUS
    <3>5. none \in Seq(Tokens) /\ \A i \in 1..Len(none) : none[i] = file[from + i]
      BY <3>4
    <3>6. file \in Seq(Tokens) /\ from \in Nat /\ size0 \in Nat
      BY <3>2
    <3> HIDE DEF file, none, from, size0
    <3>7. none = Slice(file, from, size0)
      BY <3>3, <3>5, <3>6, IsSlice
    <3> QED
      BY <3>2, <3>7 DEF file, none, from, size0
  <2> QED
    BY <1>1, <2>3, <2>4, <2>5 DEF WholeInv, CallGoesOn, Open, NoneGiven, NoAnswer, ReadsAreWhole
<1>2. tree_size \in Nat /\ VirtualSize \in Nat
  <2>1. tree_size \in Nat /\ RowOK(row) /\ Width \in Nat \ {0} /\ Estimate \in Nat
    BY OverlayAssumption DEF WholeInv, OverlayTypes
  <2>2. ASSUME row.layout # NULL
        PROVE  (Estimate + (row.layout.end - row.layout.start)) % Width \in Nat
    <3>1. Estimate + (row.layout.end - row.layout.start) \in Int
      BY <2>1, <2>2 DEF RowOK, LayoutOK
    <3>2. \A x \in Int : x % Width \in 0 .. Width - 1
      BY <2>1
    <3> QED
      BY <2>1, <3>1, <3>2
  <2> QED
    BY <2>1, <2>2 DEF VirtualSize
<1>3. CASE Close
  BY <1>3 DEF Close, WholeInv, OverlayTypes, RowOK, LayoutOK, CallGoesOn, GotIsWhole,
              NoneGiven, NoAnswer, ReadsAreWhole
<1>4. ASSUME NEW n \in Pieces, Read(n)
      PROVE  WholeInv'
  <2>1. app.pc = "open" /\ call = NoCall /\ app.offset < app.size /\ n \in Nat
    BY <1>4, OverlayAssumption DEF Read
  <2>2. app # NoApp /\ mode = "up"
    BY <2>1 DEF NoApp, WholeInv, OverlayTypes
  <2>3. app.offset \in Nat /\ app.size \in Nat
    BY <2>2 DEF WholeInv, OverlayTypes
  <2>4. call' = [NoCall EXCEPT !.pc = "layout", !.offset = app.offset,
                               !.size = Min2(n, app.size - app.offset), !.seen = {row},
                               !.edits = edits, !.forgotten = forgotten]
    BY <1>4 DEF Read
  <2>5. /\ DOMAIN call' = CallFields /\ call'.pc = "layout" /\ call'.offset = app.offset
        /\ call'.size = Min2(n, app.size - app.offset) /\ call'.seen = {row}
    BY <2>4 DEF NoCall, CallFields
  <2>6. call'.size \in Nat /\ call'.offset + call'.size <= app.size
    BY <2>1, <2>3, <2>5 DEF Min2
  <2>7. OverlayTypes'
    <3>1. IsFiniteSet(call'.seen)
      BY <2>5, FS_Singleton
    <3>2. UNCHANGED <<mode, origin, manifest, tree_size, row, app>>
      BY <1>4 DEF Read
    <3>3. /\ call'.pc \in {"layout", "row", "cas"} /\ call'.offset \in Nat
          /\ \A r \in call'.seen : RowOK(r)
      BY <2>3, <2>5 DEF WholeInv, OverlayTypes
    <3>4. \A r : RowOK(r) => RowOK(r)'
      BY DEF RowOK, LayoutOK
    <3>5. mode' # "down"
      BY <2>2, <3>2
    <3>6. /\ mode' \in {"up", "down"} /\ origin' \in DOMAIN Versions
          /\ manifest' \in {0} \cup DOMAIN Versions /\ tree_size' \in Nat /\ RowOK(row')
      BY <3>2 DEF WholeInv, OverlayTypes
    <3>7. /\ DOMAIN app' = AppFields /\ app'.pc \in {"open", "read", "failed"}
          /\ app'.size \in Nat /\ app'.offset \in Nat /\ app'.got \in Seq(Tokens)
          /\ app'.steady \in BOOLEAN
      BY <2>2, <3>2 DEF WholeInv, OverlayTypes
    <3> QED
      BY <2>5, <2>6, <3>1, <3>3, <3>4, <3>5, <3>6, <3>7 DEF OverlayTypes, RowOK, LayoutOK
  <2>8. CallGoesOn'
    BY <1>4, <2>1, <2>2, <2>5, <2>6 DEF Read, CallGoesOn
  <2>9. GotIsWhole'
    BY <1>4 DEF Read, WholeInv, GotIsWhole, Reachable, Virtual, Served
  <2> QED
    BY <1>4, <2>7, <2>8, <2>9 DEF WholeInv, Read, NoneGiven, NoAnswer, ReadsAreWhole
<1> QED
  BY <1>1, <1>2, <1>3, <1>4 DEF Lookup, Getattr

\* A step of a read that goes on to the next.
LEMMA AskingKeepsWhole ==
    ASSUME WholeFiles, WholeInv, call # NoCall, NEW pc \in {"row", "cas"},
           DOMAIN call' = CallFields, call'.pc = pc, call'.offset = call.offset,
           call'.size = call.size, call'.seen = call.seen,
           UNCHANGED app, NoneGiven, UNCHANGED <<mode, origin, manifest, tree_size, row, history>>,
           pc = "row" => /\ call'.layout # NULL /\ LayoutOK(call'.layout)
                         /\ \E r \in call.seen : r.layout = call'.layout,
           pc = "cas" => /\ call'.front \in Seq(Tokens) /\ call'.from \in Nat /\ call'.n \in Nat
                         /\ \E r \in Rows(call.seen) : SlicesOf(r)'
    PROVE  WholeInv'
<1>1. OverlayTypes'
  BY DEF WholeInv, OverlayTypes, RowOK, LayoutOK, CallGoesOn
<1>2. CallGoesOn'
  BY DEF WholeInv, CallGoesOn, LayoutOK
<1>3. GotIsWhole'
  BY DEF WholeInv, GotIsWhole, Reachable, Virtual, Served
<1> QED
  BY <1>1, <1>2, <1>3 DEF WholeInv, NoneGiven, NoAnswer, ReadsAreWhole

\* The first question to the database: no layout, and FileReader is asked for
\* the piece as it is; or the layout that the second question goes with.
LEMMA LayoutKeepsWhole ==
    ASSUME WholeFiles, WholeInv, GetFormatLayout
    PROVE  WholeInv'
<1>1. call # NoCall /\ call.pc = "layout"
  BY DEF GetFormatLayout, NoCall
<1>2. /\ DOMAIN call = CallFields /\ row \in call.seen /\ RowOK(row)
      /\ call.offset \in Nat /\ call.size \in Nat /\ tree_size \in Nat
      /\ \A r \in call.seen : RowOK(r)
  BY <1>1 DEF WholeInv, OverlayTypes, CallGoesOn
<1>3. UNCHANGED <<mode, origin, manifest, tree_size, row, history>> /\ UNCHANGED app /\ NoneGiven
  BY DEF GetFormatLayout, AskReader
<1>4. CASE row.layout = NULL
  <2>1. call' = [call EXCEPT !.pc = "cas", !.front = <<>>, !.from = call.offset, !.n = call.size]
    BY <1>4 DEF GetFormatLayout, AskReader
  <2>2. /\ DOMAIN call' = CallFields /\ call'.pc = "cas" /\ call'.offset = call.offset
        /\ call'.size = call.size /\ call'.seen = call.seen
        /\ call'.front = <<>> /\ call'.from = call.offset /\ call'.n = call.size
    BY <1>2, <2>1 DEF CallFields
  <2>3. <<>> \in Seq(Tokens)
    OBVIOUS
  <2>4. SlicesOf(row)'
    <3> SUFFICES ASSUME NEW v \in DOMAIN Versions
                 PROVE  <<>> \o Slice(Served(v, tree_size), call.offset, call.size)
                          = Slice(Virtual(row, v, tree_size), call.offset, call.size)
      BY <1>3, <2>2 DEF SlicesOf, Virtual, Served
    <3>1. Virtual(row, v, tree_size) = Served(v, tree_size)
      BY <1>4 DEF Virtual
    <3>2. Slice(Served(v, tree_size), call.offset, call.size) \in Seq(Tokens)
      BY <1>2, ServedIs, SliceIs
    <3> QED
      BY <3>1, <3>2, ConcatEmptySeq
  <2>5. row \in Rows(call.seen)
    BY <1>2, RowsAre
  <2> QED
    BY <1>1, <1>2, <1>3, <2>2, <2>3, <2>4, <2>5, AskingKeepsWhole
<1>5. CASE row.layout # NULL
  <2>1. call' = [call EXCEPT !.pc = "row", !.layout = row.layout]
    BY <1>5 DEF GetFormatLayout
  <2>2. /\ DOMAIN call' = CallFields /\ call'.pc = "row" /\ call'.offset = call.offset
        /\ call'.size = call.size /\ call'.seen = call.seen /\ call'.layout = row.layout
    BY <1>2, <2>1 DEF CallFields
  <2>3. LayoutOK(row.layout)
    BY <1>2, <1>5 DEF RowOK
  <2>4. LayoutOK(call'.layout) /\ call'.layout # NULL /\ row.layout = call'.layout
    BY <1>5, <2>2, <2>3
  <2> QED
    BY <1>1, <1>2, <1>3, <2>2, <2>4, AskingKeepsWhole
<1> QED
  BY <1>4, <1>5

\* A read that fails leaves the application without an answer.
LEMMA RefusingKeepsWhole ==
    ASSUME WholeFiles, WholeInv, call # NoCall, NEW why \in {"no_handler", "failed"}, Refuse(why),
           manifest' \in {0} \cup DOMAIN Versions, UNCHANGED <<mode, origin, tree_size, row, history>>
    PROVE  WholeInv'
<1>1. call' = NoCall /\ answer'.is # "data" /\ app' = [app EXCEPT !.pc = "failed"]
  BY DEF Refuse
<1>2. /\ app # NoApp /\ DOMAIN app = AppFields /\ app.size \in Nat /\ app.offset \in Nat
      /\ app.got \in Seq(Tokens) /\ app.steady \in BOOLEAN /\ mode # "down"
  BY DEF WholeInv, OverlayTypes, CallGoesOn
<1>3. /\ DOMAIN app' = AppFields /\ app'.pc = "failed" /\ app'.size \in Nat /\ app'.offset \in Nat
      /\ app'.got \in Seq(Tokens) /\ app'.steady \in BOOLEAN
  BY <1>1, <1>2 DEF AppFields
<1>4. OverlayTypes'
  BY <1>1, <1>2, <1>3 DEF WholeInv, OverlayTypes, RowOK, LayoutOK
<1>5. GotIsWhole'
  BY <1>3 DEF GotIsWhole
<1> QED
  BY <1>1, <1>4, <1>5 DEF WholeInv, CallGoesOn, ReadsAreWhole

\* What is served of a row that is asked for: the cases of OverlayReader::read,
\* for whichever version the audio will be of.
RowSpliced(r, h, offset, size, all) ==
    /\ SizeOf(h, r.layout) \in Nat /\ SizeOf(h, r.layout) % Width = SizeOf(h, r.layout)
    /\ EndOf(h, r.layout, offset, size) \in Nat /\ Len(h) \in Nat
    /\ offset >= SizeOf(h, r.layout) =>
         \A v \in DOMAIN Versions : <<>> = Slice(Virtual(r, v, all), offset, size)
    /\ offset < SizeOf(h, r.layout) /\ EndOf(h, r.layout, offset, size) <= Len(h) =>
         \A v \in DOMAIN Versions :
           FrontOf(h, r.layout, offset, size) = Slice(Virtual(r, v, all), offset, size)
    /\ offset < SizeOf(h, r.layout) /\ EndOf(h, r.layout, offset, size) > Len(h) =>
         /\ FrontOf(h, r.layout, offset, size) \in Seq(Tokens)
         /\ FromOf(h, r.layout, offset) \in Nat /\ NeededOf(h, r.layout, offset, size) \in Nat
         /\ \A v \in DOMAIN Versions :
              ReadOf(h, Served(v, all), r.layout, offset, size) = Slice(Virtual(r, v, all), offset, size)

LEMMA RowIsSpliced ==
    ASSUME WholeFiles, NEW r, RowOK(r), r.layout # NULL, NEW h, h = Synthesize(r.tags, r.layout),
           NEW offset \in Nat, NEW size \in Nat, NEW all \in Nat
    PROVE  RowSpliced(r, h, offset, size, all)
<1> SUFFICES ASSUME NEW layout, layout = r.layout,
                    NEW virtual, virtual = SizeOf(h, layout),
                    NEW virtual_end, virtual_end = EndOf(h, layout, offset, size)
             PROVE  /\ virtual \in Nat /\ virtual % Width = virtual
                    /\ virtual_end \in Nat /\ Len(h) \in Nat
                    /\ offset < virtual /\ virtual_end > Len(h) =>
                         /\ FrontOf(h, layout, offset, size) \in Seq(Tokens)
                         /\ FromOf(h, layout, offset) \in Nat
                         /\ NeededOf(h, layout, offset, size) \in Nat
                    /\ \A v \in DOMAIN Versions :
                         /\ offset >= virtual => <<>> = Slice(Virtual(r, v, all), offset, size)
                         /\ offset < virtual /\ virtual_end <= Len(h) =>
                              FrontOf(h, layout, offset, size) = Slice(Virtual(r, v, all), offset, size)
                         /\ offset < virtual /\ virtual_end > Len(h) =>
                              ReadOf(h, Served(v, all), layout, offset, size) = Slice(Virtual(r, v, all), offset, size)
  BY DEF RowSpliced
<1>1. LayoutOK(layout) /\ layout # NULL /\ \A f \in Fields : r.tags[f] \in TagValues
  BY DEF RowOK
<1>2. h \in Seq(Tokens) /\ Len(h) \in 1..3
  BY <1>1, SynthesizeIs
<1>3. /\ layout.start \in Nat /\ layout.end \in Nat /\ layout.start <= layout.end
      /\ (layout.end - layout.start) + 3 < Width /\ Width \in Nat \ {0}
  BY <1>1, OverlayAssumption DEF LayoutOK
<1>4. virtual \in Nat /\ virtual < Width
  <2> DEFINE n == Len(h)
             k == layout.end - layout.start
  <2>1. n \in 1..3 /\ k \in Nat /\ k + 3 < Width /\ Width \in Nat /\ virtual = n + k
    BY <1>2, <1>3 DEF SizeOf
  <2> HIDE DEF n, k
  <2> QED
    BY <2>1
<1>5. virtual % Width = virtual
  BY <1>3, <1>4
<1>6. virtual_end = Min2(offset + size, virtual) /\ virtual_end \in Nat
  BY <1>4 DEF EndOf, Min2
<1>7. ASSUME NEW v \in DOMAIN Versions
      PROVE  /\ offset >= virtual => <<>> = Slice(Virtual(r, v, all), offset, size)
             /\ offset < virtual /\ virtual_end <= Len(h) =>
                  FrontOf(h, layout, offset, size) = Slice(Virtual(r, v, all), offset, size)
             /\ offset < virtual /\ virtual_end > Len(h) =>
                  ReadOf(h, Served(v, all), layout, offset, size) = Slice(Virtual(r, v, all), offset, size)
  <2>1. Served(v, all) \in Seq(Tokens)
    BY ServedIs
  <2>2. Virtual(r, v, all) = Spliced(h, Served(v, all), layout)
    BY <1>1 DEF Virtual, Spliced
  <2>3. /\ offset >= SizeOf(h, layout) =>
             <<>> = Slice(Spliced(h, Served(v, all), layout), offset, size)
        /\ offset < SizeOf(h, layout) /\ EndOf(h, layout, offset, size) <= Len(h) =>
             FrontOf(h, layout, offset, size)
               = Slice(Spliced(h, Served(v, all), layout), offset, size)
        /\ offset < SizeOf(h, layout) /\ EndOf(h, layout, offset, size) > Len(h) =>
             ReadOf(h, Served(v, all), layout, offset, size) = Slice(Spliced(h, Served(v, all), layout), offset, size)
    BY <1>1, <1>2, <2>1, SpliceIsSlice
  <2> QED
    BY <2>2, <2>3
<1>8. ASSUME offset < virtual, virtual_end > Len(h)
      PROVE  /\ FrontOf(h, layout, offset, size) \in Seq(Tokens)
             /\ FromOf(h, layout, offset) \in Nat /\ NeededOf(h, layout, offset, size) \in Nat
  <2> DEFINE n == Len(h)
             first == offset + 1
             stop == Min2(virtual_end, n)
  <2>1. Max2(n, offset) \in Nat /\ n <= Max2(n, offset) /\ n \in Nat
    BY <1>2 DEF Max2
  <2>2. offset < virtual_end \/ size = 0
    BY <1>4, <1>6, <1>8 DEF Min2
  <2>3. Max2(n, offset) <= virtual_end
    BY <1>2, <1>6, <1>8, <2>2 DEF Max2, Min2
  <2>4. FromOf(h, layout, offset) \in Nat /\ NeededOf(h, layout, offset, size) \in Nat
    <3> HIDE DEF n
    <3>1. layout.start + (Max2(n, offset) - n) \in Nat /\ virtual_end - Max2(n, offset) \in Nat
      BY <1>3, <1>6, <2>1, <2>3
    <3> QED
      BY <3>1 DEF n, FromOf, NeededOf, AudioOffset, AudioNeeded
  <2>5. first \in Int /\ first >= 1 /\ stop \in Int /\ stop <= n
    BY <1>2, <1>6 DEF Min2
  <2>6. \A i \in first .. stop : h[i] \in Tokens
    BY <1>2, <2>5, ElementOfSeq
  <2>7. SubSeq(h, first, stop) \in Seq(Tokens)
    <3> HIDE DEF first, stop
    <3> QED
      BY <2>5, <2>6, SubSeqProperties
  <2> QED
    BY <2>4, <2>7 DEF FrontOf
<1> QED
  BY <1>2, <1>4, <1>5, <1>6, <1>7, <1>8

\* The second question: the tags make the header, and what the read asks for
\* is cut out of it and of the audio.
LEMMA RowKeepsWhole ==
    ASSUME WholeFiles, WholeInv, GetFileMetadataRow
    PROVE  WholeInv'
<1> SUFFICES ASSUME NEW r, r = [row EXCEPT !.layout = call.layout],
                    NEW h, h = Synthesize(row.tags, r.layout),
                    NEW offset, offset = call.offset, NEW size, size = call.size
             PROVE  WholeInv'
  OBVIOUS
<1>1. call # NoCall /\ call.pc = "row"
  BY DEF GetFileMetadataRow, NoCall
<1>2. /\ DOMAIN call = CallFields /\ RowOK(row) /\ r \in Rows(call.seen) /\ RowOK(r)
      /\ call.layout # NULL /\ offset \in Nat /\ size \in Nat
  <2>1. PICK l \in call.seen : l.layout = call.layout
    BY <1>1 DEF WholeInv, CallGoesOn
  <2>2. row \in call.seen /\ \A x \in call.seen : RowOK(x)
    BY <1>1 DEF WholeInv, OverlayTypes, CallGoesOn
  <2>3. Mixed(row, l) \in Rows(call.seen) /\ \A x \in Rows(call.seen) : RowOK(x)
    BY <2>2, RowsAre
  <2>4. r = Mixed(row, l)
    BY <2>1, <2>2 DEF Mixed, RowOK
  <2> QED
    BY <1>1, <2>3, <2>4 DEF WholeInv, OverlayTypes, CallGoesOn
<1>3. r.tags = row.tags /\ r.layout = call.layout
  BY <1>2 DEF RowOK
<1>4. UNCHANGED <<mode, origin, manifest, tree_size, row, history>>
  BY DEF GetFileMetadataRow
<1> DEFINE front == FrontOf(h, r.layout, offset, size)
           from == FromOf(h, r.layout, offset)
           needed == NeededOf(h, r.layout, offset, size)
           virtual == SizeOf(h, r.layout)
           virtual_end == EndOf(h, r.layout, offset, size)
<1>5. /\ virtual \in Nat /\ virtual % Width = virtual /\ virtual_end \in Nat /\ Len(h) \in Nat
      /\ offset >= virtual => \A v \in DOMAIN Versions : <<>> = Slice(Virtual(r, v, tree_size), offset, size)
      /\ offset < virtual /\ virtual_end <= Len(h) =>
           \A v \in DOMAIN Versions : front = Slice(Virtual(r, v, tree_size), offset, size)
      /\ offset < virtual /\ virtual_end > Len(h) =>
           /\ front \in Seq(Tokens) /\ from \in Nat /\ needed \in Nat
           /\ \A v \in DOMAIN Versions :
                ReadOf(h, Served(v, tree_size), r.layout, offset, size)
                  = Slice(Virtual(r, v, tree_size), offset, size)
  <2> HIDE DEF front, from, needed, virtual, virtual_end
  <2>1. r.layout # NULL /\ h = Synthesize(r.tags, r.layout)
    BY <1>2, <1>3
  <2>2. tree_size \in Nat /\ \A o, n, all \in Nat : RowSpliced(r, h, o, n, all)
    BY <1>2, <2>1, RowIsSpliced DEF WholeInv, OverlayTypes
  <2>3. RowSpliced(r, h, offset, size, tree_size)
    BY <1>2, <2>2
  <2> QED
    BY <2>3 DEF RowSpliced, front, from, needed, virtual, virtual_end
<1>6. CASE get_by_format(call.layout.format) = NULL
  <2>1. Refuse("no_handler") /\ manifest' \in {0} \cup DOMAIN Versions
    BY <1>4, <1>6 DEF GetFileMetadataRow, WholeInv, OverlayTypes
  <2> QED
    BY <1>1, <1>4, <2>1, RefusingKeepsWhole
<1>7. CASE get_by_format(call.layout.format) # NULL
  <2>1. Splice(h, r.layout)
    BY <1>3, <1>7 DEF GetFileMetadataRow
  <2>2. /\ offset >= virtual => Answer(<<>>)
        /\ offset < virtual /\ virtual_end <= Len(h) => Answer(front)
        /\ offset < virtual /\ virtual_end > Len(h) => AskReader(front, from, needed)
    <3> DEFINE layout == r.layout
    <3> HIDE DEF layout
    <3>1. (Len(h) + (layout.end - layout.start)) % Width = SizeOf(h, layout)
      BY <1>5 DEF SizeOf, layout
    <3>2. Splice(h, layout)
      BY <2>1 DEF layout
    <3> DEFINE end0 == Min2(offset + size, SizeOf(h, layout))
               front0 == SubSeq(h, offset + 1, Min2(end0, Len(h)))
    <3>3. IF offset >= SizeOf(h, layout) THEN Answer(<<>>)
          ELSE IF end0 > Len(h)
          THEN AskReader(front0, AudioOffset(layout, Len(h), offset),
                         AudioNeeded(Len(h), offset, end0))
          ELSE Answer(front0)
      BY <3>1, <3>2, Zenon DEF Splice
    <3>4. IF offset >= virtual THEN Answer(<<>>)
          ELSE IF virtual_end > Len(h) THEN AskReader(front, from, needed) ELSE Answer(front)
      BY <3>3 DEF layout, EndOf, FrontOf, FromOf, NeededOf
    <3> HIDE DEF virtual, virtual_end, front, from, needed
    <3>5. offset \in Nat /\ virtual \in Nat /\ virtual_end \in Nat /\ Len(h) \in Nat
      BY <1>2, <1>5
    <3>6. (offset < virtual => ~(offset >= virtual)) /\ (virtual_end <= Len(h) => ~(virtual_end > Len(h)))
      BY <3>5
    <3> QED
      BY <3>4, <3>6
  <2>3. /\ manifest' \in {0} \cup DOMAIN Versions /\ Held \in DOMAIN Versions
        /\ Reachable' \subseteq DOMAIN Versions
    BY <1>4, HeldIsReachable DEF WholeInv, OverlayTypes, Reachable
  <2>4. ASSUME NEW bytes, Answer(bytes),
               \A v \in DOMAIN Versions : bytes = Slice(Virtual(r, v, tree_size), offset, size)
        PROVE  WholeInv'
    <3>1. /\ bytes = Slice(Virtual(r, Held, tree_size), call.offset, call.size)
          /\ \A v \in Reachable' : bytes = Slice(Virtual(r, v, tree_size), call.offset, call.size)
      BY <2>3, <2>4
    <3> QED
      BY <1>1, <1>2, <1>4, <2>3, <2>4, <3>1, AnswerKeepsWhole
  <2> HIDE DEF virtual, virtual_end, front, from, needed
  <2>5. CASE offset >= virtual
    BY <1>5, <2>2, <2>4, <2>5
  <2>6. CASE offset < virtual /\ virtual_end <= Len(h)
    BY <1>5, <2>2, <2>4, <2>6
  <2>7. CASE offset < virtual /\ virtual_end > Len(h)
    <3>1. /\ call' = [call EXCEPT !.pc = "cas", !.front = front, !.from = from, !.n = needed]
          /\ UNCHANGED app /\ NoneGiven
      BY <2>2, <2>7 DEF AskReader
    <3>2. /\ DOMAIN call' = CallFields /\ call'.pc = "cas" /\ call'.offset = call.offset
          /\ call'.size = call.size /\ call'.seen = call.seen
          /\ call'.front = front /\ call'.from = from /\ call'.n = needed
      BY <1>2, <3>1 DEF CallFields
    <3>3. SlicesOf(r)'
      <4> SUFFICES ASSUME NEW v \in DOMAIN Versions
                   PROVE  front \o Slice(Served(v, tree_size), from, needed)
                            = Slice(Virtual(r, v, tree_size), offset, size)
        BY <1>4, <3>2 DEF SlicesOf, Virtual, Served
      <4>1. ReadOf(h, Served(v, tree_size), r.layout, offset, size)
              = front \o Slice(Served(v, tree_size), from, needed)
        BY DEF ReadOf, front, from, needed
      <4> QED
        BY <1>5, <2>7, <4>1
    <3> QED
      BY <1>1, <1>2, <1>4, <1>5, <2>7, <3>1, <3>2, <3>3, AskingKeepsWhole
  <2> QED
    BY <1>2, <1>5, <2>5, <2>6, <2>7
<1> QED
  BY <1>6, <1>7

\* FileReader answers, with the version it then holds, or something fails.
LEMMA ReaderKeepsWhole ==
    ASSUME WholeFiles, WholeInv, CasRead \/ ReadFails
    PROVE  WholeInv'
<1>1. CASE CasRead
  <2>1. call # NoCall /\ call.pc = "cas"
    BY <1>1 DEF CasRead, NoCall
  <2>2. PICK r \in Rows(call.seen) : SlicesOf(r)
    BY <2>1 DEF WholeInv, CallGoesOn
  <2>3. Held \in DOMAIN Versions /\ Held \in Nat \ {0}
    BY HeldIsReachable DEF WholeInv, WholeFiles
  <2>4. manifest' \in DOMAIN Versions /\ Reachable' \subseteq DOMAIN Versions
    BY <1>1, <2>3 DEF CasRead, Reachable, WholeInv, OverlayTypes
  <2> DEFINE bytes == call.front \o Slice(Served(Held, tree_size), call.from, call.n)
  <2>5. Answer(bytes) /\ UNCHANGED <<mode, origin, tree_size, row, history>>
    BY <1>1 DEF CasRead
  <2>6. /\ bytes = Slice(Virtual(r, Held, tree_size), call.offset, call.size)
        /\ manifest' \in {manifest, Held} =>
             \A v \in Reachable' :
               bytes = Slice(Virtual(r, v, tree_size), call.offset, call.size)
    <3>1. bytes = Slice(Virtual(r, Held, tree_size), call.offset, call.size)
      BY <2>2, <2>3 DEF SlicesOf
    <3>2. ASSUME manifest' \in {manifest, Held}
          PROVE  Reachable' \subseteq {Held}
      BY <1>1, <2>3, <3>2 DEF CasRead, Reachable, Held, WholeInv, OverlayTypes
    <3> QED
      BY <3>1, <3>2
  <2> HIDE DEF bytes
  <2> QED
    BY <2>1, <2>2, <2>4, <2>5, <2>6, AnswerKeepsWhole
<1>2. CASE ReadFails
  <2>1. call # NoCall /\ Refuse("failed") /\ UNCHANGED <<mode, origin, tree_size, row, history>>
    BY <1>2 DEF ReadFails
  <2>2. manifest' \in {0} \cup DOMAIN Versions
    BY <1>2 DEF ReadFails, WholeInv, OverlayTypes
  <2> QED
    BY <2>1, <2>2, RefusingKeepsWhole
<1> QED
  BY <1>1, <1>2

LEMMA WholeInit ==
    ASSUME WholeFiles, Init
    PROVE  WholeInv
<1>1. 1 \in DOMAIN Versions
  BY OverlayAssumption DEF WholeFiles
<1>2. RowOK(row)
  BY DEF Init, RowOK, NoTags, TagValues
<1> QED
  BY <1>1, <1>2 DEF Init, NoAnswer, WholeInv, OverlayTypes, CallGoesOn, GotIsWhole, ReadsAreWhole

LEMMA WholeStep ==
    ASSUME WholeFiles, WholeInv, [Next]_vars
    PROVE  WholeInv'
<1>1. CASE UNCHANGED vars
  <2>1. UNCHANGED <<mode, origin, manifest, tree_size, row, call, answer, app>>
    BY <1>1 DEF vars
  <2>2. OverlayTypes'
    BY <2>1 DEF WholeInv, OverlayTypes, RowOK, LayoutOK
  <2>3. CallGoesOn'
    BY <2>1 DEF WholeInv, CallGoesOn, SlicesOf, Virtual, Served, LayoutOK
  <2>4. GotIsWhole'
    BY <2>1 DEF WholeInv, GotIsWhole, Reachable, Virtual, Served
  <2>5. ReadsAreWhole'
    BY <2>1 DEF WholeInv, ReadsAreWhole, Virtual, Served
  <2> QED
    BY <2>2, <2>3, <2>4, <2>5 DEF WholeInv
<1>2. ASSUME NEW t \in Edits, UpdateMetadata(t)
      PROVE  WholeInv'
  BY <1>2, EditsAreRows, ChangedKeepsWhole DEF UpdateMetadata
<1>3. CASE ClearOverlay
  BY <1>3, EditsAreRows, ChangedKeepsWhole DEF ClearOverlay
<1> QED
  BY <1>1, <1>2, <1>3, MountsKeepWhole, ApplicationKeepsWhole, LayoutKeepsWhole, RowKeepsWhole,
     ReaderKeepsWhole DEF Next

----------------------------------------------------------------------------
(* What an application reads.                                              *)

\* OverlayReader::read asks the database twice and FileReader once, while edits,
\* clears and changes of the file go on; what it answers with is nevertheless a
\* slice of one virtual file.
THEOREM ReadsStayWhole ==
    ASSUME WholeFiles
    PROVE  Spec => []ReadsAreWhole
<1>1. Init => WholeInv
  BY WholeInit
<1>2. WholeInv /\ [Next]_vars => WholeInv'
  BY WholeStep
<1>3. WholeInv => ReadsAreWhole
  BY DEF WholeInv
<1> QED
  BY <1>1, <1>2, <1>3, PTL DEF Spec

\* A file read piece by piece from the start to the end with no edit in between
\* is the virtual file, up to the size the kernel was told.
THEOREM FilesReadWhole ==
    ASSUME WholeFiles
    PROVE  Spec => []FileReadIsWhole
<1>1. Init => WholeInv
  BY WholeInit
<1>2. WholeInv /\ [Next]_vars => WholeInv'
  BY WholeStep
<1>3. WholeInv => FileReadIsWhole
  <2> SUFFICES ASSUME WholeInv, app.pc = "read", app.steady
               PROVE  app.got = Slice(Virtual(row, Held, tree_size), 0, app.size)
    BY DEF FileReadIsWhole
  <2>1. app # NoApp /\ Held \in Reachable
    BY HeldIsReachable DEF NoApp, WholeInv
  <2> QED
    BY <2>1 DEF WholeInv, GotIsWhole
<1> QED
  BY <1>1, <1>2, <1>3, PTL DEF Spec

----------------------------------------------------------------------------
(* What users have set.                                                    *)

\* What was asked under the edits of an answer was asked of a row with them.
AnswerKept ==
    answer.is = "data" =>
      /\ answer.version \in DOMAIN Versions /\ answer.size \in Nat
      /\ IsFiniteSet(answer.seen) /\ \A r \in answer.seen : RowOK(r)
      /\ \E r \in answer.seen : ~answer.forgotten => Carries(answer.edits, r.tags)

EditsInv == WholeInv /\ EditsKept /\ AnswerKept

\* A read that ends says what it was asked under, one that goes on keeps it.
LEMMA ReadKeepsEdits ==
    ASSUME EditsInv, call # NoCall, UNCHANGED <<row, history>>,
           \/ /\ call' = NoCall
              /\ \/ answer'.is # "data"
                 \/ \E bytes : Answer(bytes)
           \/ /\ call'.seen = call.seen /\ call'.edits = call.edits
              /\ call'.forgotten = call.forgotten /\ NoneGiven
    PROVE  EditsKept' /\ AnswerKept'
<1>1. EditsKept'
  BY DEF EditsInv, EditsKept, Carries, history
<1>2. AnswerKept'
  <2>1. CASE \E bytes : Answer(bytes)
    <3>1. PICK bytes : Answer(bytes)
      BY <2>1
    <3>2. /\ answer'.version = Held /\ answer'.size = call.size /\ answer'.seen = call.seen
          /\ answer'.edits = call.edits /\ answer'.forgotten = call.forgotten
      BY <3>1 DEF Answer
    <3>3. Held \in DOMAIN Versions
      BY HeldIsReachable DEF EditsInv, WholeInv
    <3>4. call.size \in Nat /\ IsFiniteSet(call.seen) /\ \A r \in call.seen : RowOK(r)
      BY DEF EditsInv, WholeInv, OverlayTypes
    <3>5. \E r \in call.seen : ~call.forgotten => Carries(call.edits, r.tags)
      BY DEF EditsInv, EditsKept
    <3>6. \A r \in call.seen : RowOK(r)'
      BY <3>4 DEF RowOK, LayoutOK
    <3> QED
      BY <3>2, <3>3, <3>4, <3>5, <3>6 DEF AnswerKept, Carries, RowOK, LayoutOK
  <2>2. CASE ~\E bytes : Answer(bytes)
    BY <2>2 DEF AnswerKept, NoneGiven, NoAnswer
  <2> QED
    BY <2>1, <2>2
<1> QED
  BY <1>1, <1>2

\* An edit is in the row when it is in the history.
LEMMA ChangesKeepEdits ==
    ASSUME EditsInv, (\E t \in Edits : UpdateMetadata(t)) \/ ClearOverlay
    PROVE  EditsKept' /\ AnswerKept'
<1>1. ASSUME NEW new, Changed(new)
      PROVE  /\ AnswerKept'
             /\ row' = new
             /\ call' # NoCall =>
                  \E r \in call'.seen : ~call'.forgotten => Carries(call'.edits, r.tags)
  <2>1. row' = new /\ NoneGiven
    BY <1>1 DEF Changed
  <2>2. CASE call = NoCall
    BY <1>1, <2>1, <2>2 DEF Changed, AnswerKept, NoneGiven, NoAnswer
  <2>3. CASE call # NoCall
    <3> DEFINE seen == call.seen \cup {new}
    <3>1. call' = [call EXCEPT !.seen = seen] /\ DOMAIN call = CallFields
      BY <1>1, <2>3 DEF Changed, EditsInv, WholeInv, OverlayTypes
    <3>2. call.seen \subseteq seen
      OBVIOUS
    <3> HIDE DEF seen
    <3>3. call'.seen = seen /\ call'.edits = call.edits /\ call'.forgotten = call.forgotten
      BY <3>1 DEF CallFields
    <3>4. PICK r \in call.seen : ~call.forgotten => Carries(call.edits, r.tags)
      BY <2>3 DEF EditsInv, EditsKept
    <3> QED
      BY <2>1, <3>2, <3>3, <3>4 DEF AnswerKept, NoneGiven, NoAnswer
  <2> QED
    BY <2>2, <2>3
<1>2. ASSUME NEW t \in Edits, UpdateMetadata(t)
      PROVE  EditsKept' /\ AnswerKept'
  <2> DEFINE new == [row EXCEPT !.tags = Merged(@, t)]
  <2>1. /\ Changed(new) /\ UNCHANGED forgotten
        /\ edits' = [f \in Fields |-> IF t[f] = NULL THEN edits[f] ELSE t[f]]
    BY <1>2 DEF UpdateMetadata
  <2>2. new.tags = Merged(row.tags, t)
    BY DEF EditsInv, WholeInv, OverlayTypes, RowOK
  <2> HIDE DEF new
  <2>3. ~forgotten => Carries(edits', new.tags)
    BY <2>1, <2>2 DEF EditsInv, EditsKept, Carries, Merged
  <2>4. ~forgotten' => Carries(edits', row'.tags)
    BY <1>1, <2>1, <2>3
  <2> QED
    BY <1>1, <2>1, <2>4 DEF EditsKept, Carries
<1>3. CASE ClearOverlay
  <2>1. Changed([tags |-> NoTags, layout |-> NULL]) /\ forgotten' = TRUE
    BY <1>3 DEF ClearOverlay
  <2> QED
    BY <1>1, <2>1 DEF EditsKept, Carries
<1> QED
  BY <1>2, <1>3

\* A mount rewrites the row, and what was set before it is forgotten.
LEMMA MountsKeepEdits ==
    ASSUME EditsInv, Mount \/ Unmount \/ OriginChanges
    PROVE  EditsKept' /\ AnswerKept'
<1>1. AnswerKept'
  BY DEF Mount, Unmount, OriginChanges, NoneGiven, NoAnswer, AnswerKept
<1>2. CASE Mount
  <2>1. call' = NoCall
    BY <1>2 DEF Mount, EditsInv, WholeInv, OverlayTypes
  <2>2. ~forgotten' => edits' = NoTags
    BY <1>2 DEF Mount
  <2> QED
    BY <1>1, <2>1, <2>2 DEF EditsKept, Carries, NoTags
<1>3. CASE Unmount
  BY <1>1, <1>3 DEF Unmount, history, EditsInv, EditsKept, Carries
<1>4. CASE OriginChanges
  BY <1>1, <1>4 DEF OriginChanges, history, EditsInv, EditsKept, Carries
<1> QED
  BY <1>2, <1>3, <1>4

\* The application opens and closes the file; a read begins with the row.
LEMMA ApplicationKeepsEdits ==
    ASSUME EditsInv, Lookup \/ Getattr \/ Close \/ \E n \in Pieces : Read(n)
    PROVE  EditsKept' /\ AnswerKept'
<1>1. AnswerKept' /\ UNCHANGED <<row, history>>
  <2>1. answer' = NoAnswer
    BY DEF Lookup, Getattr, Open, Close, Read, NoneGiven
  <2>2. UNCHANGED <<row, history>>
    BY DEF Lookup, Getattr, Open, Close, Read
  <2> QED
    BY <2>1, <2>2 DEF NoAnswer, AnswerKept
<1>2. CASE Lookup \/ Getattr \/ Close
  BY <1>1, <1>2 DEF Lookup, Getattr, Open, Close, history, EditsInv, EditsKept, Carries
<1>3. ASSUME NEW n \in Pieces, Read(n)
      PROVE  EditsKept'
  <2>1. call'.seen = {row} /\ call'.edits = edits /\ call'.forgotten = forgotten
    BY <1>3 DEF Read, NoCall
  <2> QED
    BY <1>1, <2>1 DEF history, EditsInv, EditsKept, Carries
<1> QED
  BY <1>1, <1>2, <1>3

LEMMA EditsInit ==
    ASSUME WholeFiles, Init
    PROVE  EditsInv
BY WholeInit DEF Init, NoTags, NoAnswer, EditsInv, EditsKept, AnswerKept, Carries

LEMMA EditsStep ==
    ASSUME WholeFiles, EditsInv, [Next]_vars
    PROVE  EditsInv'
<1>1. WholeInv'
  BY WholeStep DEF EditsInv
<1>2. CASE UNCHANGED vars
  BY <1>1, <1>2 DEF vars, history, EditsInv, EditsKept, AnswerKept, Carries, RowOK, LayoutOK
<1>3. CASE GetFormatLayout \/ GetFileMetadataRow \/ CasRead \/ ReadFails
  <2>1. call # NoCall /\ DOMAIN call = CallFields
    BY <1>3 DEF GetFormatLayout, GetFileMetadataRow, CasRead, ReadFails, NoCall,
                EditsInv, WholeInv, OverlayTypes
  <2>2. UNCHANGED <<row, history>>
    BY <1>3 DEF GetFormatLayout, GetFileMetadataRow, CasRead, ReadFails
  <2>3. \A why \in {"no_handler", "failed"} : Refuse(why) => call' = NoCall /\ answer'.is # "data"
    BY DEF Refuse
  <2>4. \A bytes : Answer(bytes) => call' = NoCall
    BY DEF Answer
  <2>5. \A front, from, n : AskReader(front, from, n) =>
          /\ call'.seen = call.seen /\ call'.edits = call.edits
          /\ call'.forgotten = call.forgotten /\ NoneGiven
    BY <2>1 DEF AskReader, CallFields
  <2>6. CASE GetFormatLayout
    <3>1. CASE row.layout = NULL
      BY <1>1, <2>1, <2>2, <2>5, <2>6, <3>1, ReadKeepsEdits DEF GetFormatLayout, EditsInv
    <3>2. CASE row.layout # NULL
      <4>1. call' = [call EXCEPT !.pc = "row", !.layout = row.layout] /\ NoneGiven
        BY <2>6, <3>2 DEF GetFormatLayout
      <4>2. /\ call'.seen = call.seen /\ call'.edits = call.edits
            /\ call'.forgotten = call.forgotten
        BY <2>1, <4>1 DEF CallFields
      <4> QED
        BY <1>1, <2>1, <2>2, <4>1, <4>2, ReadKeepsEdits DEF EditsInv
    <3> QED
      BY <3>1, <3>2
  <2>7. CASE GetFileMetadataRow
    <3>1. \/ Refuse("no_handler") \/ \E bytes : Answer(bytes)
          \/ \E front, from, n : AskReader(front, from, n)
      BY <2>7 DEF GetFileMetadataRow, Splice
    <3> QED
      BY <1>1, <2>1, <2>2, <2>3, <2>4, <2>5, <3>1, ReadKeepsEdits DEF EditsInv
  <2>8. CASE CasRead
    BY <1>1, <2>1, <2>2, <2>4, <2>8, ReadKeepsEdits DEF CasRead, EditsInv
  <2>9. CASE ReadFails
    BY <1>1, <2>1, <2>2, <2>3, <2>9, ReadKeepsEdits DEF ReadFails, EditsInv
  <2> QED
    BY <1>3, <2>6, <2>7, <2>8, <2>9
<1> QED
  BY <1>1, <1>2, <1>3, MountsKeepEdits, ChangesKeepEdits, ApplicationKeepsEdits DEF Next, EditsInv

\* What a slice from the start holds that is longer than the header.
LEMMA HeaderIsRead ==
    ASSUME WholeFiles, NEW r, RowOK(r), r.layout # NULL, NEW v \in DOMAIN Versions, NEW scanned \in Nat,
           NEW size \in Nat, size > 3,
           NEW i \in 1..Len(Synthesize(r.tags, r.layout))
    PROVE  /\ i \in 1..Len(Slice(Virtual(r, v, scanned), 0, size))
           /\ Slice(Virtual(r, v, scanned), 0, size)[i] = Synthesize(r.tags, r.layout)[i]
<1> SUFFICES ASSUME NEW h, h = Synthesize(r.tags, r.layout), NEW file, file = Virtual(r, v, scanned)
             PROVE  i \in 1..Len(Slice(file, 0, size)) /\ Slice(file, 0, size)[i] = h[i]
  OBVIOUS
<1>1. h \in Seq(Tokens) /\ Len(h) \in 1..3
  BY SynthesizeIs DEF RowOK
<1> DEFINE a == Served(v, scanned)
           last == Min2(r.layout.end, Len(a))
           audio == SubSeq(a, r.layout.start + 1, last)
<1>2. file = h \o audio
  BY DEF Virtual
<1>3. audio \in Seq(Tokens)
  <2>1. a \in Seq(Tokens) /\ LayoutOK(r.layout)
    BY ServedIs DEF RowOK
  <2>2. Len(a) \in Nat /\ last \in Nat /\ last <= Len(a) /\ r.layout.start \in Nat
    BY <2>1, LenProperties DEF Min2, LayoutOK
  <2>3. \A j \in r.layout.start + 1 .. last : a[j] \in Tokens
    BY <2>1, <2>2, ElementOfSeq
  <2> HIDE DEF a, last
  <2> QED
    BY <2>2, <2>3, SubSeqProperties
<1> HIDE DEF audio
<1>4. /\ file \in Seq(Tokens) /\ Len(file) = Len(h) + Len(audio) /\ Len(audio) \in Nat
      /\ \A j \in 1 .. Len(h) + Len(audio) : file[j] = IF j <= Len(h) THEN h[j] ELSE audio[j - Len(h)]
  BY <1>1, <1>2, <1>3, ConcatProperties, LenProperties
<1>5. i \in 1..3 /\ i <= Len(h) /\ i \in 1 .. Len(h) + Len(audio)
  <2>1. i \in 1..Len(h)
    OBVIOUS
  <2> DEFINE n == Len(h)
             m == Len(audio)
  <2>2. i \in 1..n /\ n \in 1..3 /\ m \in Nat
    BY <1>1, <1>4, <2>1
  <2> HIDE DEF n, m
  <2>3. i \in 1..3 /\ i <= n /\ i \in 1 .. n + m
    BY <2>2
  <2> QED
    BY <2>3 DEF n, m
<1>6. /\ Len(Slice(file, 0, size)) = IF 0 < Len(file) THEN Min2(0 + size, Len(file)) - 0 ELSE 0
      /\ \A j \in 1..Len(Slice(file, 0, size)) : Slice(file, 0, size)[j] = file[0 + j]
  <2> DEFINE zero == 0
  <2>1. zero \in Nat /\ file \in Seq(Tokens)
    BY <1>4
  <2> HIDE DEF zero
  <2>2. /\ Len(Slice(file, zero, size))
             = IF zero < Len(file) THEN Min2(zero + size, Len(file)) - zero ELSE 0
        /\ \A j \in 1..Len(Slice(file, zero, size)) : Slice(file, zero, size)[j] = file[zero + j]
    BY <2>1, SliceIs
  <2> QED
    BY <2>2 DEF zero
<1>7. i \in 1..Len(Slice(file, 0, size))
  <2> DEFINE all == Len(file)
             head == Len(h)
             read == Len(Slice(file, 0, size))
  <2>1. /\ head \in 1..3 /\ all \in Nat /\ head <= all
        /\ read = IF 0 < all THEN Min2(0 + size, all) - 0 ELSE 0
        /\ i \in 1..3 /\ i <= head
    BY <1>1, <1>4, <1>5, <1>6
  <2> HIDE DEF all, head, read
  <2>2. read = Min2(size, all)
    BY <2>1 DEF Min2
  <2>3. i \in 1..read
    BY <2>1, <2>2 DEF Min2
  <2> QED
    BY <2>3 DEF read
<1>8. Slice(file, 0, size)[i] = file[0 + i]
  BY <1>6, <1>7
<1> QED
  BY <1>4, <1>5, <1>7, <1>8

\* What users have set shows on the next read of a file that has a layout, till
\* a clear or a mount forgets it, but for a year where there is a date: however
\* many edits, reads, failures and changes of the file come before.
THEOREM EditsShowOnRead ==
    ASSUME WholeFiles
    PROVE  Spec => []EditsShowTillForgotten
<1>1. Init => EditsInv
  BY EditsInit
<1>2. EditsInv /\ [Next]_vars => EditsInv'
  BY EditsStep
<1>3. EditsInv => EditsShowTillForgotten
  <2> SUFFICES ASSUME EditsInv, HasHeader, ~answer.forgotten,
                      NEW r \in answer.seen, r.layout # NULL,
                      NEW f \in Fields, answer.edits[f] # NULL,
                      ~(f = "year" /\ r.tags["date"] # NULL)
               PROVE  ShowsEdit(f)
    BY DEF EditsShowTillForgotten
  <2>1. /\ answer.is = "data" /\ answer.offset = 0 /\ answer.size > 3 /\ answer.size \in Nat
        /\ answer.version \in DOMAIN Versions /\ RowOK(r)
        /\ IsFiniteSet(answer.seen) /\ Cardinality(answer.seen) = 1
    BY FieldsAreThree DEF HasHeader, EditsInv, AnswerKept
  <2>2. answer.seen = {r}
    <3>1. \E x : answer.seen = {x}
      BY <2>1, FS_Singleton
    <3> QED
      BY <3>1
  <2>3. Carries(answer.edits, r.tags)
    BY <2>1, <2>2 DEF EditsInv, AnswerKept
  <2>4. answer.bytes = Slice(Virtual(r, answer.version, tree_size), 0, answer.size)
    <3>1. Rows(answer.seen) = {r}
      BY <2>2, <2>1, RowsAre
    <3> QED
      BY <2>1, <3>1 DEF EditsInv, WholeInv, ReadsAreWhole
  <2>5. r.tags[f] = answer.edits[f]
    BY <2>3 DEF Carries
  <2>6. LayoutOK(r.layout) /\ \A g \in Fields : r.tags[g] \in TagValues
    BY <2>1 DEF RowOK
  <2>7. PICK i \in 1..Len(Synthesize(r.tags, r.layout)) :
          Synthesize(r.tags, r.layout)[i] = <<IF f = "year" THEN "date" ELSE f, r.tags[f]>>
    BY <2>5, <2>6, HeaderShows
  <2>8. i \in 1..Len(answer.bytes) /\ answer.bytes[i] = Synthesize(r.tags, r.layout)[i]
    <3> SUFFICES ASSUME NEW size, size = answer.size, NEW v, v = answer.version
                 PROVE  /\ i \in 1..Len(Slice(Virtual(r, v, tree_size), 0, size))
                        /\ Slice(Virtual(r, v, tree_size), 0, size)[i] = Synthesize(r.tags, r.layout)[i]
      BY <2>4
    <3>1. /\ RowOK(r) /\ v \in DOMAIN Versions /\ size \in Nat /\ size > 3
          /\ tree_size \in Nat
      BY <2>1 DEF EditsInv, WholeInv, OverlayTypes
    <3> QED
      BY <2>7, <3>1, HeaderIsRead
  <2>9. DOMAIN answer.bytes = 1..Len(answer.bytes)
    <3>1. Slice(Virtual(r, answer.version, tree_size), 0, answer.size) \in Seq(Tokens)
      <4>1. Virtual(r, answer.version, tree_size) \in Seq(Tokens)
        BY <2>1, VirtualIs DEF EditsInv, WholeInv, OverlayTypes
      <4> QED
        BY <2>1, <4>1, SliceIs
    <3> QED
      BY <2>4, <3>1, LenProperties
  <2> QED
    BY <2>5, <2>7, <2>8, <2>9 DEF ShowsEdit
<1> QED
  BY <1>1, <1>2, <1>3, PTL DEF Spec
=============================================================================
