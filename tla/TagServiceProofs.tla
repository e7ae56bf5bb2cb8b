-------------------------- MODULE TagServiceProofs --------------------------
(***************************************************************************)
(* Theorems about TagService: any files, users, edits, batches and         *)
(* imports, and any size of the channel.                                   *)
(***************************************************************************)
EXTENDS TagService, FiniteSetTheorems, SequenceTheorems, TLAPS

----------------------------------------------------------------------------
(* The background task, its channel and its client.                        *)

Lengths == {0} \cup {Len(items) : items \in Batches \cup Imports}
ReportSet == [kind : {"batch", "import"}, k : Nat, total : Lengths, imported : Nat,
              error : BOOLEAN]

WorkingSteps == {"item", "enrich", "update"}
TasksOf(kind, sequences) ==
    [pc : WorkingSteps \cup {"send"}, kind : {kind}, items : sequences, k : Nat \ {0},
     imported : Nat, error : BOOLEAN]

Running == task.pc \in WorkingSteps \cup {"send"}
Working == task.pc \in WorkingSteps

\* A task has its kind of items, and at a step of an item it is at one.
TaskOK ==
    /\ task.pc \in {"none", "done"} \/ task \in TasksOf("batch", Batches)
                                    \/ task \in TasksOf("import", Imports)
    /\ task.pc = "none" => task = NoTask
    /\ task.pc = "update" => task.kind = "import" /\ HasItem
    /\ task.pc = "enrich" => task.kind = "batch" /\ HasItem

\* Nothing is reported, and nobody listens, before the task begins.
ChannelOK ==
    /\ did \in Seq({"all", "part", "none"})
    /\ got \in Seq(ReportSet)
    /\ channel \in Seq(ReportSet) /\ Len(channel) <= ChannelSize
    /\ client \in {"none", "here", "left"}
    /\ client = "left" => channel = <<>>
    /\ task = NoTask => did = <<>> /\ got = <<>> /\ channel = <<>>

\* What is done is reported or in the channel, but for the item at hand; of a
\* client that left, a full channel may be lost.
Sent == Len(got) + (IF client = "left" THEN ChannelSize ELSE Len(channel))
WorkInv ==
    /\ Len(did) <= Sent + 1
    /\ Working => Len(did) <= Sent

CountAll(seq, k) == Cardinality({j \in 1..k : seq[j] = "all"})
AllUpTo(k) == CountAll(did, k)

\* Report r is true of item k.
TrueOf(r, k) ==
    /\ r.k = k /\ k \in 1..Len(did)
    /\ r.error <=> (did[k] # "all")
    /\ r.kind = "import" => r.imported = AllUpTo(k)

BadStart ==
    /\ did = <<>> /\ task.pc = "done"
    /\ \A k \in 1..Len(got) : got[k].total = 0
    /\ \A k \in 1..Len(channel) : channel[k].total = 0

\* The client's reports and those on their way to it are those of the items,
\* one by one, and the task is at the next.
InOrder ==
    /\ \A k \in 1..Len(got) : TrueOf(got[k], k)
    /\ \A k \in 1..Len(channel) : TrueOf(channel[k], Len(got) + k)
    /\ Working => task.k = Len(did) + 1
    /\ task.pc = "send" =>
         task.k = Len(did) /\ task.k # 0 /\ (task.error <=> (did[task.k] # "all"))
    /\ Running /\ task.kind = "import" => task.imported = AllUpTo(Len(did))
    /\ Running /\ client # "left" =>
         Len(got) + Len(channel) = IF task.pc = "send" THEN Len(did) - 1 ELSE Len(did)

ReportInv == BadStart \/ InOrder

\* What edits of tags asked for and nothing has undone is in its row.
Settable == Request \cup {"year"}
InItsRow(e) ==
    /\ HasRowFor(e.id)
    /\ e.field \in Settable \cap DOMAIN row_tags[e.id]
    /\ row_tags[e.id][e.field] = e.value
DueInv == \A e \in due : e.field \notin Enrichment => InItsRow(e)

YearsAreNumbers ==
    \A id \in DOMAIN row_tags :
        "year" \in DOMAIN row_tags[id] => row_tags[id]["year"] # Garbled

UserOK ==
    /\ DOMAIN user = Users
    /\ \A u \in Users :
          \/ user[u].pc \in {"idle", "refused", "done"}
          \/ user[u] \in [pc : {"edit", "enrich"}, id : FileIds, edit : Edits]

TaskInv == TaskOK /\ ChannelOK /\ WorkInv /\ ReportInv

----------------------------------------------------------------------------
(* Counting what was applied.                                              *)

\* One more item: the counts up to the earlier ones stay, and the new one
\* counts if it was applied.
LEMMA CountAppend ==
    ASSUME NEW S, NEW seq \in Seq(S), NEW how
    PROVE  /\ \A k \in 0..Len(seq) : CountAll(Append(seq, how), k) = CountAll(seq, k)
           /\ CountAll(seq, Len(seq)) \in Nat
           /\ CountAll(Append(seq, how), Len(seq) + 1) =
                CountAll(seq, Len(seq)) + (IF how = "all" THEN 1 ELSE 0)
<1> DEFINE n == Len(seq)
           longer == Append(seq, how)
           all == {j \in 1..n : seq[j] = "all"}
           allLonger == {j \in 1..n + 1 : longer[j] = "all"}
<1>1. n \in Nat
  OBVIOUS
<1>2. longer[n + 1] = how /\ \A j \in 1..n : longer[j] = seq[j]
  OBVIOUS
<1> HIDE DEF longer, n
<1>3. ASSUME NEW k \in 0..n
      PROVE  CountAll(longer, k) = CountAll(seq, k)
  <2>1. {j \in 1..k : longer[j] = "all"} = {j \in 1..k : seq[j] = "all"}
    BY <1>1, <1>2
  <2> QED
    BY <2>1 DEF CountAll
<1>4. IsFiniteSet(all)
  <2>1. IsFiniteSet(1..n)
    BY <1>1, FS_Interval
  <2> QED
    BY <2>1, FS_Subset
<1>5. CountAll(seq, n) \in Nat
  BY <1>4, FS_CardinalityType DEF CountAll
<1>6. CASE how = "all"
  <2>1. allLonger = all \cup {n + 1} /\ n + 1 \notin all
    BY <1>1, <1>2, <1>6
  <2> HIDE DEF all, allLonger
  <2>2. Cardinality(allLonger) = Cardinality(all) + 1
    BY <1>4, <2>1, FS_AddElement
  <2> USE DEF all, allLonger
  <2> QED
    BY <1>3, <1>5, <1>6, <2>2 DEF CountAll, longer, n
<1>7. CASE how # "all"
  <2>1. allLonger = all
    BY <1>1, <1>2, <1>7
  <2> QED
    BY <1>3, <1>5, <1>7, <2>1 DEF CountAll, longer, n
<1> QED
  BY <1>6, <1>7

----------------------------------------------------------------------------
(* The steps of the task.                                                  *)

\* The task begins.
LEMMA BeginKeeps ==
    ASSUME TaskInv,
           \/ \E items \in Batches : Begin("batch", items)
           \/ \E items \in Imports : Begin("import", items)
    PROVE  TaskInv'
<1>1. did = <<>> /\ got = <<>> /\ channel = <<>>
  BY DEF TaskInv, ChannelOK, Begin
<1>2. /\ UNCHANGED <<did, got, channel>> /\ client' = "here"
      /\ task' \in TasksOf("batch", Batches) \/ task' \in TasksOf("import", Imports)
      /\ task'.pc = "item" /\ task'.k = 1 /\ task'.imported = 0
  <2>1. ASSUME NEW kind \in {"batch", "import"}, NEW sequences, NEW items \in sequences,
               Begin(kind, items)
        PROVE  /\ UNCHANGED <<did, got, channel>> /\ client' = "here"
               /\ task' \in TasksOf(kind, sequences)
               /\ task'.pc = "item" /\ task'.k = 1 /\ task'.imported = 0
    BY <2>1 DEF Begin, TasksOf, WorkingSteps
  <2> QED
    BY <2>1
<1>3. TaskOK'
  BY <1>2 DEF TaskOK, NoTask
<1>4. ChannelOK' /\ WorkInv'
  <2>1. task' # NoTask
    BY <1>2 DEF NoTask
  <2> QED
    BY <1>1, <1>2, <2>1, TagAssumption DEF TaskInv, ChannelOK, WorkInv, Sent
<1>5. CountAll(did, 0) = 0
  <2>1. {j \in 1..0 : did[j] = "all"} = {}
    OBVIOUS
  <2> QED
    BY <2>1, FS_EmptySet DEF CountAll
<1>6. InOrder'
  BY <1>1, <1>2, <1>5 DEF InOrder, AllUpTo, Working, Running, WorkingSteps
<1> QED
  BY <1>3, <1>4, <1>6 DEF TaskInv, ReportInv

\* An import that reports an error before its first item.
LEMMA BadBeginKeeps ==
    ASSUME TaskInv, BeginsBadly
    PROVE  TaskInv'
<1>1. did = <<>> /\ got = <<>> /\ UNCHANGED <<did, got>>
  BY DEF TaskInv, ChannelOK, BeginsBadly
<1> DEFINE r == [kind |-> "import", k |-> 0, total |-> 0, imported |-> 0, error |-> TRUE]
<1>2. /\ task' = [pc |-> "done"] /\ client' = "here" /\ channel' = <<r>>
      /\ r \in ReportSet /\ r.total = 0
  BY DEF BeginsBadly, ReportSet, Lengths
<1> HIDE DEF r
<1>3. Len(channel') = 1 /\ channel' \in Seq(ReportSet) /\ channel'[1] = r
  BY <1>2
<1>4. TaskOK'
  BY <1>2 DEF TaskOK, NoTask
<1>5. ChannelOK' /\ WorkInv'
  BY <1>1, <1>2, <1>3, TagAssumption
     DEF TaskInv, ChannelOK, WorkInv, Sent, Working, WorkingSteps, NoTask
<1>6. BadStart'
  BY <1>1, <1>2, <1>3 DEF BadStart
<1> QED
  BY <1>4, <1>5, <1>6 DEF TaskInv, ReportInv

\* An item ends, one way or the other.
LEMMA ItemEndKeeps ==
    ASSUME TaskInv, Working, NEW how \in {"all", "part", "none"}, ItemEnds(how),
           UNCHANGED <<channel, client, got>>
    PROVE  TaskInv'
<1> USE DEF TaskInv
<1>0. PICK n \in Nat : n = Len(did)
  BY DEF ChannelOK
<1> DEFINE error == how # "all"
           imported == task.imported + (IF task.kind = "import" /\ how = "all" THEN 1 ELSE 0)
<1>1. /\ task \in TasksOf("batch", Batches) \/ task \in TasksOf("import", Imports)
      /\ task.pc \in WorkingSteps
  BY DEF TaskOK, Working, WorkingSteps
<1>2. did' = Append(did, how)
  BY DEF ItemEnds
<1>3. /\ Len(did') = n + 1 /\ did'[n + 1] = how /\ \A k \in 1..n : did'[k] = did[k]
      /\ did' \in Seq({"all", "part", "none"})
  BY <1>0, <1>2 DEF ChannelOK
<1>4. task' = [task EXCEPT !.pc = "send", !.error = error, !.imported = imported]
  BY DEF ItemEnds
<1>5. error \in BOOLEAN /\ imported \in Nat
  BY <1>1 DEF TasksOf
<1> HIDE DEF error, imported
<1>6. /\ task' \in TasksOf("batch", Batches) \/ task' \in TasksOf("import", Imports)
      /\ task'.pc = "send" /\ task'.k = task.k /\ task'.error = error
      /\ task'.imported = imported /\ task'.kind = task.kind
  BY <1>1, <1>4, <1>5 DEF TasksOf
<1>7. TaskOK' /\ ChannelOK'
  BY <1>3, <1>6 DEF TaskOK, ChannelOK, NoTask
<1>8. WorkInv'
  <2>1. Len(did) <= Sent
    BY DEF WorkInv
  <2>2. Sent' = Sent /\ Sent \in Nat
    BY TagAssumption DEF Sent, ChannelOK
  <2> HIDE DEF Sent
  <2>3. ~Working'
    BY <1>6 DEF Working, WorkingSteps
  <2> QED
    BY <1>0, <1>3, <2>1, <2>2, <2>3 DEF WorkInv
<1>9. InOrder
  BY <1>1 DEF ReportInv, BadStart, WorkingSteps
<1>10. /\ \A k \in 0..n : AllUpTo(k)' = AllUpTo(k)
       /\ AllUpTo(n) \in Nat
       /\ AllUpTo(n + 1)' = AllUpTo(n) + (IF how = "all" THEN 1 ELSE 0)
  <2>1. did \in Seq({"all", "part", "none"})
    BY DEF ChannelOK
  <2>2. /\ \A k \in 0..n : CountAll(Append(did, how), k) = CountAll(did, k)
        /\ CountAll(did, n) \in Nat
        /\ CountAll(Append(did, how), n + 1) = CountAll(did, n) + (IF how = "all" THEN 1 ELSE 0)
    BY <1>0, <2>1, CountAppend
  <2> QED
    BY <1>2, <2>2 DEF AllUpTo
<1>11. ASSUME NEW r, NEW k, TrueOf(r, k)
       PROVE  TrueOf(r, k)'
  BY <1>0, <1>3, <1>10, <1>11 DEF TrueOf
<1>12. /\ \A k \in 1..Len(got') : TrueOf(got[k], k)'
       /\ \A k \in 1..Len(channel') : TrueOf(channel[k], Len(got) + k)'
  BY <1>9, <1>11 DEF InOrder
<1>13. task'.k = n + 1
  BY <1>0, <1>6, <1>9 DEF InOrder, Working
<1>14. task'.error <=> (did'[task'.k] # "all")
  BY <1>3, <1>6, <1>13 DEF error
<1>15. task'.kind = "import" => task'.imported = AllUpTo(n + 1)'
  BY <1>0, <1>1, <1>6, <1>9, <1>10 DEF InOrder, Running, imported
<1>16. client' # "left" => Len(got') + Len(channel') = n
  BY <1>0, <1>1, <1>9 DEF InOrder, Running, WorkingSteps
<1>17. InOrder'
  <2>1. ~Working' /\ Len(did') = n + 1 /\ n + 1 # 0 /\ (n + 1) - 1 = n
    BY <1>3, <1>6 DEF Working, WorkingSteps
  <2> QED
    BY <1>6, <1>12, <1>13, <1>14, <1>15, <1>16, <2>1 DEF InOrder
<1> QED
  BY <1>7, <1>8, <1>17 DEF ReportInv

\* The task goes on with its item.
LEMMA MoveOnKeeps ==
    ASSUME TaskInv, task.pc = "item", HasItem, UNCHANGED <<did, channel, client, got>>,
           NEW at, task' = [task EXCEPT !.pc = at],
           \/ at = "enrich" /\ task.kind = "batch"
           \/ at = "update" /\ task.kind = "import"
    PROVE  TaskInv'
<1> USE DEF TaskInv
<1>1. task \in TasksOf("batch", Batches) \/ task \in TasksOf("import", Imports)
  BY DEF TaskOK
<1>2. /\ task' \in TasksOf("batch", Batches) \/ task' \in TasksOf("import", Imports)
      /\ task'.pc = at /\ task'.k = task.k /\ task'.kind = task.kind
      /\ task'.items = task.items /\ task'.imported = task.imported
  BY <1>1 DEF TasksOf, WorkingSteps
<1>3. TaskOK' /\ ChannelOK'
  BY <1>2 DEF TaskOK, ChannelOK, HasItem, NoTask
<1>4. WorkInv'
  BY <1>2 DEF WorkInv, Sent, Working, WorkingSteps
<1>5. InOrder
  BY DEF ReportInv, BadStart
<1>6. InOrder'
  BY <1>2, <1>5 DEF InOrder, TrueOf, AllUpTo, Working, Running, WorkingSteps
<1> QED
  BY <1>3, <1>4, <1>6 DEF ReportInv

\* The task ends: it has nothing left to do, or nobody to report it to.
LEMMA TaskEndKeeps ==
    ASSUME TaskInv, Running, task' = [pc |-> "done"],
           UNCHANGED <<did, channel, client, got>>
    PROVE  TaskInv'
<1> USE DEF TaskInv
<1>1. TaskOK' /\ ChannelOK'
  BY DEF TaskOK, ChannelOK, NoTask
<1>2. WorkInv'
  BY DEF WorkInv, Sent, Working, WorkingSteps
<1>3. InOrder
  BY DEF ReportInv, BadStart, Running, WorkingSteps
<1>4. InOrder'
  BY <1>3 DEF InOrder, TrueOf, AllUpTo, Working, Running, WorkingSteps
<1> QED
  BY <1>1, <1>2, <1>4 DEF ReportInv

\* The report of an item enters the channel.
LEMMA SendKeeps ==
    ASSUME TaskInv, Send
    PROVE  TaskInv'
<1> USE DEF TaskInv
<1>1. task.pc = "send" /\ UNCHANGED <<did, client, got>>
  BY DEF Send
<1>2. CASE task' = [pc |-> "done"] /\ channel' = channel
  BY <1>1, <1>2, TaskEndKeeps DEF Running
<1>3. CASE ~(task' = [pc |-> "done"] /\ channel' = channel)
  <2>1. /\ client # "left" /\ Len(channel) < ChannelSize
        /\ channel' = Append(channel, Report)
        /\ task' = [task EXCEPT !.pc = "item", !.k = @ + 1]
    BY <1>3 DEF Send, SendFails, Room
  <2>2. task \in TasksOf("batch", Batches) \/ task \in TasksOf("import", Imports)
    BY <1>1 DEF TaskOK
  <2>3. /\ task' \in TasksOf("batch", Batches) \/ task' \in TasksOf("import", Imports)
        /\ task'.pc = "item" /\ task'.k = task.k + 1 /\ task'.kind = task.kind
        /\ task'.imported = task.imported
    <3>1. ASSUME NEW kind, NEW sequences, task \in TasksOf(kind, sequences)
          PROVE  /\ task' \in TasksOf(kind, sequences)
                 /\ task'.pc = "item" /\ task'.k = task.k + 1 /\ task'.kind = task.kind
                 /\ task'.imported = task.imported
      <4> DEFINE next == task.k + 1
      <4>1. next \in Nat \ {0}
        BY <3>1 DEF TasksOf
      <4>2. task' = [task EXCEPT !.pc = "item", !.k = next]
        BY <2>1
      <4> HIDE DEF next
      <4>3. /\ task' \in TasksOf(kind, sequences)
            /\ task'.pc = "item" /\ task'.k = next /\ task'.kind = task.kind
            /\ task'.imported = task.imported
        BY <3>1, <4>1, <4>2 DEF TasksOf, WorkingSteps
      <4> QED
        BY <4>3 DEF next
    <3> QED
      BY <2>2, <3>1
  <2>4. Report \in ReportSet
    BY <2>2 DEF Report, ReportSet, TasksOf, Lengths
  <2>5. /\ channel' \in Seq(ReportSet) /\ Len(channel') = Len(channel) + 1
        /\ channel'[Len(channel) + 1] = Report
        /\ \A k \in 1..Len(channel) : channel'[k] = channel[k]
        /\ Len(channel) \in Nat /\ Len(got) \in Nat /\ Len(did) \in Nat
    BY <2>1, <2>4 DEF ChannelOK
  <2>6. TaskOK' /\ ChannelOK'
    <3>1. TaskOK'
      BY <2>3 DEF TaskOK
    <3>2. ChannelOK'
      <4>1. task' # NoTask
        BY <2>3 DEF NoTask
      <4>2. Len(channel') <= ChannelSize
        BY <2>1, <2>5, TagAssumption
      <4> QED
        BY <1>1, <2>1, <2>5, <4>1, <4>2 DEF ChannelOK
    <3> QED
      BY <3>1, <3>2
  <2>7. InOrder
    BY <1>1 DEF ReportInv, BadStart
  <2>8. /\ task.k = Len(did) /\ task.k # 0
        /\ task.error <=> (did[task.k] # "all")
        /\ Len(got) + Len(channel) = Len(did) - 1
    BY <1>1, <2>1, <2>7 DEF InOrder, Running
  <2>9. TrueOf(Report, Len(did))
    <3>1. Report.kind = "import" => Report.imported = AllUpTo(Len(did))
      BY <1>1, <2>7 DEF InOrder, Running, Report
    <3>2. Report.k = Len(did) /\ (Report.error <=> (did[Len(did)] # "all"))
      BY <2>8 DEF Report
    <3> QED
      BY <2>5, <2>8, <3>1, <3>2 DEF TrueOf
  <2>10. WorkInv'
    BY <1>1, <2>1, <2>5, <2>8 DEF WorkInv, Sent
  <2>11. \A k \in 1..Len(channel') : TrueOf(channel'[k], Len(got) + k)
    <3> TAKE k \in 1..Len(channel')
    <3>1. CASE k = Len(channel) + 1
      BY <2>5, <2>8, <2>9, <3>1
    <3>2. CASE k \in 1..Len(channel)
      BY <2>5, <2>7, <3>2 DEF InOrder
    <3> QED
      BY <2>5, <3>1, <3>2
  <2>12. InOrder'
    <3>1. \A r, k : TrueOf(r, k)' = TrueOf(r, k)
      BY <1>1 DEF TrueOf, AllUpTo
    <3>2. /\ \A k \in 1..Len(got') : TrueOf(got[k], k)'
          /\ \A k \in 1..Len(channel') : TrueOf(channel[k], Len(got) + k)'
      BY <1>1, <2>7, <2>11 DEF InOrder, TrueOf, AllUpTo
    <3>3. task'.k = Len(did') + 1 /\ Len(got') + Len(channel') = Len(did')
      BY <1>1, <2>3, <2>5, <2>8
    <3>4. task'.kind = "import" => task'.imported = AllUpTo(Len(did))'
      BY <1>1, <2>3, <2>7 DEF InOrder, Running, AllUpTo
    <3> QED
      BY <2>3, <3>2, <3>3, <3>4 DEF InOrder
  <2> QED
    BY <2>6, <2>10, <2>12 DEF ReportInv
<1> QED
  BY <1>2, <1>3

\* The client takes a report.
LEMMA ReceiveKeeps ==
    ASSUME TaskInv, Receive
    PROVE  TaskInv'
<1> USE DEF TaskInv
<1>1. /\ client = "here" /\ channel # <<>>
      /\ got' = Append(got, Head(channel)) /\ channel' = Tail(channel)
      /\ UNCHANGED <<task, client, did>>
  BY DEF Receive
<1> DEFINE n == Len(got)
<1>2. channel \in Seq(ReportSet) /\ got \in Seq(ReportSet)
  BY DEF ChannelOK
<1>3. /\ Len(channel) \in Nat /\ Len(got) \in Nat /\ Len(channel) > 0
      /\ Head(channel) = channel[1] /\ channel[1] \in ReportSet
  BY <1>1, <1>2
<1>4. /\ channel' \in Seq(ReportSet) /\ Len(channel') = Len(channel) - 1
      /\ \A k \in 1..Len(channel') : channel'[k] = channel[k + 1]
  BY <1>1, <1>2
<1>5. /\ got' \in Seq(ReportSet) /\ Len(got') = Len(got) + 1
      /\ got'[Len(got) + 1] = channel[1]
      /\ \A k \in 1..Len(got) : got'[k] = got[k]
  BY <1>1, <1>2, <1>3
<1>6. TaskOK'
  BY <1>1 DEF TaskOK, HasItem
<1>7. ChannelOK'
  BY <1>1, <1>3, <1>4, <1>5, TagAssumption DEF ChannelOK
<1>8. WorkInv'
  BY <1>1, <1>3, <1>4, <1>5 DEF WorkInv, Sent, Working
<1>9. CASE BadStart
  <2>1. BadStart'
    <3>1. \A k \in 1..Len(got') : got'[k].total = 0
      BY <1>3, <1>5, <1>9 DEF BadStart
    <3>2. \A k \in 1..Len(channel') : channel'[k].total = 0
      BY <1>3, <1>4, <1>9 DEF BadStart
    <3> QED
      BY <1>1, <1>9, <3>1, <3>2 DEF BadStart
  <2> QED
    BY <1>6, <1>7, <1>8, <2>1 DEF ReportInv
<1>10. CASE InOrder
  <2>1. \A k \in 1..Len(got') : TrueOf(got'[k], k)
    BY <1>3, <1>5, <1>10 DEF InOrder
  <2>2. \A k \in 1..Len(channel') : TrueOf(channel'[k], Len(got') + k)
    <3> TAKE k \in 1..Len(channel')
    <3>1. k + 1 \in 1..Len(channel) /\ Len(got') + k = Len(got) + (k + 1)
      BY <1>3, <1>4, <1>5
    <3> QED
      BY <1>4, <1>10, <3>1 DEF InOrder
  <2>3. Len(got') + Len(channel') = Len(got) + Len(channel)
    BY <1>3, <1>4, <1>5
  <2>4. InOrder'
    <3>1. /\ \A k \in 1..Len(got') : TrueOf(got[k], k)'
          /\ \A k \in 1..Len(channel') : TrueOf(channel[k], Len(got) + k)'
      BY <1>1, <2>1, <2>2 DEF TrueOf, AllUpTo
    <3> QED
      BY <1>1, <1>10, <2>3, <3>1 DEF InOrder, Working, Running, AllUpTo
  <2> QED
    BY <1>6, <1>7, <1>8, <2>4 DEF ReportInv
<1> QED
  BY <1>9, <1>10 DEF ReportInv

\* The client leaves, and with it what is in the channel.
LEMMA LeaveKeeps ==
    ASSUME TaskInv, Leave
    PROVE  TaskInv'
<1> USE DEF TaskInv
<1>1. client = "here" /\ client' = "left" /\ channel' = <<>> /\ UNCHANGED <<task, got, did>>
  BY DEF Leave
<1>2. TaskOK' /\ ChannelOK'
  BY <1>1, TagAssumption DEF TaskOK, ChannelOK, HasItem
<1>3. WorkInv'
  BY <1>1, TagAssumption DEF WorkInv, Sent, Working, ChannelOK
<1>4. BadStart => BadStart'
  BY <1>1 DEF BadStart
<1>5. InOrder => InOrder'
  BY <1>1 DEF InOrder, TrueOf, AllUpTo, Working, Running
<1> QED
  BY <1>2, <1>3, <1>4, <1>5 DEF ReportInv

\* A step of an item ends it, or takes it to its next step.
LEMMA ItemKeeps ==
    ASSUME TaskInv, BatchItem \/ BatchEnrich \/ ImportFinds \/ ImportUpdates
    PROVE  TaskInv'
<1>1. UNCHANGED <<channel, client, got>> /\ Working
  BY DEF BatchItem, BatchEnrich, ImportFinds, ImportUpdates, Quiet, Working, WorkingSteps
<1>2. \/ \E how \in {"all", "part", "none"} : ItemEnds(how)
      \/ /\ task.pc = "item" /\ HasItem /\ did' = did
         /\ \/ task.kind = "batch" /\ task' = [task EXCEPT !.pc = "enrich"]
            \/ task.kind = "import" /\ task' = [task EXCEPT !.pc = "update"]
  BY DEF BatchItem, BatchEnrich, ImportFinds, ImportUpdates
<1>3. ASSUME NEW how \in {"all", "part", "none"}, ItemEnds(how)
      PROVE  TaskInv'
  BY <1>1, <1>3, ItemEndKeeps
<1>4. ASSUME task.pc = "item", HasItem, did' = did,
             \/ task.kind = "batch" /\ task' = [task EXCEPT !.pc = "enrich"]
             \/ task.kind = "import" /\ task' = [task EXCEPT !.pc = "update"]
      PROVE  TaskInv'
  BY <1>1, <1>4, MoveOnKeeps
<1> QED
  BY <1>2, <1>3, <1>4

\* Every step keeps the task, its channel and its reports in order.
LEMMA TaskStep ==
    ASSUME TaskInv, [TagNext]_tagVars
    PROVE  TaskInv'
<1>1. CASE \/ \E items \in Batches : Begin("batch", items)
           \/ \E items \in Imports : Begin("import", items)
  BY <1>1, BeginKeeps
<1>2. CASE BeginsBadly
  BY <1>2, BadBeginKeeps
<1>3. CASE BatchItem \/ BatchEnrich \/ ImportFinds \/ ImportUpdates
  BY <1>3, ItemKeeps
<1>4. CASE Send
  BY <1>4, SendKeeps
<1>5. CASE AllItemsDone
  <2>1. /\ task.pc = "item" /\ task' = [pc |-> "done"]
        /\ UNCHANGED <<did, channel, client, got>>
    BY <1>5 DEF AllItemsDone
  <2> QED
    BY <2>1, TaskEndKeeps DEF Running, WorkingSteps
<1>6. CASE Receive
  BY <1>6, ReceiveKeeps
<1>7. CASE Leave
  BY <1>7, LeaveKeeps
<1>8. CASE UNCHANGED <<task, channel, client, got, did>>
  BY <1>8 DEF TaskInv, TaskOK, HasItem, ChannelOK, WorkInv, Sent, Working, ReportInv, BadStart,
              InOrder, TrueOf, AllUpTo, Running
<1>9. ASSUME \/ \E u \in Users :
                  \/ \E id \in FileIds, edit \in Edits : LookUp(u, id, edit) \/ Push(u, id, edit)
                  \/ Update(u) \/ Enrich(u) \/ ClearOverlay(u)
             \/ \E id \in DOMAIN FileTags : ScanUpserts(id)
             \/ UNCHANGED tagVars
      PROVE  UNCHANGED <<task, channel, client, got, did>>
  BY <1>9 DEF LookUp, Push, Update, Enrich, ClearOverlay, ScanUpserts, Untouched, tagVars
<1> QED
  BY <1>1, <1>2, <1>3, <1>4, <1>5, <1>6, <1>7, <1>8, <1>9 DEF TagNext

\* The inductive invariant of the task: reports, channel and items in step.
THEOREM TaskInvariance == TagSpec => []TaskInv
<1>1. TagInit => TaskInv
  <2> SUFFICES ASSUME TagInit
               PROVE  TaskInv
    OBVIOUS
  <2>1. task = NoTask /\ channel = <<>> /\ client = "none" /\ got = <<>> /\ did = <<>>
    BY DEF TagInit
  <2>2. TaskOK /\ ChannelOK
    BY <2>1, TagAssumption DEF TaskOK, ChannelOK, NoTask
  <2>3. WorkInv
    BY <2>1 DEF WorkInv, Sent, Working, WorkingSteps, NoTask
  <2>4. InOrder
    BY <2>1 DEF InOrder, Working, Running, WorkingSteps, NoTask
  <2> QED
    BY <2>2, <2>3, <2>4 DEF TaskInv, ReportInv
<1>2. TaskInv /\ [TagNext]_tagVars => TaskInv'
  BY TaskStep
<1> QED
  BY <1>1, <1>2, PTL DEF TagSpec

\* A batch or an import works at most a full channel and one item ahead of
\* what its client has heard of, even if the client leaves.
THEOREM WorkStopsWithTheClient == TagSpec => []WorkFollowsTheClient
<1>1. TaskInv => WorkFollowsTheClient
  BY TagAssumption DEF TaskInv, ChannelOK, WorkInv, Sent, WorkFollowsTheClient
<1> QED
  BY <1>1, TaskInvariance, PTL

\* The k-th report a client receives is the k-th item's, is an error exactly
\* if not all of the item was applied, and counts the entries imported so far,
\* for batches and imports of any length and a channel of any size.
THEOREM ReportsTellTheTruth == TagSpec => []ReportsAreTrue
<1>1. TaskInv => ReportsAreTrue
  <2> SUFFICES ASSUME TaskInv, NEW k \in 1..Len(got)
               PROVE  \/ got[k].total = 0 /\ did = <<>>
                      \/ /\ got[k].k = k
                         /\ got[k].error <=> (did[k] # "all")
                         /\ got[k].kind = "import" =>
                              got[k].imported = Cardinality({j \in 1..k : did[j] = "all"})
    BY DEF ReportsAreTrue
  <2>1. CASE BadStart
    BY <2>1 DEF BadStart
  <2>2. CASE InOrder
    BY <2>2 DEF InOrder, TrueOf, AllUpTo, CountAll
  <2> QED
    BY <2>1, <2>2 DEF TaskInv, ReportInv
<1> QED
  BY <1>1, TaskInvariance, PTL

----------------------------------------------------------------------------
(* Conversions of tags.                                                    *)

\* What a conversion carries.
LEMMA CarriedIs ==
    ASSUME NEW tags, NEW fields
    PROVE  /\ DOMAIN Carried(tags, fields) = DOMAIN tags \cap fields
           /\ \A x \in DOMAIN tags \cap fields : Carried(tags, fields)[x] = tags[x]
BY DEF Carried, Restrict

\* What becomes of one field.
LEMMA CarriedField ==
    ASSUME NEW tags, NEW fields, NEW x, x \in DOMAIN tags, x \in fields
    PROVE  x \in DOMAIN Carried(tags, fields) /\ Carried(tags, fields)[x] = tags[x]
BY DEF Carried, Restrict

\* Entries over entries.
LEMMA OverIs ==
    ASSUME NEW upper, NEW lower
    PROVE  /\ DOMAIN Over(upper, lower) = DOMAIN upper \cup DOMAIN lower
           /\ \A x \in DOMAIN upper : Over(upper, lower)[x] = upper[x]
           /\ \A x \in DOMAIN lower \ DOMAIN upper : Over(upper, lower)[x] = lower[x]
BY DEF Over

\* The sets of fields: what a request can ask for is a column, is printed,
\* and is none of the enrichment.
LEMMA FieldSets ==
    /\ Flags \subseteq Request /\ Request \cup {"year"} \subseteq Columns
    /\ Request \cup {"year"} \subseteq AudioMeta \ {"sample_rate"}
    /\ Columns \subseteq AudioMeta
    /\ AudioMeta \cap Enrichment = {} /\ "year" \notin Request
BY DEF Request, Enrichment, Columns, AudioMeta, Flags, Basic, Counts, Totals, Texts, Sorts,
       MusicBrainz, MusicBrainzGroups, ReplayGain, Stream

----------------------------------------------------------------------------
(* What edits asked for.                                                   *)

\* An update whose statement carries all that was asked, and nothing else.
Carries(meta, asked) ==
    /\ DOMAIN meta = DOMAIN asked /\ DOMAIN meta \subseteq Request \cup {"year"}
    /\ \A x \in DOMAIN meta : meta[x] = asked[x]

\* Nothing but the row of id changes, whatever map the rows are.
LEMMA OneRow ==
    ASSUME NEW id, HasRowFor(id), NEW row, row_tags' = [row_tags EXCEPT ![id] = row]
    PROVE  /\ DOMAIN row_tags' = DOMAIN row_tags
           /\ row_tags'[id] = row
           /\ \A other \in DOMAIN row_tags \ {id} : row_tags'[other] = row_tags[other]
BY DEF HasRowFor

\* An update sets what was asked and leaves the other fields of the row.
LEMMA UpdateKeepsDue ==
    ASSUME DueInv, NEW id, NEW meta, NEW asked, Carries(meta, asked),
           UpdateMetadata(id, meta, asked)
    PROVE  DueInv'
<1>1. Carried(meta, Columns) = EmptyMap => DOMAIN asked = {}
  <2>1. DOMAIN Carried(meta, Columns) = DOMAIN meta \cap Columns
    BY CarriedIs
  <2>2. DOMAIN EmptyMap = {}
    BY DEF EmptyMap
  <2> QED
    BY <2>1, <2>2, FieldSets DEF Carries
<1>2. CASE Carried(meta, Columns) = EmptyMap
  <2>1. Asked(id, asked) = {}
    BY <1>1, <1>2 DEF Asked
  <2>2. due' = due /\ row_tags' = row_tags
    BY <1>2, <2>1 DEF UpdateMetadata
  <2> QED
    BY <2>2 DEF DueInv, InItsRow, HasRowFor
<1>3. CASE Carried(meta, Columns) # EmptyMap
  <2> DEFINE row == Updated(row_tags[id], meta)
  <2>1. /\ HasRowFor(id) /\ row_tags' = [row_tags EXCEPT ![id] = row]
        /\ due' = (due \ Overwritten(id, DOMAIN asked)) \cup Asked(id, asked)
    BY <1>3 DEF UpdateMetadata
  <2>2. /\ DOMAIN row = DOMAIN meta \cup DOMAIN row_tags[id]
        /\ \A x \in DOMAIN meta : row[x] = meta[x]
        /\ \A x \in DOMAIN row_tags[id] \ DOMAIN meta : row[x] = row_tags[id][x]
    <3> DEFINE set == Carried(meta, Columns)
    <3>1. DOMAIN meta \cap Columns = DOMAIN meta
      BY FieldSets DEF Carries
    <3>2. DOMAIN set = DOMAIN meta \cap Columns /\ \A x \in DOMAIN meta \cap Columns : set[x] = meta[x]
      BY CarriedIs
    <3>3. row = Over(set, row_tags[id])
      BY DEF Updated
    <3> HIDE DEF set, row
    <3>4. /\ DOMAIN Over(set, row_tags[id]) = DOMAIN set \cup DOMAIN row_tags[id]
          /\ \A x \in DOMAIN set : Over(set, row_tags[id])[x] = set[x]
          /\ \A x \in DOMAIN row_tags[id] \ DOMAIN set : Over(set, row_tags[id])[x] = row_tags[id][x]
      BY OverIs
    <3> QED
      BY <3>1, <3>2, <3>3, <3>4
  <2> HIDE DEF row
  <2>3. /\ DOMAIN row_tags' = DOMAIN row_tags /\ row_tags'[id] = row
        /\ \A other \in DOMAIN row_tags \ {id} : row_tags'[other] = row_tags[other]
    BY <2>1, OneRow
  <2>4. ASSUME NEW e \in Asked(id, asked)
        PROVE  /\ e.id = id /\ e.field \in DOMAIN asked /\ e.value = asked[e.field]
    BY <2>4 DEF Asked
  <2>5. ASSUME NEW e \in due', e.field \notin Enrichment
        PROVE  /\ e.id \in DOMAIN row_tags'
               /\ e.field \in Settable \cap DOMAIN row_tags'[e.id]
               /\ row_tags'[e.id][e.field] = e.value
    <3>1. CASE e \in Asked(id, asked)
      BY <2>1, <2>2, <2>3, <2>4, <3>1 DEF Carries, Settable, HasRowFor
    <3>2. CASE e \in due /\ e \notin Overwritten(id, DOMAIN asked)
      <4>1. e.id # id \/ e.field \notin DOMAIN meta
        BY <3>2 DEF Overwritten, Carries
      <4> QED
        BY <2>2, <2>3, <2>5, <3>2, <4>1 DEF DueInv, InItsRow, HasRowFor
    <3> QED
      BY <2>1, <3>1, <3>2
  <2> QED
    BY <2>5 DEF DueInv, InItsRow, HasRowFor
<1> QED
  BY <1>2, <1>3

\* The enrichment replaces the three columns and leaves the tags.
LEMMA EnrichKeepsDue ==
    ASSUME DueInv, NEW id, NEW asked, UpdateEnrichment(id, Carried(asked, Enrichment))
    PROVE  DueInv'
<1> DEFINE given == Carried(asked, Enrichment)
           row == Enriched(row_tags[id], given)
<1>1. /\ HasRowFor(id) /\ row_tags' = [row_tags EXCEPT ![id] = row]
      /\ due' = (due \ Overwritten(id, DOMAIN given)) \cup Asked(id, given)
  BY DEF UpdateEnrichment
<1>2. DOMAIN given \subseteq Enrichment
  <2>1. DOMAIN given = DOMAIN asked \cap Enrichment
    BY CarriedIs
  <2> HIDE DEF given
  <2> QED
    BY <2>1
<1> HIDE DEF given
<1>3. /\ DOMAIN row = DOMAIN given \cup (DOMAIN row_tags[id] \ Enrichment)
      /\ \A x \in DOMAIN given : row[x] = given[x]
      /\ \A x \in DOMAIN row_tags[id] \ Enrichment : row[x] = row_tags[id][x]
  <2>1. DOMAIN Carried(given, Enrichment) = DOMAIN given
    BY <1>2, CarriedIs
  <2>2. \A x \in DOMAIN given : Carried(given, Enrichment)[x] = given[x]
    BY <1>2, CarriedIs
  <2> DEFINE rest == Restrict(row_tags[id], DOMAIN row_tags[id] \ Enrichment)
  <2>3. /\ DOMAIN rest = DOMAIN row_tags[id] \ Enrichment
        /\ \A x \in DOMAIN rest : rest[x] = row_tags[id][x]
    BY DEF Restrict
  <2> DEFINE set == Carried(given, Enrichment)
  <2>4. row = Over(set, rest) /\ DOMAIN set = DOMAIN given /\ \A x \in DOMAIN given : set[x] = given[x]
    BY <2>1, <2>2 DEF Enriched
  <2> HIDE DEF rest, row, set
  <2>5. \A x \in DOMAIN rest : x \notin DOMAIN given
    BY <1>2, <2>3
  <2>6. /\ DOMAIN Over(set, rest) = DOMAIN set \cup DOMAIN rest
        /\ \A x \in DOMAIN set : Over(set, rest)[x] = set[x]
        /\ \A x \in DOMAIN rest \ DOMAIN set : Over(set, rest)[x] = rest[x]
    BY OverIs
  <2> QED
    BY <2>3, <2>4, <2>5, <2>6
<1> HIDE DEF row
<1>4. /\ DOMAIN row_tags' = DOMAIN row_tags /\ row_tags'[id] = row
      /\ \A other \in DOMAIN row_tags \ {id} : row_tags'[other] = row_tags[other]
  BY <1>1, OneRow
<1>5. ASSUME NEW e \in due', e.field \notin Enrichment
      PROVE  /\ e.id \in DOMAIN row_tags'
             /\ e.field \in Settable \cap DOMAIN row_tags'[e.id]
             /\ row_tags'[e.id][e.field] = e.value
  <2>1. e \in due
    BY <1>1, <1>2, <1>5 DEF Asked
  <2> QED
    BY <1>3, <1>4, <1>5, <2>1 DEF DueInv, InItsRow, HasRowFor
<1> QED
  BY <1>5 DEF DueInv, InItsRow, HasRowFor

\* A scan replaces the tags, and nothing is due of them then.
LEMMA ScanKeepsDue ==
    ASSUME DueInv, NEW id, ScanUpserts(id)
    PROVE  DueInv'
<1>1. PICK row : row_tags' = Insert(row_tags, id, row)
  BY DEF ScanUpserts
<1>2. due' = {e \in due : e.id = id => e.field \in Enrichment}
  BY DEF ScanUpserts
<1>3. /\ DOMAIN row_tags' = DOMAIN row_tags \cup {id}
      /\ \A other \in DOMAIN row_tags \ {id} : row_tags'[other] = row_tags[other]
  BY <1>1 DEF Insert
<1>4. ASSUME NEW e \in due', e.field \notin Enrichment PROVE InItsRow(e)'
  BY <1>2, <1>3, <1>4 DEF DueInv, InItsRow, HasRowFor
<1> QED
  BY <1>4 DEF DueInv

\* The edits whose form has room for what they ask for: the command line
\* takes JSON with a year too, which the request then does not carry.
EditsFit ==
    /\ \A edit \in Edits : edit.kind # "clear" =>
         DOMAIN edit.asked \subseteq Enrichment \cup (IF edit.kind = "flags" THEN Flags ELSE Request)
    /\ \A items \in Batches : \A k \in 1..Len(items) :
         items[k].request # NoRequest => DOMAIN items[k].request \subseteq Enrichment \cup Request
    /\ \A items \in Imports : \A k \in 1..Len(items) :
         DOMAIN items[k].entry \subseteq Flags \cup {"year"}

\* Such a request carries the tags that were asked for.
LEMMA RequestCarries ==
    ASSUME NEW request, NEW asked, DOMAIN asked \subseteq Enrichment \cup Request,
           DOMAIN request \cap Request = DOMAIN asked \cap Request,
           \A x \in DOMAIN asked \cap Request : request[x] = asked[x]
    PROVE  Carries(RequestMeta(request), Plain(asked))
<1>1. /\ DOMAIN RequestMeta(request) = DOMAIN asked \cap Request
      /\ \A x \in DOMAIN asked \cap Request : RequestMeta(request)[x] = asked[x]
  <2>1. /\ DOMAIN Carried(request, Request) = DOMAIN request \cap Request
        /\ \A x \in DOMAIN request \cap Request : Carried(request, Request)[x] = request[x]
    BY CarriedIs
  <2> QED
    BY <2>1 DEF RequestMeta
<1>2. /\ DOMAIN Plain(asked) = DOMAIN asked \ Enrichment
      /\ \A x \in DOMAIN asked \ Enrichment : Plain(asked)[x] = asked[x]
  BY DEF Plain, Restrict
<1>3. DOMAIN asked \ Enrichment = DOMAIN asked \cap Request
  BY FieldSets
<1> QED
  BY <1>1, <1>2, <1>3 DEF Carries

\* So do the edits, by whatever way they come.
LEMMA EditCarries ==
    ASSUME EditsFit, NEW edit \in Edits, edit.kind # "clear"
    PROVE  Carries(RequestMeta(RequestOf(edit)), Plain(edit.asked))
<1> DEFINE asked == edit.asked
           request == RequestOf(edit)
<1>1. edit.kind \in {"flags", "json", "rpc"}
  BY TagAssumption
<1>2. DOMAIN asked \subseteq Enrichment \cup Request
  BY FieldSets DEF EditsFit
<1>3. /\ DOMAIN request \cap Request = DOMAIN asked \cap Request
      /\ \A x \in DOMAIN asked \cap Request : request[x] = asked[x]
  <2>1. CASE edit.kind = "flags"
    <3>1. request = Carried(asked, Flags)
      BY <2>1 DEF RequestOf, SetFlags
    <3>2. DOMAIN asked \cap Request = DOMAIN asked \cap Flags
      BY <2>1, FieldSets DEF EditsFit
    <3> HIDE DEF asked, request
    <3>3. /\ DOMAIN Carried(asked, Flags) = DOMAIN asked \cap Flags
          /\ \A x \in DOMAIN asked \cap Flags : Carried(asked, Flags)[x] = asked[x]
      BY CarriedIs
    <3> QED
      BY <3>1, <3>2, <3>3, FieldSets
  <2>2. CASE edit.kind = "json"
    <3> DEFINE fields == Request \cup {"custom_tags"}
    <3>1. request = Carried(asked, fields)
      BY <2>2 DEF RequestOf, SetJson
    <3> HIDE DEF asked, request
    <3>2. /\ DOMAIN Carried(asked, fields) = DOMAIN asked \cap fields
          /\ \A x \in DOMAIN asked \cap fields : Carried(asked, fields)[x] = asked[x]
      BY CarriedIs
    <3> QED
      BY <3>1, <3>2
  <2>3. CASE edit.kind = "rpc"
    BY <2>3 DEF RequestOf
  <2> QED
    BY <1>1, <2>1, <2>2, <2>3
<1> QED
  BY <1>2, <1>3, RequestCarries

\* And the entries of an import.
LEMMA ImportCarries ==
    ASSUME NEW entry, DOMAIN entry \subseteq Flags \cup {"year"}
    PROVE  Carries(ImportMeta(entry), entry)
<1>1. /\ DOMAIN ImportMeta(entry) = DOMAIN entry \cap (Flags \cup {"year"})
      /\ \A x \in DOMAIN entry \cap (Flags \cup {"year"}) : ImportMeta(entry)[x] = entry[x]
  BY CarriedIs DEF ImportMeta
<1> QED
  BY <1>1, FieldSets DEF Carries

\* A user stays at the edit it has begun.
LEMMA UserStep ==
    ASSUME UserOK, [TagNext]_tagVars
    PROVE  UserOK'
<1>1. ASSUME NEW u \in Users, NEW where, NextOf(u, where),
             \/ where.pc \in {"idle", "refused", "done"}
             \/ where \in [pc : {"edit", "enrich"}, id : FileIds, edit : Edits]
      PROVE  UserOK'
  BY <1>1 DEF UserOK, NextOf
<1>2. ASSUME NEW u \in Users, NEW id \in FileIds, NEW edit \in Edits,
             LookUp(u, id, edit) \/ Push(u, id, edit)
      PROVE  UserOK'
  BY <1>1, <1>2 DEF LookUp, Push
<1>3. ASSUME NEW u \in Users, Update(u) \/ Enrich(u) \/ ClearOverlay(u)
      PROVE  UserOK'
  <2>1. user[u].pc = "edit" => [user[u] EXCEPT !.pc = "enrich"] \in
          [pc : {"edit", "enrich"}, id : FileIds, edit : Edits]
    BY DEF UserOK
  <2>2. \/ NextOf(u, [pc |-> "done"]) \/ NextOf(u, [pc |-> "refused"])
        \/ user[u].pc = "edit" /\ NextOf(u, [user[u] EXCEPT !.pc = "enrich"])
    BY <1>3 DEF Update, Enrich, ClearOverlay
  <2> QED
    BY <1>1, <2>1, <2>2
<1>4. \/ \E u \in Users :
           \/ \E id \in FileIds, edit \in Edits : LookUp(u, id, edit) \/ Push(u, id, edit)
           \/ Update(u) \/ Enrich(u) \/ ClearOverlay(u)
      \/ user' = user
  BY DEF TagNext, ScanUpserts, Begin, BeginsBadly, BatchItem, BatchEnrich, ImportFinds,
         ImportUpdates, Quiet, Send, AllItemsDone, Receive, Leave, tagVars
<1> QED
  BY <1>2, <1>3, <1>4 DEF UserOK

\* Every step keeps what is due.
LEMMA DueStep ==
    ASSUME EditsFit, DueInv, UserOK, TaskOK, [TagNext]_tagVars
    PROVE  DueInv'
<1>1. ASSUME NEW u \in Users, Update(u)
      PROVE  DueInv'
  <2> DEFINE edit == user[u].edit
  <2>1. edit \in Edits /\ edit.kind # "clear"
    BY <1>1 DEF Update, UserOK
  <2>2. \/ UpdateMetadata(user[u].id, RequestMeta(RequestOf(edit)), Plain(edit.asked))
        \/ UpdateFails(user[u].id, RequestMeta(RequestOf(edit)))
    BY <1>1 DEF Update
  <2> HIDE DEF edit
  <2>3. Carries(RequestMeta(RequestOf(edit)), Plain(edit.asked))
    BY <2>1, EditCarries
  <2>4. CASE UpdateFails(user[u].id, RequestMeta(RequestOf(edit)))
    BY <2>4 DEF UpdateFails, DueInv, InItsRow, HasRowFor
  <2> QED
    BY <2>2, <2>3, <2>4, UpdateKeepsDue
<1>2. ASSUME NEW u \in Users, Enrich(u)
      PROVE  DueInv'
  <2>1. CASE UpdateEnrichment(user[u].id, Carried(user[u].edit.asked, Enrichment))
    BY <2>1, EnrichKeepsDue
  <2>2. CASE EnrichmentFails(user[u].id)
    BY <2>2 DEF EnrichmentFails, DueInv, InItsRow, HasRowFor
  <2> QED
    BY <1>2, <2>1, <2>2 DEF Enrich
<1>3. ASSUME NEW u \in Users, ClearOverlay(u)
      PROVE  DueInv'
  <2>1. CASE UNCHANGED <<row_tags, due>>
    BY <2>1 DEF DueInv, InItsRow, HasRowFor
  <2>2. CASE ~UNCHANGED <<row_tags, due>>
    <3>1. /\ HasRowFor(user[u].id)
          /\ row_tags' = [row_tags EXCEPT ![user[u].id] = EmptyMap]
          /\ due' = {e \in due : e.id # user[u].id}
      BY <1>3, <2>2 DEF ClearOverlay
    <3> QED
      BY <3>1 DEF DueInv, InItsRow, HasRowFor
  <2> QED
    BY <2>1, <2>2
<1>4. ASSUME NEW id, ScanUpserts(id)
      PROVE  DueInv'
  BY <1>4, ScanKeepsDue
<1>5. CASE BatchItem
  <2>1. CASE UNCHANGED <<row_tags, due>>
    BY <2>1 DEF DueInv, InItsRow, HasRowFor
  <2>2. CASE ~UNCHANGED <<row_tags, due>>
    <3>1. /\ Item.request # NoRequest
          /\ UpdateMetadata(Item.id, RequestMeta(Item.request), Plain(Item.request))
      BY <1>5, <2>2 DEF BatchItem, UpdateFails
    <3>2. task.items \in Batches /\ task.k \in 1..Len(task.items)
      BY <1>5 DEF BatchItem, TaskOK, TasksOf, HasItem
    <3>3. DOMAIN Item.request \subseteq Enrichment \cup Request
      BY <3>1, <3>2 DEF EditsFit, Item
    <3>4. Carries(RequestMeta(Item.request), Plain(Item.request))
      BY <3>3, RequestCarries
    <3> QED
      BY <3>1, <3>4, UpdateKeepsDue
  <2> QED
    BY <2>1, <2>2
<1>6. CASE BatchEnrich
  <2>1. CASE UpdateEnrichment(Item.id, Carried(Item.request, Enrichment))
    BY <2>1, EnrichKeepsDue
  <2>2. CASE EnrichmentFails(Item.id)
    BY <2>2 DEF EnrichmentFails, DueInv, InItsRow, HasRowFor
  <2> QED
    BY <1>6, <2>1, <2>2 DEF BatchEnrich
<1>7. CASE ImportUpdates
  <2>1. CASE UpdateFails(Item.id, ImportMeta(Item.entry))
    BY <2>1 DEF UpdateFails, DueInv, InItsRow, HasRowFor
  <2>2. CASE UpdateMetadata(Item.id, ImportMeta(Item.entry), Item.entry)
    <3>1. task.items \in Imports /\ task.k \in 1..Len(task.items)
      BY <1>7 DEF ImportUpdates, TaskOK, TasksOf, HasItem
    <3>2. Carries(ImportMeta(Item.entry), Item.entry)
      BY <3>1, ImportCarries DEF EditsFit, Item
    <3> QED
      BY <2>2, <3>2, UpdateKeepsDue
  <2> QED
    BY <1>7, <2>1, <2>2 DEF ImportUpdates
<1>8. CASE UNCHANGED <<row_tags, due>>
  BY <1>8 DEF DueInv, InItsRow, HasRowFor
<1>9. ASSUME \/ \E u \in Users, id \in FileIds, edit \in Edits :
                  LookUp(u, id, edit) \/ Push(u, id, edit)
             \/ \E items \in Batches : Begin("batch", items)
             \/ \E items \in Imports : Begin("import", items)
             \/ BeginsBadly \/ ImportFinds \/ Send \/ AllItemsDone \/ Receive \/ Leave
             \/ UNCHANGED tagVars
      PROVE  UNCHANGED <<row_tags, due>>
  BY <1>9 DEF LookUp, Push, Begin, BeginsBadly, ImportFinds, Send, AllItemsDone, Receive, Leave,
              tagVars
<1> QED
  BY <1>1, <1>2, <1>3, <1>4, <1>5, <1>6, <1>7, <1>8, <1>9 DEF TagNext

\* Edits that fit their form show: what was asked for of the tags and
\* answered with success is in the row, and printed, until it is edited or
\* cleared or the file is scanned, however users, batches, imports and scans
\* interleave.  (Of label, album_type and cover_url this is not so.)
THEOREM EditsThatFitShow ==
    ASSUME EditsFit
    PROVE  TagSpec => []EditsShow
<1>1. TagInit => DueInv /\ UserOK
  BY DEF TagInit, DueInv, UserOK
<1>2. DueInv /\ UserOK /\ TaskInv /\ [TagNext]_tagVars => (DueInv /\ UserOK)'
  BY DueStep, UserStep DEF TaskInv
<1>3. DueInv => EditsShow
  <2> SUFFICES ASSUME DueInv, NEW e \in due, e.field \notin Enrichment
               PROVE  HasRowFor(e.id) /\ FieldValue(Shown(row_tags[e.id]), e.field) = e.value
    BY DEF EditsShow
  <2> DEFINE row == row_tags[e.id]
             known == AudioMeta \ {"sample_rate"}
             meta == MetadataRow(row)
             answer == Response(meta)
  <2>1. HasRowFor(e.id) /\ e.field \in Settable \cap DOMAIN row /\ row[e.field] = e.value
    BY DEF DueInv, InItsRow
  <2> HIDE DEF row
  <2>2. e.field \in known /\ e.field \in AudioMeta
    BY <2>1, FieldSets DEF Settable
  <2>3. e.field \in DOMAIN meta /\ meta[e.field] = e.value
    BY <2>1, <2>2, CarriedField DEF MetadataRow
  <2> HIDE DEF meta
  <2>4. e.field \in DOMAIN answer /\ answer[e.field] = e.value
    BY <2>2, <2>3, CarriedField DEF Response
  <2> HIDE DEF answer
  <2>5. e.field \in DOMAIN Printed(answer) /\ Printed(answer)[e.field] = e.value
    BY <2>2, <2>4, CarriedField DEF Printed
  <2>6. Shown(row) = Printed(answer)
    BY DEF Shown, answer, meta
  <2>7. FieldValue(Shown(row), e.field) = e.value
    BY <2>5, <2>6 DEF FieldValue
  <2> QED
    BY <2>1, <2>7 DEF row
<1> QED
  BY <1>1, <1>2, <1>3, TaskInvariance, PTL DEF TagSpec

----------------------------------------------------------------------------
(* Headers.                                                                *)

\* The names of comments and frames that are no fields, and those that are.
LEMMA HeaderNames ==
    /\ {"year", "date", "track", "disc", "track_total", "disc_total"} \subseteq InHeader
    /\ \A n \in {"DATE", "TDRC", "TRCK", "TPOS"} : n \notin InHeader
    /\ InHeader \subseteq AudioMeta
    /\ Totals = {"track_total", "disc_total"} /\ Counts = {"track", "disc"}
BY DEF InHeader, AudioMeta, Request, Flags, Basic, Counts, Totals, Texts, Sorts, MusicBrainz,
       MusicBrainzGroups, ReplayGain, Stream

\* Tags that go into a header.
IsHeaderTags(tags) ==
    /\ DOMAIN tags \subseteq InHeader
    /\ "year" \in DOMAIN tags => tags["year"] # Garbled

\* What the year adds to tags that have none.
LEMMA WithYear ==
    ASSUME NEW tags, "year" \notin DOMAIN tags
    PROVE  /\ \A x \in DOMAIN tags :
                x \in DOMAIN Over(Year(tags), tags) /\ Over(Year(tags), tags)[x] = tags[x]
           /\ "date" \in DOMAIN tags /\ tags["date"] # Garbled =>
                /\ "year" \in DOMAIN Over(Year(tags), tags)
                /\ Over(Year(tags), tags)["year"] = tags["date"]
<1>1. DOMAIN Year(tags) \subseteq {"year"}
  BY DEF Year, Single, EmptyMap
<1>2. \A x \in DOMAIN tags : x \notin DOMAIN Year(tags)
  BY <1>1
<1>3. "date" \in DOMAIN tags /\ tags["date"] # Garbled =>
        "year" \in DOMAIN Year(tags) /\ Year(tags)["year"] = tags["date"]
  BY DEF Year, Single
<1>4. /\ DOMAIN Over(Year(tags), tags) = DOMAIN Year(tags) \cup DOMAIN tags
      /\ \A x \in DOMAIN Year(tags) : Over(Year(tags), tags)[x] = Year(tags)[x]
      /\ \A x \in DOMAIN tags \ DOMAIN Year(tags) : Over(Year(tags), tags)[x] = tags[x]
  BY OverIs
<1> QED
  BY <1>2, <1>3, <1>4

\* A reader of the comments of FLAC and Opus finds the tags they are made of.
LEMMA VorbisTells ==
    ASSUME NEW tags, IsHeaderTags(tags), NEW f \in DOMAIN tags,
           ~(f = "year" /\ "date" \in DOMAIN tags)
    PROVE  FieldValue(FromVorbisComments(VorbisComments(tags)), f) = tags[f]
<1> DEFINE comments == VorbisComments(tags)
           date == IF "DATE" \in DOMAIN comments THEN Single("date", comments["DATE"]) ELSE EmptyMap
           carried == Carried(comments, InHeader \ {"year"})
           inner == Over(carried, date)
<1>1. FromVorbisComments(comments) = Over(Year(inner), inner)
  BY DEF FromVorbisComments
<1>2. DOMAIN tags \cap InHeader = DOMAIN tags
  BY DEF IsHeaderTags
<1>3. /\ DOMAIN comments = {VorbisName(x) : x \in DOMAIN tags}
      /\ \A n \in DOMAIN comments : comments[n] = IF n = "DATE" THEN Dated(tags) ELSE tags[n]
  BY <1>2 DEF VorbisComments
<1> HIDE DEF comments
<1>4. "date" \notin DOMAIN comments
  BY <1>3 DEF VorbisName
<1>5. /\ DOMAIN carried = DOMAIN comments \cap (InHeader \ {"year"})
      /\ \A n \in DOMAIN comments \cap (InHeader \ {"year"}) : carried[n] = comments[n]
  BY CarriedIs
<1>7. DOMAIN date \subseteq {"date"}
  BY DEF Single, EmptyMap
<1>8. "DATE" \in DOMAIN comments => DOMAIN date = {"date"} /\ date["date"] = comments["DATE"]
  BY DEF Single
<1> HIDE DEF date, carried
<1>6. /\ DOMAIN inner = DOMAIN carried \cup DOMAIN date
      /\ \A n \in DOMAIN carried : inner[n] = carried[n]
      /\ \A n \in DOMAIN date \ DOMAIN carried : inner[n] = date[n]
  BY OverIs
<1> HIDE DEF inner
<1>9. "year" \notin DOMAIN inner
  BY <1>5, <1>6, <1>7
<1>10. /\ \A n \in DOMAIN inner :
            n \in DOMAIN Over(Year(inner), inner) /\ Over(Year(inner), inner)[n] = inner[n]
       /\ "date" \in DOMAIN inner /\ inner["date"] # Garbled =>
            /\ "year" \in DOMAIN Over(Year(inner), inner)
            /\ Over(Year(inner), inner)["year"] = inner["date"]
  BY <1>9, WithYear
<1>11. CASE f \in {"year", "date"}
  <2>1. "DATE" \in DOMAIN comments
    BY <1>3, <1>11 DEF VorbisName
  <2>2. comments["DATE"] = tags[f]
    BY <1>3, <1>11, <2>1 DEF Dated
  <2>3. "date" \in DOMAIN inner /\ inner["date"] = tags[f]
    BY <1>4, <1>5, <1>6, <1>8, <2>1, <2>2
  <2> QED
    BY <1>1, <1>10, <1>11, <2>3 DEF FieldValue, IsHeaderTags, comments
<1>12. CASE f \notin {"year", "date"}
  <2>1. f \in DOMAIN comments /\ f \in InHeader
    BY <1>2, <1>3, <1>12 DEF VorbisName
  <2>2. comments[f] = tags[f]
    BY <1>3, <2>1, HeaderNames
  <2>3. f \in DOMAIN inner /\ inner[f] = tags[f]
    BY <1>5, <1>6, <1>12, <2>1, <2>2
  <2> QED
    BY <1>1, <1>10, <2>3 DEF FieldValue, comments
<1> QED
  BY <1>11, <1>12

\* "3/12" or "3", read again.
LEMMA NumbersTell ==
    ASSUME NEW tags, NEW tag, NEW n, NEW f, NEW total,
           n \in DOMAIN tag, tag[n] = NumberOf(tags, f, total)
    PROVE  Numbers(tag, n, f, total) =
             Over(Single(f, tags[f]),
                  IF total \in DOMAIN tags THEN Single(total, tags[total]) ELSE EmptyMap)
<1>1. CASE total \in DOMAIN tags
  <2> DEFINE S == {tags[f], tags[total]}
             one == <<tags[f]>>
             two == <<tags[total]>>
  <2>1. /\ one \in Seq(S) /\ two \in Seq(S) /\ Len(one) = 1 /\ Len(two) = 1
        /\ one[1] = tags[f] /\ two[1] = tags[total]
    OBVIOUS
  <2>2. tag[n] = one \o two
    BY <1>1 DEF NumberOf
  <2> HIDE DEF S, one, two
  <2>3. /\ Len(one \o two) = Len(one) + Len(two)
        /\ \A k \in 1..Len(one) + Len(two) :
             (one \o two)[k] = IF k <= Len(one) THEN one[k] ELSE two[k - Len(one)]
    BY <2>1, ConcatProperties
  <2>4. Len(tag[n]) = 2 /\ tag[n][1] = tags[f] /\ tag[n][2] = tags[total]
    BY <2>1, <2>2, <2>3
  <2> QED
    BY <1>1, <2>4 DEF Numbers
<1>2. CASE total \notin DOMAIN tags
  <2>1. tag[n] = <<tags[f]>>
    BY <1>2 DEF NumberOf
  <2>2. Len(tag[n]) = 1 /\ tag[n][1] = tags[f]
    BY <2>1
  <2> QED
    BY <1>2, <2>2 DEF Numbers
<1> QED
  BY <1>1, <1>2

\* A reader of an ID3 tag finds the tags it is made of, but for a total
\* without its number.
LEMMA Id3Tells ==
    ASSUME NEW tags, IsHeaderTags(tags), NEW f \in DOMAIN tags,
           ~(f = "year" /\ "date" \in DOMAIN tags),
           ~(f = "track_total" /\ "track" \notin DOMAIN tags),
           ~(f = "disc_total" /\ "disc" \notin DOMAIN tags)
    PROVE  FieldValue(FromId3Tag(Id3Tag(tags)), f) = tags[f]
<1> DEFINE tag == Id3Tag(tags)
           apart == {"track", "disc", "track_total", "disc_total", "year"}
           carried == Carried(tag, InHeader \ apart)
           tracks == Numbers(tag, "TRCK", "track", "track_total")
           discs == Numbers(tag, "TPOS", "disc", "disc_total")
           numbers == Over(tracks, discs)
           date == IF "TDRC" \in DOMAIN tag THEN Single("date", tag["TDRC"]) ELSE EmptyMap
           rest == Over(numbers, date)
           inner == Over(carried, rest)
<1>1. FromId3Tag(tag) = Over(Year(inner), inner)
  <2>1. InHeader \ (Counts \cup Totals \cup {"year"}) = InHeader \ apart
    BY HeaderNames
  <2> QED
    BY <2>1 DEF FromId3Tag
<1>2. DOMAIN tags \cap InHeader = DOMAIN tags
  BY DEF IsHeaderTags
<1>3. /\ DOMAIN tag = {FrameName(x) : x \in DOMAIN tags \ Totals}
      /\ \A n \in DOMAIN tag :
            tag[n] = CASE n = "TDRC" -> Dated(tags)
                       [] n = "TRCK" -> NumberOf(tags, "track", "track_total")
                       [] n = "TPOS" -> NumberOf(tags, "disc", "disc_total")
                       [] OTHER -> tags[n]
  BY <1>2 DEF Id3Tag
<1> HIDE DEF tag
<1>4. {"date", "year", "track", "disc", "track_total", "disc_total"} \cap DOMAIN tag = {}
  BY <1>3, HeaderNames DEF FrameName
<1>5. /\ "TRCK" \in DOMAIN tag <=> "track" \in DOMAIN tags
      /\ "TPOS" \in DOMAIN tag <=> "disc" \in DOMAIN tags
  BY <1>2, <1>3, HeaderNames DEF FrameName
<1>6. /\ "TRCK" \in DOMAIN tag => tag["TRCK"] = NumberOf(tags, "track", "track_total")
      /\ "TPOS" \in DOMAIN tag => tag["TPOS"] = NumberOf(tags, "disc", "disc_total")
  BY <1>3
<1>7. /\ "track" \in DOMAIN tags =>
           /\ DOMAIN tracks = {"track"} \cup (DOMAIN tags \cap {"track_total"})
           /\ tracks["track"] = tags["track"]
           /\ "track_total" \in DOMAIN tags => tracks["track_total"] = tags["track_total"]
      /\ "track" \notin DOMAIN tags => DOMAIN tracks = {}
  <2>1. CASE "track" \in DOMAIN tags
    <3>1. "TRCK" \in DOMAIN tag /\ tag["TRCK"] = NumberOf(tags, "track", "track_total")
      BY <1>5, <1>6, <2>1
    <3>2. tracks = Over(Single("track", tags["track"]),
                       IF "track_total" \in DOMAIN tags
                       THEN Single("track_total", tags["track_total"]) ELSE EmptyMap)
      BY <3>1, NumbersTell
    <3> HIDE DEF tracks
    <3>3. /\ DOMAIN tracks = {"track"} \cup (DOMAIN tags \cap {"track_total"})
          /\ tracks["track"] = tags["track"]
          /\ "track_total" \in DOMAIN tags => tracks["track_total"] = tags["track_total"]
      BY <3>2 DEF Over, Single, EmptyMap
    <3> QED
      BY <2>1, <3>3
  <2>2. CASE "track" \notin DOMAIN tags
    BY <1>5, <2>2 DEF Numbers, EmptyMap
  <2> QED
    BY <2>1, <2>2
<1>8. /\ "disc" \in DOMAIN tags =>
           /\ DOMAIN discs = {"disc"} \cup (DOMAIN tags \cap {"disc_total"})
           /\ discs["disc"] = tags["disc"]
           /\ "disc_total" \in DOMAIN tags => discs["disc_total"] = tags["disc_total"]
      /\ "disc" \notin DOMAIN tags => DOMAIN discs = {}
  <2>1. CASE "disc" \in DOMAIN tags
    <3>1. "TPOS" \in DOMAIN tag /\ tag["TPOS"] = NumberOf(tags, "disc", "disc_total")
      BY <1>5, <1>6, <2>1
    <3>2. discs = Over(Single("disc", tags["disc"]),
                       IF "disc_total" \in DOMAIN tags
                       THEN Single("disc_total", tags["disc_total"]) ELSE EmptyMap)
      BY <3>1, NumbersTell
    <3> HIDE DEF discs
    <3>3. /\ DOMAIN discs = {"disc"} \cup (DOMAIN tags \cap {"disc_total"})
          /\ discs["disc"] = tags["disc"]
          /\ "disc_total" \in DOMAIN tags => discs["disc_total"] = tags["disc_total"]
      BY <3>2 DEF Over, Single, EmptyMap
    <3> QED
      BY <2>1, <3>3
  <2>2. CASE "disc" \notin DOMAIN tags
    BY <1>5, <2>2 DEF Numbers, EmptyMap
  <2> QED
    BY <2>1, <2>2
<1>9. /\ DOMAIN date \subseteq {"date"}
      /\ "TDRC" \in DOMAIN tag => DOMAIN date = {"date"} /\ date["date"] = tag["TDRC"]
  BY DEF Single, EmptyMap
<1>10. /\ DOMAIN carried = DOMAIN tag \cap (InHeader \ apart)
       /\ \A n \in DOMAIN tag \cap (InHeader \ apart) : carried[n] = tag[n]
  BY CarriedIs
<1> HIDE DEF tracks, discs, date, carried
<1>11. /\ DOMAIN numbers = DOMAIN tracks \cup DOMAIN discs
       /\ \A n \in DOMAIN tracks : numbers[n] = tracks[n]
       /\ \A n \in DOMAIN discs \ DOMAIN tracks : numbers[n] = discs[n]
  BY OverIs
<1> HIDE DEF numbers
<1>12. /\ DOMAIN rest = DOMAIN numbers \cup DOMAIN date
       /\ \A n \in DOMAIN numbers : rest[n] = numbers[n]
       /\ \A n \in DOMAIN date \ DOMAIN numbers : rest[n] = date[n]
  BY OverIs
<1> HIDE DEF rest
<1>13. /\ DOMAIN inner = DOMAIN carried \cup DOMAIN rest
       /\ \A n \in DOMAIN carried : inner[n] = carried[n]
       /\ \A n \in DOMAIN rest \ DOMAIN carried : inner[n] = rest[n]
  BY OverIs
<1> HIDE DEF inner
<1>14. /\ DOMAIN tracks \subseteq {"track", "track_total"}
       /\ DOMAIN discs \subseteq {"disc", "disc_total"}
  BY <1>7, <1>8
<1>15. DOMAIN carried \cap (apart \cup {"date"}) = {}
  BY <1>4, <1>10
<1>16. "year" \notin DOMAIN inner
  BY <1>9, <1>11, <1>12, <1>13, <1>14, <1>15
<1>17. /\ \A n \in DOMAIN inner :
            n \in DOMAIN Over(Year(inner), inner) /\ Over(Year(inner), inner)[n] = inner[n]
       /\ "date" \in DOMAIN inner /\ inner["date"] # Garbled =>
            /\ "year" \in DOMAIN Over(Year(inner), inner)
            /\ Over(Year(inner), inner)["year"] = inner["date"]
  BY <1>16, WithYear
<1>18. CASE f \in {"year", "date"}
  <2>1. "TDRC" \in DOMAIN tag
    BY <1>3, <1>18, HeaderNames DEF FrameName
  <2>2. tag["TDRC"] = tags[f]
    BY <1>3, <1>18, <2>1 DEF Dated
  <2>3. "date" \in DOMAIN inner /\ inner["date"] = tags[f]
    BY <1>9, <1>11, <1>12, <1>13, <1>14, <1>15, <2>1, <2>2
  <2> QED
    BY <1>1, <1>17, <1>18, <2>3 DEF FieldValue, IsHeaderTags, tag
<1>19. CASE f \in {"track", "track_total"}
  <2>1. f \in DOMAIN tracks /\ tracks[f] = tags[f]
    BY <1>7, <1>19
  <2>2. f \in DOMAIN inner /\ inner[f] = tags[f]
    BY <1>11, <1>12, <1>13, <1>15, <1>19, <2>1
  <2> QED
    BY <1>1, <1>17, <2>2 DEF FieldValue, tag
<1>20. CASE f \in {"disc", "disc_total"}
  <2>1. f \in DOMAIN discs /\ discs[f] = tags[f]
    BY <1>8, <1>20
  <2>2. f \in DOMAIN inner /\ inner[f] = tags[f]
    BY <1>11, <1>12, <1>13, <1>14, <1>15, <1>20, <2>1
  <2> QED
    BY <1>1, <1>17, <2>2 DEF FieldValue, tag
<1>21. CASE f \notin apart \cup {"date"}
  <2>1. f \in DOMAIN tag /\ f \in InHeader \ apart
    BY <1>2, <1>3, <1>21, HeaderNames DEF FrameName
  <2>2. tag[f] = tags[f]
    BY <1>3, <2>1, HeaderNames
  <2>3. f \in DOMAIN inner /\ inner[f] = tags[f]
    BY <1>10, <1>13, <2>1, <2>2
  <2> QED
    BY <1>1, <1>17, <2>3 DEF FieldValue, tag
<1> QED
  BY <1>18, <1>19, <1>20, <1>21

\* A map whose year, if it has one, is a number.
GoodYear(tags) == "year" \in DOMAIN tags => tags["year"] # Garbled

\* The conversions keep it one.
LEMMA GoodYears ==
    /\ \A tags, fields : GoodYear(tags) => GoodYear(Carried(tags, fields))
    /\ \A tags, fields : "year" \notin fields => GoodYear(Carried(tags, fields))
    /\ \A upper, lower : GoodYear(upper) /\ GoodYear(lower) => GoodYear(Over(upper, lower))
    /\ \A tags : GoodYear(Year(tags))
BY DEF GoodYear, Carried, Restrict, Over, Year, Single, EmptyMap

\* What the parser makes of a file has a year only from its date.
LEMMA ParsedYear ==
    ASSUME NEW contents
    PROVE  GoodYear(Parsed(contents))
<1> DEFINE stream == [x \in StreamFields(contents.params) \cup {"format"} |-> contents.stream]
           tags == Carried(contents.raw, AudioMeta \ (Stream \cup {"year", "sample_rate", "format"}))
<1>1. GoodYear(stream)
  BY DEF GoodYear, StreamFields
<1>2. GoodYear(tags)
  BY GoodYears
<1>3. Parsed(contents) = Over(stream, Over(Year(tags), tags))
  BY DEF Parsed, Extracted
<1> HIDE DEF stream, tags
<1> QED
  BY <1>1, <1>2, <1>3, GoodYears

\* The year of a row is a number: it is a date's, or an import's.
LEMMA YearsStep ==
    ASSUME YearsAreNumbers, TaskOK, [TagNext]_tagVars
    PROVE  YearsAreNumbers'
<1>0. \A id \in DOMAIN row_tags : GoodYear(row_tags[id])
  BY DEF YearsAreNumbers, GoodYear
<1> SUFFICES \A id \in DOMAIN row_tags' : GoodYear(row_tags'[id])
  BY DEF YearsAreNumbers, GoodYear
<1>1. ASSUME NEW id, HasRowFor(id), NEW row, GoodYear(row),
             row_tags' = [row_tags EXCEPT ![id] = row]
      PROVE  \A other \in DOMAIN row_tags' : GoodYear(row_tags'[other])
  BY <1>0, <1>1, OneRow
<1>2. ASSUME NEW id, NEW meta, NEW asked, UpdateMetadata(id, meta, asked), GoodYear(meta)
      PROVE  \A other \in DOMAIN row_tags' : GoodYear(row_tags'[other])
  <2>1. CASE row_tags' = row_tags
    BY <1>0, <2>1
  <2>2. CASE row_tags' # row_tags
    <3>1. HasRowFor(id) /\ row_tags' = [row_tags EXCEPT ![id] = Updated(row_tags[id], meta)]
      BY <1>2, <2>2 DEF UpdateMetadata
    <3>2. GoodYear(Carried(meta, Columns)) /\ GoodYear(row_tags[id])
      BY <1>0, <1>2, <3>1, GoodYears DEF HasRowFor
    <3>3. GoodYear(Updated(row_tags[id], meta))
      BY <3>2, GoodYears DEF Updated
    <3> QED
      BY <1>1, <3>1, <3>3
  <2> QED
    BY <2>1, <2>2
<1>3. ASSUME NEW id, NEW given, UpdateEnrichment(id, given)
      PROVE  \A other \in DOMAIN row_tags' : GoodYear(row_tags'[other])
  <2> DEFINE rest == Restrict(row_tags[id], DOMAIN row_tags[id] \ Enrichment)
  <2>1. HasRowFor(id) /\ row_tags' = [row_tags EXCEPT ![id] = Enriched(row_tags[id], given)]
    BY <1>3 DEF UpdateEnrichment
  <2>2. GoodYear(Carried(given, Enrichment))
    <3>1. "year" \notin Enrichment
      BY DEF Enrichment
    <3> QED
      BY <3>1, GoodYears
  <2>3. GoodYear(rest)
    BY <1>0, <2>1 DEF GoodYear, Restrict, HasRowFor
  <2> HIDE DEF rest
  <2>4. GoodYear(Over(Carried(given, Enrichment), rest))
    BY <2>2, <2>3, GoodYears
  <2>5. GoodYear(Enriched(row_tags[id], given))
    BY <2>4 DEF Enriched, rest
  <2> QED
    BY <1>1, <2>1, <2>5
<1>4. ASSUME NEW id, ScanUpserts(id)
      PROVE  \A other \in DOMAIN row_tags' : GoodYear(row_tags'[other])
  <2> DEFINE old == IF HasRowFor(id) THEN row_tags[id] ELSE EmptyMap
             new == Parsed(FileTags[id])
             row == Upserted(old, new)
  <2>1. row_tags' = Insert(row_tags, id, row)
    BY <1>4 DEF ScanUpserts
  <2>2. GoodYear(old)
    BY <1>0 DEF GoodYear, HasRowFor, EmptyMap
  <2>3. GoodYear(new)
    BY ParsedYear
  <2> HIDE DEF old, new
  <2>4. GoodYear(Carried(old, Enrichment)) /\ GoodYear(Carried(new, AudioMeta))
    BY <2>2, <2>3, GoodYears
  <2>5. GoodYear(row)
    BY <2>4, GoodYears DEF Upserted
  <2> HIDE DEF row
  <2> QED
    BY <1>0, <2>1, <2>5 DEF Insert
<1>5. ASSUME NEW request
      PROVE  GoodYear(RequestMeta(request))
  <2>1. "year" \notin Request
    BY FieldSets
  <2> QED
    BY <2>1, GoodYears DEF RequestMeta
<1>6. CASE ImportUpdates
  <2>1. task.items \in Imports /\ task.k \in 1..Len(task.items)
    BY <1>6 DEF ImportUpdates, TaskOK, TasksOf, HasItem
  <2>2. GoodYear(Item.entry)
    BY <2>1, TagAssumption DEF GoodYear, Item
  <2>3. GoodYear(ImportMeta(Item.entry))
    BY <2>2, GoodYears DEF ImportMeta
  <2> QED
    BY <1>0, <1>2, <1>6, <2>3 DEF ImportUpdates, UpdateFails
<1>7. CASE row_tags' = row_tags
  BY <1>0, <1>7
<1>8. ASSUME NEW u \in Users, Update(u) \/ Enrich(u) \/ ClearOverlay(u), row_tags' # row_tags
      PROVE  \A other \in DOMAIN row_tags' : GoodYear(row_tags'[other])
  <2>1. \/ \E request : UpdateMetadata(user[u].id, RequestMeta(request), Plain(user[u].edit.asked))
        \/ \E given : UpdateEnrichment(user[u].id, given)
        \/ HasRowFor(user[u].id) /\ row_tags' = [row_tags EXCEPT ![user[u].id] = EmptyMap]
    BY <1>8 DEF Update, Enrich, ClearOverlay, UpdateFails, EnrichmentFails
  <2>2. GoodYear(EmptyMap)
    BY DEF GoodYear, EmptyMap
  <2> QED
    BY <1>1, <1>2, <1>3, <1>5, <2>1, <2>2
<1>9. CASE (BatchItem \/ BatchEnrich) /\ row_tags' # row_tags
  <2>1. \/ UpdateMetadata(Item.id, RequestMeta(Item.request), Plain(Item.request))
        \/ \E given : UpdateEnrichment(Item.id, given)
    BY <1>9 DEF BatchItem, BatchEnrich, UpdateFails, EnrichmentFails
  <2> QED
    BY <1>2, <1>3, <1>5, <2>1
<1>10. ASSUME \/ \E u \in Users, id \in FileIds, edit \in Edits :
                   LookUp(u, id, edit) \/ Push(u, id, edit)
              \/ \E items \in Batches : Begin("batch", items)
              \/ \E items \in Imports : Begin("import", items)
              \/ BeginsBadly \/ ImportFinds \/ Send \/ AllItemsDone \/ Receive \/ Leave
              \/ UNCHANGED tagVars
       PROVE  row_tags' = row_tags
  BY <1>10 DEF LookUp, Push, Begin, BeginsBadly, ImportFinds, Send, AllItemsDone, Receive, Leave,
               tagVars
<1> QED
  BY <1>4, <1>6, <1>7, <1>8, <1>9, <1>10 DEF TagNext

\* Whatever scans, edits and imports made of a row, a player that reads the
\* header written from it finds the row's tags.
THEOREM HeadersSayTheRow == TagSpec => []HeaderSaysTheRow
<1>1. TagInit => YearsAreNumbers
  <2> SUFFICES ASSUME TagInit, NEW id \in Known
               PROVE  GoodYear(Upserted(EmptyMap, Parsed(FileTags[id])))
    BY DEF TagInit, YearsAreNumbers, GoodYear
  <2>1. GoodYear(EmptyMap) /\ GoodYear(Parsed(FileTags[id]))
    BY ParsedYear DEF GoodYear, EmptyMap
  <2>2. /\ GoodYear(Carried(EmptyMap, Enrichment))
        /\ GoodYear(Carried(Parsed(FileTags[id]), AudioMeta))
    BY <2>1, GoodYears
  <2> QED
    BY <2>2, GoodYears DEF Upserted
<1>2. YearsAreNumbers /\ TaskInv /\ [TagNext]_tagVars => YearsAreNumbers'
  BY YearsStep DEF TaskInv
<1>3. YearsAreNumbers => HeaderSaysTheRow
  <2> SUFFICES ASSUME YearsAreNumbers, NEW id \in DOMAIN row_tags
               PROVE  IsHeaderTags(Carried(MetadataRow(row_tags[id]), InHeader))
    BY VorbisTells, Id3Tells DEF HeaderSaysTheRow
  <2> DEFINE row == row_tags[id]
             meta == MetadataRow(row)
  <2>1. GoodYear(row)
    BY DEF YearsAreNumbers, GoodYear
  <2>2. GoodYear(meta)
    BY <2>1, GoodYears DEF MetadataRow
  <2> HIDE DEF meta
  <2>3. GoodYear(Carried(meta, InHeader))
    BY <2>2, GoodYears
  <2>4. DOMAIN Carried(meta, InHeader) = DOMAIN meta \cap InHeader
    BY CarriedIs
  <2>5. IsHeaderTags(Carried(meta, InHeader))
    BY <2>3, <2>4 DEF IsHeaderTags, GoodYear
  <2> QED
    BY <2>5 DEF meta
<1> QED
  BY <1>1, <1>2, <1>3, TaskInvariance, PTL DEF TagSpec

=============================================================================
