------------------------ MODULE DownloadQueueProofs ------------------------
(***************************************************************************)
(* The safety of DownloadQueue for any number of books, tasks and chunks    *)
(* and any bound of the queue.  The inductive invariant says where each     *)
(* worker task can be with respect to the handle (HandleInv), what it       *)
(* carries at each place (JobInv), which item may be shown as downloading   *)
(* (FrontInv) and how far its file has come (FileInv).                      *)
(***************************************************************************)
EXTENDS DownloadQueue, SequenceTheorems, TLAPS

-----------------------------------------------------------------------------
(* What the operations of QueueState keep, for every queue: each returns a queue,
   within its bound, with every book once, and with no book but the front one shown
   as downloading. *)

Distinct(r) ==
    \A i, j \in DOMAIN r.items : r.items[i].id = r.items[j].id => i = j

OnlyFrontDownloads(r) ==
    \A i \in DOMAIN r.items : r.items[i].status = "Downloading" => i = 1

WellFormed(r) ==
    /\ r \in Queues
    /\ Len(r.items) <= MaxQueue
    /\ Distinct(r)
    /\ OnlyFrontDownloads(r)

(* The empty queue a boot starts with is well formed. *)
LEMMA EmptyQueueIsWellFormed == WellFormed(EmptyQueue)
  BY MaxQueueAssumption, EmptySeq
     DEF WellFormed, EmptyQueue, Queues, LastResult, Distinct, OnlyFrontDownloads

(* The front item is an item, with the id of a book. *)
LEMMA FrontIsAnItem ==
  ASSUME NEW r, WellFormed(r), r.items # <<>>
  PROVE  /\ 1 \in DOMAIN r.items
         /\ r.items[1] \in QueueItem
         /\ r.items[1].id \in Ids
  <1>1. r.items \in Seq(QueueItem) /\ 1 \in 1..Len(r.items) /\ DOMAIN r.items = 1..Len(r.items)
    BY EmptySeq, LenProperties DEF WellFormed, Queues
  <1>2. r.items[1] \in QueueItem
    BY <1>1, ElementOfSeq
  <1> QED BY <1>1, <1>2 DEF QueueItem

(* enqueue() keeps the queue well formed; what it adds is pending, at the end. *)
LEMMA EnqueueKeepsShape ==
  ASSUME NEW r, WellFormed(r), NEW id \in Ids
  PROVE  /\ WellFormed(EnqueueItem(r, id))
         /\ \A i \in DOMAIN EnqueueItem(r, id).items :
               EnqueueItem(r, id).items[i].status = "Downloading"
                  => i \in DOMAIN r.items /\ EnqueueItem(r, id).items[i] = r.items[i]
  <1>1. CASE EnqueueResult(r, id) # "Ok"
    BY <1>1 DEF EnqueueItem
  <1>2. CASE EnqueueResult(r, id) = "Ok"
    <2> DEFINE s == Append(r.items, NewItem(id))
    <2>1. /\ r.items \in Seq(QueueItem)
          /\ NewItem(id) \in QueueItem
          /\ NewItem(id).id = id /\ NewItem(id).status = "Pending"
      BY ChunksAssumption DEF WellFormed, Queues, QueueItem, Statuses, NewItem
    <2>2. /\ s \in Seq(QueueItem)
          /\ Len(s) = Len(r.items) + 1
          /\ \A i \in 1..Len(r.items) : s[i] = r.items[i]
          /\ s[Len(r.items) + 1] = NewItem(id)
      BY <2>1, AppendProperties
    <2>3. /\ Len(r.items) \in Nat /\ DOMAIN r.items = 1..Len(r.items)
          /\ DOMAIN s = 1..(Len(r.items) + 1)
      BY <2>1, <2>2, LenProperties
    <2>4. Len(r.items) < MaxQueue /\ ~Contains(r, id)
      BY <1>2, <2>3, MaxQueueAssumption DEF EnqueueResult
    <2>5. EnqueueItem(r, id) = [r EXCEPT !.items = s, !.generation = @ + 1]
      BY <1>2 DEF EnqueueItem
    <2> HIDE DEF s
    <2>6. EnqueueItem(r, id) \in Queues /\ EnqueueItem(r, id).items = s
      <3>1. /\ r = [items |-> r.items, last |-> r.last, generation |-> r.generation,
                    completions |-> r.completions]
            /\ r.last \in LastResult /\ r.generation + 1 \in Nat /\ r.completions \in Nat
        BY DEF WellFormed, Queues
      <3>2. EnqueueItem(r, id) = [items |-> s, last |-> r.last,
                                  generation |-> r.generation + 1,
                                  completions |-> r.completions]
        BY <2>5, <3>1
      <3> QED BY <2>2, <3>1, <3>2 DEF Queues
    <2>7. Distinct(EnqueueItem(r, id))
      <3> SUFFICES ASSUME NEW i \in DOMAIN s, NEW j \in DOMAIN s, s[i].id = s[j].id
                   PROVE  i = j
        BY <2>6 DEF Distinct
      <3>1. \A k \in 1..Len(r.items) : s[k].id # id
        BY <2>2, <2>3, <2>4 DEF Contains
      <3>2. CASE i = Len(r.items) + 1 \/ j = Len(r.items) + 1
        BY <3>1, <3>2, <2>1, <2>2, <2>3
      <3>3. CASE i \in 1..Len(r.items) /\ j \in 1..Len(r.items)
        BY <3>3, <2>2, <2>3 DEF WellFormed, Distinct
      <3> QED BY <3>2, <3>3, <2>3
    <2>8. \A i \in DOMAIN s : s[i].status = "Downloading"
                                 => i \in DOMAIN r.items /\ s[i] = r.items[i]
      BY <2>1, <2>2, <2>3
    <2>9. OnlyFrontDownloads(EnqueueItem(r, id))
      BY <2>6, <2>8 DEF WellFormed, OnlyFrontDownloads
    <2> QED
      BY <2>2, <2>3, <2>4, <2>6, <2>7, <2>8, <2>9, MaxQueueAssumption DEF WellFormed
  <1> QED BY <1>1, <1>2

(* A change of the front item that leaves every id alone keeps the queue well formed. *)
LEMMA FrontChangeKeepsShape ==
  ASSUME NEW r, WellFormed(r), NEW s \in Queues,
         DOMAIN s.items = DOMAIN r.items,
         \A i \in DOMAIN r.items : s.items[i].id = r.items[i].id,
         \A i \in DOMAIN r.items : i # 1 => s.items[i] = r.items[i]
  PROVE  WellFormed(s)
  <1>1. Len(s.items) = Len(r.items)
    BY LenProperties DEF WellFormed, Queues
  <1>2. Distinct(s) /\ OnlyFrontDownloads(s)
    BY DEF WellFormed, Distinct, OnlyFrontDownloads
  <1> QED BY <1>1, <1>2 DEF WellFormed

(* Such a change, made with EXCEPT. *)
LEMMA FrontExcept ==
  ASSUME NEW r, WellFormed(r), r.items # <<>>, NEW item \in QueueItem, NEW n \in Nat
  PROVE  LET s == [items |-> [r.items EXCEPT ![1] = item], last |-> r.last,
                   generation |-> n, completions |-> r.completions]
         IN /\ s \in Queues
            /\ DOMAIN s.items = DOMAIN r.items
            /\ \A i \in DOMAIN r.items : s.items[i] = IF i = 1 THEN item ELSE r.items[i]
  <1>1. /\ r.items \in Seq(QueueItem)
        /\ Len(r.items) \in Nat /\ 1 \in 1..Len(r.items) /\ DOMAIN r.items = 1..Len(r.items)
    BY EmptySeq, LenProperties DEF WellFormed, Queues
  <1> DEFINE t == [r.items EXCEPT ![1] = item]
  <1>2. /\ t \in Seq(QueueItem) /\ DOMAIN t = DOMAIN r.items
        /\ \A j \in 1..Len(r.items) : t[j] = IF j = 1 THEN item ELSE r.items[j]
    BY <1>1, ExceptSeq
  <1> HIDE DEF t
  <1>3. [items |-> t, last |-> r.last, generation |-> n, completions |-> r.completions]
          \in Queues
    BY <1>2 DEF WellFormed, Queues
  <1> QED BY <1>1, <1>2, <1>3 DEF t

(* markDownloading() keeps the queue well formed and its books in place. *)
LEMMA MarkKeepsShape ==
  ASSUME NEW r, WellFormed(r), r.items # <<>>, NEW id \in Ids
  PROVE  /\ WellFormed(MarkDownloading(r, id))
         /\ MarkDownloading(r, id).items # <<>>
         /\ MarkDownloading(r, id).items[1].id = r.items[1].id
  <1>1. CASE ~(IsFront(r, id) /\ r.items[1].status # "Downloading")
    BY <1>1 DEF MarkDownloading
  <1>2. CASE IsFront(r, id) /\ r.items[1].status # "Downloading"
    <2> DEFINE item == [r.items[1] EXCEPT !.status = "Downloading"]
               s == MarkDownloading(r, id)
    <2>1. /\ r.items \in Seq(QueueItem) /\ r.items[1] \in QueueItem
          /\ DOMAIN r.items = 1..Len(r.items) /\ 1 \in 1..Len(r.items)
      BY EmptySeq, LenProperties, ElementOfSeq DEF WellFormed, Queues
    <2>2. item \in QueueItem /\ item.id = r.items[1].id
      BY <2>1 DEF QueueItem, Statuses
    <2>3. r.generation + 1 \in Nat
      BY DEF WellFormed, Queues
    <2>4. s = [items |-> [r.items EXCEPT ![1] = item], last |-> r.last,
               generation |-> r.generation + 1, completions |-> r.completions]
      BY <1>2, <2>1 DEF MarkDownloading, WellFormed, Queues
    <2> HIDE DEF item, s
    <2>5. /\ s \in Queues
          /\ DOMAIN s.items = DOMAIN r.items
          /\ \A i \in DOMAIN r.items : s.items[i] = IF i = 1 THEN item ELSE r.items[i]
      BY <2>2, <2>3, <2>4, FrontExcept
    <2>6. \A i \in DOMAIN r.items : s.items[i].id = r.items[i].id
      BY <2>2, <2>5
    <2>7. WellFormed(s)
      BY <2>5, <2>6, FrontChangeKeepsShape
    <2>8. s.items # <<>>
      BY <2>1, <2>5
    <2> QED BY <2>1, <2>6, <2>7, <2>8 DEF s
  <1> QED BY <1>1, <1>2

(* updateProgress() keeps the queue well formed and changes no id and no status. *)
LEMMA ProgressKeepsShape ==
  ASSUME NEW r, WellFormed(r), NEW id \in Ids, NEW got \in 0..Chunks
  PROVE  /\ WellFormed(UpdateProgress(r, id, got))
         /\ DOMAIN UpdateProgress(r, id, got).items = DOMAIN r.items
         /\ \A i \in DOMAIN r.items :
               /\ UpdateProgress(r, id, got).items[i].id = r.items[i].id
               /\ UpdateProgress(r, id, got).items[i].status = r.items[i].status
  <1>1. CASE ~IsFront(r, id)
    BY <1>1 DEF UpdateProgress
  <1>2. CASE IsFront(r, id)
    <2> DEFINE item == [r.items[1] EXCEPT !.got = got]
               s == UpdateProgress(r, id, got)
    <2>1. /\ r.items # <<>> /\ r.items \in Seq(QueueItem) /\ r.items[1] \in QueueItem
          /\ DOMAIN r.items = 1..Len(r.items) /\ 1 \in 1..Len(r.items)
      BY <1>2, EmptySeq, LenProperties, ElementOfSeq DEF IsFront, WellFormed, Queues
    <2>2. /\ item \in QueueItem
          /\ item.id = r.items[1].id /\ item.status = r.items[1].status
      BY <2>1 DEF QueueItem
    <2>3. r.generation \in Nat
      BY DEF WellFormed, Queues
    <2>4. s = [items |-> [r.items EXCEPT ![1] = item], last |-> r.last,
               generation |-> r.generation, completions |-> r.completions]
      BY <1>2, <2>1 DEF UpdateProgress, WellFormed, Queues
    <2> HIDE DEF item, s
    <2>5. /\ s \in Queues
          /\ DOMAIN s.items = DOMAIN r.items
          /\ \A i \in DOMAIN r.items : s.items[i] = IF i = 1 THEN item ELSE r.items[i]
      BY <2>1, <2>2, <2>3, <2>4, FrontExcept
    <2>6. \A i \in DOMAIN r.items : /\ s.items[i].id = r.items[i].id
                                    /\ s.items[i].status = r.items[i].status
      BY <2>2, <2>5
    <2>7. WellFormed(s)
      BY <2>5, <2>6, FrontChangeKeepsShape
    <2> QED BY <2>5, <2>6, <2>7 DEF s
  <1> QED BY <1>1, <1>2

(* finish() keeps the queue well formed, and only pending books stay in it when
   the front one leaves. *)
LEMMA FinishKeepsShape ==
  ASSUME NEW r, WellFormed(r), NEW id \in Ids, NEW ok \in BOOLEAN
  PROVE  /\ WellFormed(FinishItem(r, id, ok))
         /\ IsFront(r, id) =>
               \A i \in DOMAIN FinishItem(r, id, ok).items :
                   FinishItem(r, id, ok).items[i].status # "Downloading"
         /\ ~IsFront(r, id) => FinishItem(r, id, ok) = r
         /\ FinishItem(r, id, ok).completions > r.completions => ok /\ IsFront(r, id)
         /\ IsFront(r, id) => FinishItem(r, id, ok).last.id = id
  <1>1. CASE ~IsFront(r, id)
    BY <1>1 DEF FinishItem, WellFormed, Queues
  <1>2. CASE IsFront(r, id)
    <2> DEFINE s == FinishItem(r, id, ok)
    <2>1. /\ r.items \in Seq(QueueItem) /\ r.items # <<>>
          /\ Len(r.items) \in Nat /\ DOMAIN r.items = 1..Len(r.items)
      BY <1>2, LenProperties DEF IsFront, WellFormed, Queues
    <2>2. /\ Tail(r.items) \in Seq(QueueItem)
          /\ Len(Tail(r.items)) = Len(r.items) - 1
          /\ DOMAIN Tail(r.items) = 1..(Len(r.items) - 1)
          /\ \A i \in 1..(Len(r.items) - 1) : Tail(r.items)[i] = r.items[i + 1]
      BY <2>1, HeadTailProperties, LenProperties
    <2>3. /\ s.items = Tail(r.items)
          /\ s.completions = IF ok THEN r.completions + 1 ELSE r.completions
          /\ s.last.id = id
          /\ s \in Queues
      BY <1>2, <2>2 DEF FinishItem, WellFormed, Queues, LastResult
    <2>4. Distinct(s)
      <3> SUFFICES ASSUME NEW i \in 1..(Len(r.items) - 1), NEW j \in 1..(Len(r.items) - 1),
                          s.items[i].id = s.items[j].id
                   PROVE  i = j
        BY <2>2, <2>3 DEF Distinct
      <3>1. i + 1 \in DOMAIN r.items /\ j + 1 \in DOMAIN r.items
        BY <2>1
      <3>2. r.items[i + 1].id = r.items[j + 1].id
        BY <2>2, <2>3
      <3>3. i + 1 = j + 1
        BY <3>1, <3>2 DEF WellFormed, Distinct
      <3> QED BY <3>3
    <2>5. \A i \in DOMAIN s.items : s.items[i].status # "Downloading"
      BY <2>1, <2>2, <2>3 DEF WellFormed, OnlyFrontDownloads
    <2>6. s.completions > r.completions => ok
      BY <2>3 DEF WellFormed, Queues
    <2>7. WellFormed(s)
      BY <2>1, <2>2, <2>3, <2>4, <2>5, MaxQueueAssumption DEF WellFormed, OnlyFrontDownloads
    <2> QED BY <1>2, <2>3, <2>5, <2>6, <2>7
  <1> QED BY <1>1, <1>2

(* cancelAll() empties the queue. *)
LEMMA CancelEmpties ==
  ASSUME NEW r, WellFormed(r)
  PROVE  WellFormed(CancelItems(r)) /\ CancelItems(r).items = <<>>
  <1>1. CancelItems(r) \in Queues /\ CancelItems(r).items = <<>>
    <2>1. CASE r.items = <<>>
      BY <2>1 DEF CancelItems, WellFormed
    <2>2. CASE r.items # <<>>
      <3>1. CancelItems(r) = [r EXCEPT !.items = <<>>, !.generation = r.generation + 1]
        BY <2>2 DEF CancelItems
      <3>2. r \in Queues /\ r.generation + 1 \in Nat
        BY DEF WellFormed, Queues
      <3>3. <<>> \in Seq(QueueItem)
        BY EmptySeq
      <3> QED BY <3>1, <3>2, <3>3 DEF Queues
    <2> QED BY <2>1, <2>2
  <1> QED BY <1>1, EmptySeq, MaxQueueAssumption DEF WellFormed, Distinct, OnlyFrontDownloads

-----------------------------------------------------------------------------
(* The line of books a queue stands for. *)

(* The line of a queue is a sequence of books as long as the queue. *)
LEMMA LineIsASeq ==
  ASSUME NEW r, WellFormed(r)
  PROVE  /\ Line(r) \in Seq(Ids)
         /\ Len(Line(r)) = Len(r.items)
         /\ DOMAIN Line(r) = DOMAIN r.items
         /\ r.items = <<>> <=> Line(r) = <<>>
  <1>1. /\ r.items \in Seq(QueueItem) /\ Len(r.items) \in Nat
        /\ DOMAIN r.items = 1..Len(r.items)
    BY LenProperties DEF WellFormed, Queues
  <1>2. \A i \in 1..Len(r.items) : r.items[i].id \in Ids
    <2>1. \A i \in 1..Len(r.items) : r.items[i] \in QueueItem
      BY <1>1, ElementOfSeq
    <2> QED BY <2>1 DEF QueueItem
  <1>3. Line(r) \in [1..Len(r.items) -> Ids]
    BY <1>1, <1>2 DEF Line
  <1>4. Line(r) \in Seq(Ids)
    BY <1>1, <1>3, SeqDef
  <1>5. Len(Line(r)) = Len(r.items) /\ DOMAIN Line(r) = DOMAIN r.items
    BY <1>1, <1>3, <1>4, LenProperties
  <1> QED BY <1>1, <1>4, <1>5, EmptySeq

(* A successful enqueue() puts the book at the end of the line. *)
LEMMA EnqueueJoins ==
  ASSUME NEW r, WellFormed(r), NEW id \in Ids
  PROVE  \/ EnqueueItem(r, id) = r
         \/ /\ \A i \in DOMAIN Line(r) : Line(r)[i] # id
            /\ Len(Line(r)) < MaxQueue
            /\ Line(EnqueueItem(r, id)) = Append(Line(r), id)
            /\ EnqueueItem(r, id).last = r.last
            /\ EnqueueItem(r, id).completions = r.completions
            /\ EnqueueItem(r, id).generation = r.generation + 1
  <1>1. CASE EnqueueResult(r, id) # "Ok"
    BY <1>1 DEF EnqueueItem
  <1>2. CASE EnqueueResult(r, id) = "Ok"
    <2> DEFINE s == EnqueueItem(r, id)
    <2>1. /\ r.items \in Seq(QueueItem) /\ Len(r.items) \in Nat
          /\ DOMAIN r.items = 1..Len(r.items)
      BY LenProperties DEF WellFormed, Queues
    <2>2. NewItem(id) \in QueueItem /\ NewItem(id).id = id
      BY ChunksAssumption DEF QueueItem, Statuses, NewItem
    <2>3. s = [r EXCEPT !.items = Append(r.items, NewItem(id)),
                        !.generation = r.generation + 1]
      BY <1>2 DEF EnqueueItem
    <2>4. /\ s.items = Append(r.items, NewItem(id))
          /\ s.last = r.last /\ s.completions = r.completions
          /\ s.generation = r.generation + 1
      BY <2>3 DEF WellFormed, Queues
    <2>5. WellFormed(s)
      BY EnqueueKeepsShape
    <2> HIDE DEF s
    <2>6. /\ Len(s.items) = Len(r.items) + 1
          /\ \A i \in 1..Len(r.items) : s.items[i] = r.items[i]
          /\ s.items[Len(r.items) + 1] = NewItem(id)
          /\ DOMAIN s.items = 1..(Len(r.items) + 1)
      BY <2>1, <2>2, <2>4, AppendProperties, LenProperties
    <2>7. /\ Append(Line(r), id) \in Seq(Ids)
          /\ Len(Append(Line(r), id)) = Len(r.items) + 1
          /\ \A i \in 1..Len(r.items) : Append(Line(r), id)[i] = Line(r)[i]
          /\ Append(Line(r), id)[Len(r.items) + 1] = id
      BY LineIsASeq, AppendProperties
    <2>8. \A i \in 1..(Len(r.items) + 1) : Line(s)[i] = Append(Line(r), id)[i]
      BY <2>1, <2>2, <2>6, <2>7 DEF Line
    <2>9. Line(s) = Append(Line(r), id)
      BY <2>5, <2>6, <2>7, <2>8, LineIsASeq, SeqEqual
    <2>10. \A i \in DOMAIN Line(r) : Line(r)[i] # id
      BY <1>2 DEF Line, EnqueueResult, Contains
    <2>11. Len(Line(r)) < MaxQueue
      BY <1>2, <2>1, LineIsASeq, MaxQueueAssumption DEF EnqueueResult
    <2> QED BY <2>4, <2>9, <2>10, <2>11 DEF s
  <1> QED BY <1>1, <1>2

(* finish() of the front book takes it, and only it, out of the line. *)
LEMMA FinishLeaves ==
  ASSUME NEW r, WellFormed(r), NEW id \in Ids, NEW ok \in BOOLEAN
  PROVE  \/ FinishItem(r, id, ok) = r
         \/ /\ Line(r) # <<>> /\ Head(Line(r)) = id
            /\ Line(FinishItem(r, id, ok)) = Tail(Line(r))
            /\ FinishItem(r, id, ok).last = [has |-> TRUE, id |-> id, ok |-> ok]
            /\ FinishItem(r, id, ok).completions
                  = IF ok THEN r.completions + 1 ELSE r.completions
            /\ FinishItem(r, id, ok).generation = r.generation + 1
  <1>1. CASE ~IsFront(r, id)
    BY <1>1 DEF FinishItem
  <1>2. CASE IsFront(r, id)
    <2> DEFINE s == FinishItem(r, id, ok)
    <2>1. /\ r.items \in Seq(QueueItem) /\ r.items # <<>> /\ Len(r.items) \in Nat \ {0}
          /\ DOMAIN r.items = 1..Len(r.items)
      BY <1>2, LenProperties, EmptySeq DEF IsFront, WellFormed, Queues
    <2>2. /\ s.items = Tail(r.items)
          /\ s.last = [has |-> TRUE, id |-> id, ok |-> ok]
          /\ s.completions = IF ok THEN r.completions + 1 ELSE r.completions
          /\ s.generation = r.generation + 1
      BY <1>2 DEF FinishItem
    <2>3. WellFormed(s)
      BY FinishKeepsShape
    <2> HIDE DEF s
    <2>4. /\ Len(s.items) = Len(r.items) - 1
          /\ DOMAIN s.items = 1..(Len(r.items) - 1)
          /\ \A i \in 1..(Len(r.items) - 1) : s.items[i] = r.items[i + 1]
      BY <2>1, <2>2, HeadTailProperties, LenProperties
    <2>5. Line(r) \in Seq(Ids) /\ Line(r) # <<>> /\ Len(Line(r)) = Len(r.items)
      BY <2>1, LineIsASeq
    <2>6. /\ Tail(Line(r)) \in Seq(Ids)
          /\ Len(Tail(Line(r))) = Len(r.items) - 1
          /\ \A i \in 1..(Len(r.items) - 1) : Tail(Line(r))[i] = Line(r)[i + 1]
      BY <2>5, HeadTailProperties
    <2>7. \A i \in 1..(Len(r.items) - 1) : Line(s)[i] = Tail(Line(r))[i]
      BY <2>1, <2>4, <2>6 DEF Line
    <2>8. Line(s) = Tail(Line(r))
      BY <2>3, <2>4, <2>6, <2>7, LineIsASeq, SeqEqual
    <2>9. Head(Line(r)) = Line(r)[1]
      BY <2>5
    <2>10. Line(r)[1] = id
      BY <1>2, <2>1 DEF Line, IsFront
    <2> QED BY <2>2, <2>5, <2>8, <2>9, <2>10 DEF s
  <1> QED BY <1>1, <1>2

(* markDownloading() leaves the line alone and is counted when it changes anything. *)
LEMMA MarkKeepsLine ==
  ASSUME NEW r, WellFormed(r), NEW id \in Ids
  PROVE  \/ MarkDownloading(r, id) = r
         \/ /\ Line(MarkDownloading(r, id)) = Line(r)
            /\ MarkDownloading(r, id).last = r.last
            /\ MarkDownloading(r, id).completions = r.completions
            /\ MarkDownloading(r, id).generation = r.generation + 1
  <1>1. CASE ~(IsFront(r, id) /\ r.items[1].status # "Downloading")
    BY <1>1 DEF MarkDownloading
  <1>2. CASE IsFront(r, id) /\ r.items[1].status # "Downloading"
    <2> DEFINE item == [r.items[1] EXCEPT !.status = "Downloading"]
               s == MarkDownloading(r, id)
    <2>1. /\ r.items # <<>> /\ r.items[1] \in QueueItem
          /\ r.items \in Seq(QueueItem) /\ DOMAIN r.items = 1..Len(r.items)
      BY <1>2, FrontIsAnItem, LenProperties DEF IsFront, WellFormed, Queues
    <2>2. item \in QueueItem /\ item.id = r.items[1].id
      BY <2>1 DEF QueueItem, Statuses
    <2>3. s = [items |-> [r.items EXCEPT ![1] = item], last |-> r.last,
               generation |-> r.generation + 1, completions |-> r.completions]
      BY <1>2, <2>1 DEF MarkDownloading, WellFormed, Queues
    <2>4. r.generation + 1 \in Nat
      BY DEF WellFormed, Queues
    <2> HIDE DEF item, s
    <2>5. /\ DOMAIN s.items = DOMAIN r.items
          /\ \A i \in DOMAIN r.items : s.items[i] = IF i = 1 THEN item ELSE r.items[i]
      BY <2>1, <2>2, <2>3, <2>4, FrontExcept
    <2>6. Line(s) = Line(r)
      BY <2>2, <2>5 DEF Line
    <2> QED BY <2>3, <2>6 DEF s
  <1> QED BY <1>1, <1>2

(* updateProgress() changes nothing of a queue that a screen or the line shows. *)
LEMMA ProgressKeepsLine ==
  ASSUME NEW r, WellFormed(r), NEW id \in Ids, NEW got \in 0..Chunks
  PROVE  /\ Line(UpdateProgress(r, id, got)) = Line(r)
         /\ View(UpdateProgress(r, id, got)) = View(r)
         /\ UpdateProgress(r, id, got).last = r.last
         /\ UpdateProgress(r, id, got).completions = r.completions
         /\ UpdateProgress(r, id, got).generation = r.generation
  <1> DEFINE s == UpdateProgress(r, id, got)
  <1>1. /\ DOMAIN s.items = DOMAIN r.items
        /\ \A i \in DOMAIN r.items : s.items[i].id = r.items[i].id
                                     /\ s.items[i].status = r.items[i].status
    BY ProgressKeepsShape
  <1>2. s.last = r.last /\ s.completions = r.completions /\ s.generation = r.generation
    BY DEF UpdateProgress, WellFormed, Queues
  <1> HIDE DEF s
  <1>3. Line(s) = Line(r) /\ View(s) = View(r)
    BY <1>1 DEF Line, View
  <1> QED BY <1>2, <1>3 DEF s

(* cancelAll() gives up the whole line and is counted unless there was none. *)
LEMMA CancelGivesUp ==
  ASSUME NEW r, WellFormed(r)
  PROVE  \/ CancelItems(r) = r
         \/ /\ Line(CancelItems(r)) = <<>>
            /\ CancelItems(r).last = r.last
            /\ CancelItems(r).completions = r.completions
            /\ CancelItems(r).generation = r.generation + 1
  <1>1. CASE r.items = <<>>
    BY <1>1 DEF CancelItems
  <1>2. CASE r.items # <<>>
    <2>1. CancelItems(r) = [r EXCEPT !.items = <<>>, !.generation = r.generation + 1]
      BY <1>2 DEF CancelItems
    <2>2. r \in Queues
      BY DEF WellFormed
    <2>3. /\ CancelItems(r).last = r.last
          /\ CancelItems(r).completions = r.completions
          /\ CancelItems(r).generation = r.generation + 1
      BY <2>1, <2>2 DEF Queues
    <2>4. Line(CancelItems(r)) = <<>>
      BY CancelEmpties, LineIsASeq
    <2> QED BY <2>3, <2>4
  <1> QED BY <1>1, <1>2

-----------------------------------------------------------------------------
(* The invariant. *)


\* A task that can still look at the queue is the one the handle names.
HandleInv == \A t \in Tasks : pc[t] \in Alive <=> taskHandle = t

JobInv ==
    \A t \in Tasks :
        /\ pc[t] \in Busy => job[t].id \in Ids
        /\ pc[t] = "prepare" => job[t].got = 0
        /\ pc[t] = "write" => job[t].got < Chunks /\ job[t].late = 0
        /\ ~job[t].dropped => job[t].late = 0
        /\ job[t].late <= 1

FrontInv ==
    q.items # <<>> /\ q.items[1].status = "Downloading" =>
        \E t \in Tasks : pc[t] \in Busy /\ job[t].id = q.items[1].id

Landed(t) == book[job[t].id] = "complete"
PartComplete(t) == part[job[t].id] = "complete"

FileInv ==
    /\ NoTruncatedBook
    /\ \A t \in Tasks :
        /\ pc[t] \in Fetching /\ job[t].got = Chunks => PartComplete(t)
        /\ pc[t] = "close" /\ job[t].result = "ok" => PartComplete(t)
        /\ pc[t] \in {"unlink", "rename"} => PartComplete(t)
        /\ pc[t] = "list" => Landed(t)
        /\ pc[t] = "mark" => Landed(t) /\ job[t].id \notin remote
        /\ pc[t] = "finish" /\ job[t].result = "ok" => Landed(t) /\ job[t].id \notin remote

IInv ==
    /\ TypeOK
    /\ WellFormed(q)
    /\ HandleInv
    /\ JobInv
    /\ CancelSticks
    /\ FrontInv
    /\ FileInv

WorkerAction(t) ==
    \/ PrepareFails(t) \/ Prepare(t) \/ ChunkPolls(t) \/ WriteChunk(t) \/ WriteFails(t)
    \/ FetchEnds(t) \/ Close(t) \/ Unlink(t) \/ Rename(t) \/ RenameFails(t)
    \/ ListDownloaded(t) \/ Mark(t)

-----------------------------------------------------------------------------

(* Only one task is alive, so only one works on a book. *)
LEMMA AliveIsOne ==
  ASSUME TypeOK, HandleInv,
         NEW t \in Tasks, NEW u \in Tasks, pc[t] \in Alive, pc[u] \in Alive
  PROVE  t = u
  BY DEF HandleInv

(* What a task carries before and at the start of a book. *)
LEMMA FreshJobs == \A id \in Ids \cup {NoId} : NewJob(id) \in Jobs
  <1>1. 0 \in 0..Chunks
    BY ChunksAssumption
  <1> QED BY <1>1 DEF Jobs, NewJob, Results

(* A job stays a job when its progress or its fate is noted. *)
LEMMA JobUpdates ==
  ASSUME NEW j \in Jobs, NEW got \in 0..Chunks, NEW late \in Nat
  PROVE  /\ [j EXCEPT !.got = got, !.late = late] \in Jobs
         /\ [j EXCEPT !.dropped = TRUE] \in Jobs
  BY DEF Jobs

(* The initial states satisfy the invariant. *)
LEMMA InitIInv == Init => IInv
  <1> SUFFICES ASSUME Init PROVE IInv
    OBVIOUS
  <1>1. WellFormed(q) /\ q.items = <<>>
    BY EmptyQueueIsWellFormed DEF Init, EmptyQueue
  <1>2. \A t \in Tasks : pc[t] = "none" /\ job[t] = NoJob
    BY DEF Init
  <1>3. TypeOK
    <2>1. q \in Queues
      BY <1>1 DEF WellFormed
    <2>2. pc \in [Tasks -> Places] /\ job \in [Tasks -> Jobs]
      BY FreshJobs DEF Init, Places, NoJob
    <2>3. book \in [Ids -> Contents] /\ part \in [Ids -> Contents]
      BY DEF Init, Contents
    <2> QED BY <2>1, <2>2, <2>3 DEF Init, TypeOK
  <1>4. HandleInv
    BY <1>2, NoTaskAssumption DEF Init, HandleInv, Alive, Busy, Fetching
  <1>5. JobInv /\ CancelSticks
    BY <1>2 DEF JobInv, CancelSticks, Busy, Fetching, NoJob, NewJob
  <1>6. FrontInv
    BY <1>1 DEF FrontInv
  <1>7. FileInv
    BY <1>2 DEF Init, FileInv, NoTruncatedBook, Fetching
  <1> QED BY <1>1, <1>3, <1>4, <1>5, <1>6, <1>7 DEF IInv

(* Every step leaves each variable with its type. *)
LEMMA TypeStep ==
  ASSUME TypeOK, JobInv, WellFormed(q), WellFormed(q)', [Next]_vars
  PROVE  TypeOK'
  <1> USE DEF TypeOK, Places, Alive, Busy, Fetching, Jobs, Results, Contents, Goto
  <1>0. q' \in Queues
    BY DEF WellFormed
  <1>1. ASSUME NEW id \in Ids, EnqueueLookup(id) PROVE TypeOK'
    BY <1>0, <1>1 DEF EnqueueLookup, files, lists
  <1>2. CASE EnqueueLocked
    BY <1>0, <1>2 DEF EnqueueLocked, StartLocked, files, lists
  <1>3. CASE CancelAll
    <2>1. \A t \in Tasks : [job[t] EXCEPT !.dropped = TRUE] \in Jobs
      <3>1. 0 \in 0..Chunks
        BY ChunksAssumption
      <3>2. \A t \in Tasks : job[t] \in Jobs
        OBVIOUS
      <3> HIDE DEF Jobs, TypeOK
      <3> QED BY <3>1, <3>2, JobUpdates
    <2>2. job' \in [Tasks -> Jobs]
      BY <1>3, <2>1 DEF CancelAll
    <2> QED BY <1>0, <1>3, <2>2 DEF CancelAll, files, lists
  <1>4. ASSUME NEW t \in Tasks, WorkerAction(t) PROVE TypeOK'
    <2> USE <1>0 DEF JobInv, files, lists
    <2>1. CASE PrepareFails(t) BY <2>1 DEF PrepareFails
    <2>2. CASE Prepare(t) BY <2>2 DEF Prepare
    <2>3. CASE ChunkPolls(t) BY <2>3 DEF ChunkPolls
    <2>4. CASE WriteChunk(t)
      <3> DEFINE late == IF job[t].dropped THEN job[t].late + 1 ELSE job[t].late
                 done == IF job[t].got + 1 = Chunks THEN "complete" ELSE "partial"
      <3>1. job[t].got + 1 \in 0..Chunks /\ late \in Nat
        BY <2>4, ChunksAssumption DEF WriteChunk
      <3>2. job' = [job EXCEPT ![t] = [job[t] EXCEPT !.got = job[t].got + 1, !.late = late]]
        BY <2>4 DEF WriteChunk
      <3>3. part' = [part EXCEPT ![job[t].id] = done]
        BY <2>4 DEF WriteChunk
      <3> HIDE DEF late
      <3>4. [job[t] EXCEPT !.got = job[t].got + 1, !.late = late] \in Jobs
        <4>1. job[t] \in Jobs
          OBVIOUS
        <4> HIDE DEF Jobs, TypeOK
        <4> QED BY <3>1, <4>1, JobUpdates
      <3>5. job' \in [Tasks -> Jobs]
        BY <3>2, <3>4
      <3>6. part' \in [Ids -> Contents]
        BY <3>3
      <3> QED BY <2>4, <3>5, <3>6 DEF WriteChunk
    <2>5. CASE WriteFails(t) BY <2>5 DEF WriteFails
    <2>6. CASE FetchEnds(t) BY <2>6 DEF FetchEnds
    <2>7. CASE Close(t) BY <2>7 DEF Close
    <2>8. CASE Unlink(t) BY <2>8 DEF Unlink
    <2>9. CASE Rename(t) BY <2>9 DEF Rename
    <2>10. CASE RenameFails(t) BY <2>10 DEF RenameFails
    <2>11. CASE ListDownloaded(t) BY <2>11 DEF ListDownloaded
    <2>12. CASE Mark(t) BY <2>12 DEF Mark
    <2> QED BY <1>4, <2>1, <2>2, <2>3, <2>4, <2>5, <2>6, <2>7, <2>8, <2>9, <2>10, <2>11, <2>12
            DEF WorkerAction
  <1>5. ASSUME NEW t \in Tasks, Drained(t) \/ HoldOff(t) \/ WakeUp(t) \/ TaskDeleted(t)
        PROVE  TypeOK'
    BY <1>0, <1>5 DEF Drained, HoldOff, WakeUp, TaskDeleted, files, lists
  <1>6. ASSUME NEW t \in Tasks, StartFront(t) PROVE TypeOK'
    <2>1. q.items[1].id \in Ids
      BY <1>6, FrontIsAnItem DEF StartFront
    <2>2. NewJob(q.items[1].id) \in Jobs
      BY <2>1, FreshJobs
    <2> QED BY <1>0, <1>6, <2>2 DEF StartFront, files, lists
  <1>7. ASSUME NEW t \in Tasks, Finish(t) PROVE TypeOK'
    <2>1. NoJob \in Jobs
      BY FreshJobs DEF NoJob
    <2> QED BY <1>0, <1>7, <2>1 DEF Finish, JobInv, files, lists
  <1>8. ASSUME NEW t \in Tasks, Progress(t) PROVE TypeOK'
    BY <1>0, <1>8 DEF Progress, files, lists
  <1>9. CASE Around
    <2>1. NoJob \in Jobs
      BY FreshJobs DEF NoJob
    <2>2. CASE SafetyFlips
      BY <1>0, <2>2 DEF SafetyFlips, memory, files, lists
    <2>3. CASE Reboot
      BY <1>0, <2>1, <2>3 DEF Reboot, files, lists
    <2> QED BY <1>9, <2>2, <2>3 DEF Around
  <1>10. CASE UNCHANGED vars
    BY <1>10 DEF vars, memory, files, lists
  <1> QED
    BY <1>1, <1>2, <1>3, <1>4, <1>5, <1>6, <1>7, <1>8, <1>9, <1>10
       DEF Next, UiStep, WorkerStep, WorkerAction

(* Every step leaves the queue well formed. *)
LEMMA ShapeStep ==
  ASSUME TypeOK, JobInv, WellFormed(q), [Next]_vars
  PROVE  WellFormed(q)'
  <1>1. CASE EnqueueLocked
    <2>1. ui \in Ids
      BY <1>1 DEF EnqueueLocked, TypeOK
    <2>2. WellFormed(EnqueueItem(q, ui))
      BY <2>1, EnqueueKeepsShape
    <2> QED BY <1>1, <2>2 DEF EnqueueLocked
  <1>2. CASE CancelAll
    BY <1>2, CancelEmpties DEF CancelAll
  <1>3. ASSUME NEW t \in Tasks, StartFront(t) PROVE WellFormed(q)'
    BY <1>3, FrontIsAnItem, MarkKeepsShape DEF StartFront
  <1>4. ASSUME NEW t \in Tasks, Finish(t) PROVE WellFormed(q)'
    <2>1. job[t].id \in Ids /\ (job[t].result = "ok") \in BOOLEAN
      BY <1>4 DEF Finish, JobInv, Busy
    <2>2. q' = FinishItem(q, job[t].id, job[t].result = "ok")
      BY <1>4 DEF Finish
    <2> QED BY <2>1, <2>2, FinishKeepsShape
  <1>5. ASSUME NEW t \in Tasks, Progress(t) PROVE WellFormed(q)'
    <2>1. job[t].id \in Ids /\ job[t].got \in 0..Chunks
      BY <1>5 DEF Progress, JobInv, Busy, Fetching, TypeOK, Jobs
    <2> QED BY <1>5, <2>1, ProgressKeepsShape DEF Progress
  <1>6. CASE Reboot
    BY <1>6, EmptyQueueIsWellFormed DEF Reboot
  <1>7. ASSUME q' = q PROVE WellFormed(q)'
    BY <1>7
  <1>8. ASSUME NEW t \in Tasks, WorkerAction(t) PROVE q' = q
    BY <1>8 DEF WorkerAction, PrepareFails, Prepare, ChunkPolls, WriteChunk, WriteFails,
                FetchEnds, Close, Unlink, Rename, RenameFails, ListDownloaded, Mark
  <1>9. ASSUME NEW t \in Tasks, Drained(t) \/ HoldOff(t) \/ WakeUp(t) \/ TaskDeleted(t)
        PROVE  q' = q
    BY <1>9 DEF Drained, HoldOff, WakeUp, TaskDeleted
  <1>10. ASSUME NEW id \in Ids, EnqueueLookup(id) PROVE q' = q
    BY <1>10 DEF EnqueueLookup
  <1>11. CASE SafetyFlips \/ UNCHANGED vars
    BY <1>11 DEF SafetyFlips, vars, memory
  <1> QED
    BY <1>1, <1>2, <1>3, <1>4, <1>5, <1>6, <1>7, <1>8, <1>9, <1>10, <1>11
       DEF Next, UiStep, WorkerStep, WorkerAction, Around

(* Every step keeps the handle and the live task together: the handle is given up in
   the step that ends the task's last look at the queue, and a task is created only
   when there is no handle. *)
LEMMA HandleStep ==
  ASSUME TypeOK, HandleInv, [Next]_vars
  PROVE  HandleInv'
  <1> USE DEF TypeOK, HandleInv, Alive, Busy, Fetching, Goto
  <1>1. ASSUME NEW id \in Ids, EnqueueLookup(id) PROVE HandleInv'
    BY <1>1 DEF EnqueueLookup
  <1>2. CASE EnqueueLocked
    <2>1. CASE UNCHANGED <<taskHandle, pc>>
      BY <2>1
    <2>2. CASE taskHandle = NoTask /\ StartLocked
      <3>1. \A t \in Tasks : pc[t] \notin Alive
        BY <2>2, NoTaskAssumption
      <3> QED BY <2>2, <3>1, NoTaskAssumption DEF StartLocked
    <2> QED BY <1>2, <2>1, <2>2 DEF EnqueueLocked
  <1>3. CASE CancelAll
    BY <1>3 DEF CancelAll
  <1>4. ASSUME NEW t \in Tasks, WorkerAction(t) PROVE HandleInv'
    BY <1>4 DEF WorkerAction, PrepareFails, Prepare, ChunkPolls, WriteChunk, WriteFails,
                FetchEnds, Close, Unlink, Rename, RenameFails, ListDownloaded, Mark
  <1>5. ASSUME NEW t \in Tasks,
               StartFront(t) \/ HoldOff(t) \/ WakeUp(t) \/ Progress(t) \/ Finish(t)
        PROVE  HandleInv'
    BY <1>5 DEF StartFront, HoldOff, WakeUp, Progress, Finish
  <1>6. ASSUME NEW t \in Tasks, Drained(t) PROVE HandleInv'
    BY <1>6, NoTaskAssumption DEF Drained
  <1>7. ASSUME NEW t \in Tasks, TaskDeleted(t) PROVE HandleInv'
    BY <1>7 DEF TaskDeleted
  <1>8. CASE Around
    BY <1>8, NoTaskAssumption DEF Around, SafetyFlips, Reboot, memory
  <1>9. CASE UNCHANGED vars
    BY <1>9 DEF vars, memory
  <1> QED
    BY <1>1, <1>2, <1>3, <1>4, <1>5, <1>6, <1>7, <1>8, <1>9
       DEF Next, UiStep, WorkerStep, WorkerAction

(* Every step keeps what a task may carry at each place, and a task past its poll of
   the flag, when it was told of no cancel, has written nothing too late. *)
LEMMA JobStep ==
  ASSUME TypeOK, WellFormed(q), JobInv, CancelSticks, [Next]_vars
  PROVE  JobInv'
  <1> USE DEF TypeOK, JobInv, Busy, Fetching, Goto
  <1>1. ASSUME NEW id \in Ids, EnqueueLookup(id) PROVE JobInv'
    BY <1>1 DEF EnqueueLookup
  <1>2. CASE EnqueueLocked
    BY <1>2 DEF EnqueueLocked, StartLocked
  <1>3. CASE CancelAll
    <2>1. ASSUME NEW t \in Tasks
          PROVE  job'[t] = job[t] \/ job'[t] = [job[t] EXCEPT !.dropped = TRUE]
      BY <1>3 DEF CancelAll
    <2>2. ASSUME NEW t \in Tasks
          PROVE  /\ job'[t].id = job[t].id /\ job'[t].got = job[t].got
                 /\ job'[t].late = job[t].late
                 /\ job'[t].dropped = job[t].dropped \/ job'[t].dropped = TRUE
      BY <2>1 DEF Jobs
    <2>3. pc' = pc
      BY <1>3 DEF CancelAll
    <2> QED BY <2>2, <2>3
  <1>4. ASSUME NEW t \in Tasks, WorkerAction(t) PROVE JobInv'
    <2> USE DEF Jobs
    <2>1. CASE PrepareFails(t) BY <2>1 DEF PrepareFails
    <2>2. CASE Prepare(t) BY <2>2 DEF Prepare
    <2>3. CASE ChunkPolls(t) BY <2>3 DEF ChunkPolls, CancelSticks
    <2>4. CASE WriteChunk(t) BY <2>4 DEF WriteChunk
    <2>5. CASE WriteFails(t) BY <2>5 DEF WriteFails
    <2>6. CASE FetchEnds(t) BY <2>6 DEF FetchEnds
    <2>7. CASE Close(t) \/ Unlink(t) \/ Rename(t) \/ ListDownloaded(t) \/ Mark(t)
      BY <2>7 DEF Close, Unlink, Rename, ListDownloaded, Mark
    <2>8. CASE RenameFails(t) BY <2>8 DEF RenameFails
    <2> QED BY <1>4, <2>1, <2>2, <2>3, <2>4, <2>5, <2>6, <2>7, <2>8 DEF WorkerAction
  <1>5. ASSUME NEW t \in Tasks, StartFront(t) PROVE JobInv'
    <2>1. q.items[1].id \in Ids
      BY <1>5, FrontIsAnItem DEF StartFront
    <2> QED BY <1>5, <2>1 DEF StartFront, NewJob
  <1>6. ASSUME NEW t \in Tasks, Finish(t) PROVE JobInv'
    BY <1>6 DEF Finish, NoJob, NewJob
  <1>7. ASSUME NEW t \in Tasks,
               Drained(t) \/ HoldOff(t) \/ WakeUp(t) \/ TaskDeleted(t) \/ Progress(t)
        PROVE  JobInv'
    BY <1>7 DEF Drained, HoldOff, WakeUp, TaskDeleted, Progress
  <1>8. CASE Around
    BY <1>8 DEF Around, SafetyFlips, Reboot, memory, NoJob, NewJob
  <1>9. CASE UNCHANGED vars
    BY <1>9 DEF vars, memory
  <1> QED
    BY <1>1, <1>2, <1>3, <1>4, <1>5, <1>6, <1>7, <1>8, <1>9
       DEF Next, UiStep, WorkerStep, WorkerAction

(* Every step keeps a cancelled download's flag set: it is cleared by a new worker, when
   no task is alive, and by the only live task, at the start of a book of its own. *)
LEMMA CancelStep ==
  ASSUME TypeOK, HandleInv, CancelSticks, [Next]_vars
  PROVE  CancelSticks'
  <1> USE DEF TypeOK, CancelSticks, Busy, Fetching, Goto
  <1>1. ASSUME NEW id \in Ids, EnqueueLookup(id) PROVE CancelSticks'
    BY <1>1 DEF EnqueueLookup
  <1>2. CASE EnqueueLocked
    <2>1. CASE UNCHANGED <<cancelRequested, pc>>
      BY <1>2, <2>1 DEF EnqueueLocked
    <2>2. CASE taskHandle = NoTask /\ StartLocked
      <3>1. \A t \in Tasks : pc[t] \notin Alive
        BY <2>2, NoTaskAssumption DEF HandleInv
      <3>2. \A t \in Tasks : pc'[t] \notin Busy
        BY <2>2, <3>1 DEF StartLocked, Alive
      <3> QED BY <3>2
    <2> QED BY <1>2, <2>1, <2>2 DEF EnqueueLocked
  <1>3. CASE CancelAll
    BY <1>3 DEF CancelAll
  <1>4. ASSUME NEW t \in Tasks, WorkerAction(t) PROVE CancelSticks'
    <2> USE DEF Jobs
    <2>1. CASE PrepareFails(t) BY <2>1 DEF PrepareFails
    <2>2. CASE Prepare(t) BY <2>2 DEF Prepare
    <2>3. CASE ChunkPolls(t) BY <2>3 DEF ChunkPolls
    <2>4. CASE WriteChunk(t) BY <2>4 DEF WriteChunk
    <2>5. CASE WriteFails(t) BY <2>5 DEF WriteFails
    <2>6. CASE FetchEnds(t) BY <2>6 DEF FetchEnds
    <2>7. CASE Close(t) \/ Unlink(t) \/ Rename(t) \/ ListDownloaded(t) \/ Mark(t)
      BY <2>7 DEF Close, Unlink, Rename, ListDownloaded, Mark
    <2>8. CASE RenameFails(t) BY <2>8 DEF RenameFails
    <2> QED BY <1>4, <2>1, <2>2, <2>3, <2>4, <2>5, <2>6, <2>7, <2>8 DEF WorkerAction
  <1>5. ASSUME NEW t \in Tasks, StartFront(t) PROVE CancelSticks'
    <2>1. \A u \in Tasks : pc[u] \in Busy => u = t
      BY <1>5, AliveIsOne DEF StartFront, Alive
    <2>2. ~job'[t].dropped
      BY <1>5 DEF StartFront, NewJob
    <2>3. \A u \in Tasks : pc'[u] \in Busy => u = t
      BY <1>5, <2>1 DEF StartFront
    <2> QED BY <2>2, <2>3
  <1>6. ASSUME NEW t \in Tasks, Finish(t) PROVE CancelSticks'
    BY <1>6 DEF Finish
  <1>7. ASSUME NEW t \in Tasks,
               Drained(t) \/ HoldOff(t) \/ WakeUp(t) \/ TaskDeleted(t) \/ Progress(t)
        PROVE  CancelSticks'
    BY <1>7 DEF Drained, HoldOff, WakeUp, TaskDeleted, Progress
  <1>8. CASE Around
    BY <1>8 DEF Around, SafetyFlips, Reboot, memory
  <1>9. CASE UNCHANGED vars
    BY <1>9 DEF vars, memory
  <1> QED
    BY <1>1, <1>2, <1>3, <1>4, <1>5, <1>6, <1>7, <1>8, <1>9
       DEF Next, UiStep, WorkerStep, WorkerAction

(* Every step keeps a downloading front item in the hands of a worker. *)
LEMMA FrontStep ==
  ASSUME TypeOK, WellFormed(q), HandleInv, JobInv, FrontInv, [Next]_vars
  PROVE  FrontInv'
  <1> USE DEF FrontInv, Goto
  <1>1. ASSUME q' = q,
               \A t \in Tasks : pc[t] \in Busy => pc'[t] \in Busy /\ job'[t].id = job[t].id
        PROVE  FrontInv'
    BY <1>1
  <1>2. ASSUME NEW id \in Ids, EnqueueLookup(id) PROVE FrontInv'
    BY <1>2 DEF EnqueueLookup
  <1>3. CASE EnqueueLocked
    <2>1. ui \in Ids /\ job' = job
      BY <1>3 DEF EnqueueLocked, TypeOK
    <2>2. \A t \in Tasks : pc[t] \in Busy => pc'[t] = pc[t]
      BY <1>3 DEF EnqueueLocked, StartLocked, Busy, Fetching, TypeOK
    <2>3. q' = EnqueueItem(q, ui) /\ WellFormed(q')
      BY <1>3, <2>1, EnqueueKeepsShape DEF EnqueueLocked
    <2>4. ASSUME q'.items # <<>>, q'.items[1].status = "Downloading"
          PROVE  q.items # <<>> /\ q.items[1] = q'.items[1]
      <3>1. 1 \in DOMAIN q'.items
        BY <2>3, <2>4, FrontIsAnItem
      <3>2. 1 \in DOMAIN q.items /\ q'.items[1] = q.items[1]
        BY <2>1, <2>3, <2>4, <3>1, EnqueueKeepsShape
      <3> QED BY <3>2
    <2> QED BY <2>1, <2>2, <2>4
  <1>4. CASE CancelAll
    BY <1>4, CancelEmpties DEF CancelAll
  <1>5. ASSUME NEW t \in Tasks, WorkerAction(t) PROVE FrontInv'
    <2>1. q' = q
      BY <1>5 DEF WorkerAction, PrepareFails, Prepare, ChunkPolls, WriteChunk, WriteFails,
                  FetchEnds, Close, Unlink, Rename, RenameFails, ListDownloaded, Mark
    <2>2. \A u \in Tasks : pc[u] \in Busy => pc'[u] \in Busy
      BY <1>5 DEF WorkerAction, PrepareFails, Prepare, ChunkPolls, WriteChunk, WriteFails,
                  FetchEnds, Close, Unlink, Rename, RenameFails, ListDownloaded, Mark, Busy, Fetching, TypeOK
    <2>3. \A u \in Tasks : job'[u].id = job[u].id
      <3>1. ASSUME NEW value, job' = [job EXCEPT ![t].result = value]
            PROVE  \A u \in Tasks : job'[u].id = job[u].id
        BY <3>1 DEF TypeOK, Jobs
      <3>2. CASE Prepare(t) \/ Close(t) \/ Unlink(t) \/ Rename(t) \/ ListDownloaded(t) \/ Mark(t)
        BY <3>2 DEF Prepare, Close, Unlink, Rename, ListDownloaded, Mark
      <3>3. CASE PrepareFails(t) \/ WriteFails(t) \/ RenameFails(t)
        BY <3>1, <3>3 DEF PrepareFails, WriteFails, RenameFails
      <3>4. CASE ChunkPolls(t) \/ FetchEnds(t)
        BY <3>1, <3>4 DEF ChunkPolls, FetchEnds
      <3>5. CASE WriteChunk(t)
        <4> DEFINE late == IF job[t].dropped THEN job[t].late + 1 ELSE job[t].late
        <4>1. job' = [job EXCEPT ![t].got = job[t].got + 1, ![t].late = late]
          BY <3>5 DEF WriteChunk
        <4> HIDE DEF late
        <4> QED BY <4>1 DEF TypeOK, Jobs
      <3> QED BY <1>5, <3>2, <3>3, <3>4, <3>5 DEF WorkerAction
    <2> QED BY <1>1, <2>1, <2>2, <2>3
  <1>6. ASSUME NEW t \in Tasks, StartFront(t) PROVE FrontInv'
    <2>1. q.items # <<>> /\ q.items[1].id \in Ids
      BY <1>6, FrontIsAnItem DEF StartFront
    <2>2. q'.items[1].id = q.items[1].id
      BY <1>6, <2>1, MarkKeepsShape DEF StartFront
    <2>3. pc'[t] \in Busy /\ job'[t].id = q.items[1].id
      BY <1>6 DEF StartFront, Busy, NewJob, TypeOK
    <2> QED BY <2>2, <2>3
  <1>7. ASSUME NEW t \in Tasks, Finish(t) PROVE FrontInv'
    <2>1. job[t].id \in Ids /\ q' = FinishItem(q, job[t].id, job[t].result = "ok")
      BY <1>7 DEF Finish, JobInv, Busy
    <2>2. CASE IsFront(q, job[t].id)
      <3>1. WellFormed(q') /\ \A i \in DOMAIN q'.items : q'.items[i].status # "Downloading"
        <4> DEFINE success == job[t].result = "ok"
        <4>1. WellFormed(q) /\ success \in BOOLEAN
          BY DEF TypeOK
        <4>2. q' = FinishItem(q, job[t].id, success)
          BY <2>1
        <4> HIDE DEF success
        <4> QED BY <2>1, <2>2, <4>1, <4>2, FinishKeepsShape
      <3>2. q'.items # <<>> => 1 \in DOMAIN q'.items
        BY <3>1, FrontIsAnItem
      <3> QED BY <3>1, <3>2
    <2>3. CASE ~IsFront(q, job[t].id)
      <3>1. q' = q
        BY <2>1, <2>3, FinishKeepsShape
      <3>2. \A u \in Tasks : pc[u] \in Busy => u = t
        BY <1>7, AliveIsOne DEF Finish, Alive, Busy
      <3>3. ~(q.items # <<>> /\ q.items[1].status = "Downloading")
        BY <2>3, <3>2 DEF IsFront
      <3> QED BY <3>1, <3>3
    <2> QED BY <2>2, <2>3
  <1>8. ASSUME NEW t \in Tasks, Progress(t) PROVE FrontInv'
    <2>1. job[t].id \in Ids /\ job[t].got \in 0..Chunks
      BY <1>8 DEF Progress, JobInv, Busy, Fetching, TypeOK, Jobs
    <2>2. q' = UpdateProgress(q, job[t].id, job[t].got) /\ WellFormed(q')
      BY <1>8, <2>1, ProgressKeepsShape DEF Progress
    <2>3. ASSUME q'.items # <<>>, q'.items[1].status = "Downloading"
          PROVE  /\ q.items # <<>> /\ q.items[1].status = "Downloading"
                 /\ q'.items[1].id = q.items[1].id
      <3>1. 1 \in DOMAIN q'.items
        BY <2>2, <2>3, FrontIsAnItem
      <3>2. /\ 1 \in DOMAIN q.items
            /\ q'.items[1].id = q.items[1].id /\ q'.items[1].status = q.items[1].status
        BY <2>1, <2>2, <3>1, ProgressKeepsShape
      <3> QED BY <2>3, <3>2
    <2>4. job' = job /\ \A u \in Tasks : pc[u] \in Busy => pc'[u] \in Busy
      BY <1>8 DEF Progress, Busy, Fetching, TypeOK
    <2> QED BY <2>3, <2>4
  <1>9. ASSUME NEW t \in Tasks, Drained(t) \/ HoldOff(t) \/ WakeUp(t) \/ TaskDeleted(t)
        PROVE  FrontInv'
    <2>1. q' = q /\ job' = job
      BY <1>9 DEF Drained, HoldOff, WakeUp, TaskDeleted
    <2>2. \A u \in Tasks : pc[u] \in Busy => pc'[u] \in Busy
      BY <1>9 DEF Drained, HoldOff, WakeUp, TaskDeleted, Busy, Fetching, TypeOK
    <2> QED BY <1>1, <2>1, <2>2
  <1>10. CASE Around
    BY <1>10 DEF Around, SafetyFlips, Reboot, memory, EmptyQueue
  <1>11. CASE UNCHANGED vars
    BY <1>11 DEF vars, memory
  <1> QED
    BY <1>2, <1>3, <1>4, <1>5, <1>6, <1>7, <1>8, <1>9, <1>10, <1>11
       DEF Next, UiStep, WorkerStep, WorkerAction

(* Every step keeps the files as far along as the task that writes them: no other task
   touches the book or its .part file. *)
LEMMA FileStep ==
  ASSUME TypeOK, WellFormed(q), HandleInv, JobInv, FileInv, [Next]_vars
  PROVE  FileInv'
  <1> USE DEF TypeOK, FileInv, NoTruncatedBook, PartComplete, Landed, Fetching, Goto,
              files, lists
  <1>1. ASSUME NEW id \in Ids, EnqueueLookup(id) PROVE FileInv'
    BY <1>1 DEF EnqueueLookup
  <1>2. CASE EnqueueLocked
    BY <1>2 DEF EnqueueLocked, StartLocked
  <1>3. CASE CancelAll
    <2>1. ASSUME NEW t \in Tasks
          PROVE  job'[t] = job[t] \/ job'[t] = [job[t] EXCEPT !.dropped = TRUE]
      BY <1>3 DEF CancelAll
    <2>2. ASSUME NEW t \in Tasks
          PROVE  /\ job'[t].id = job[t].id /\ job'[t].got = job[t].got
                 /\ job'[t].result = job[t].result
      <3>1. ASSUME NEW j \in Jobs, NEW k, k = [j EXCEPT !.dropped = TRUE]
            PROVE  k.id = j.id /\ k.got = j.got /\ k.result = j.result
        BY <3>1 DEF Jobs
      <3>2. job[t] \in Jobs
        OBVIOUS
      <3> HIDE DEF TypeOK, FileInv
      <3> QED BY <2>1, <3>1, <3>2
    <2>3. pc' = pc /\ UNCHANGED <<book, part, remote>>
      BY <1>3 DEF CancelAll
    <2> QED BY <2>2, <2>3
  <1>4. ASSUME NEW t \in Tasks, WorkerAction(t) PROVE FileInv'
    <2>1. pc[t] \in Busy /\ job[t].id \in Ids
      BY <1>4 DEF WorkerAction, PrepareFails, Prepare, ChunkPolls, WriteChunk, WriteFails,
                  FetchEnds, Close, Unlink, Rename, RenameFails, ListDownloaded, Mark, Busy, JobInv
    <2>2. \A u \in Tasks : u # t => pc[u] \notin Busy
      BY <2>1, AliveIsOne DEF Alive
    <2> USE DEF Jobs, Busy
    <2>3. CASE PrepareFails(t) BY <2>1, <2>2, <2>3 DEF PrepareFails
    <2>4. CASE Prepare(t) BY <2>1, <2>2, <2>4, ChunksAssumption DEF Prepare, JobInv
    <2>5. CASE ChunkPolls(t) BY <2>1, <2>2, <2>5 DEF ChunkPolls
    <2>6. CASE WriteChunk(t) BY <2>1, <2>2, <2>6 DEF WriteChunk
    <2>7. CASE WriteFails(t) BY <2>1, <2>2, <2>7 DEF WriteFails
    <2>8. CASE FetchEnds(t) BY <2>1, <2>2, <2>8 DEF FetchEnds
    <2>9. CASE Close(t) BY <2>1, <2>2, <2>9 DEF Close
    <2>10. CASE Unlink(t) BY <2>1, <2>2, <2>10 DEF Unlink
    <2>11. CASE Rename(t) BY <2>1, <2>2, <2>11 DEF Rename
    <2>12. CASE RenameFails(t) BY <2>1, <2>2, <2>12 DEF RenameFails
    <2>13. CASE ListDownloaded(t) BY <2>1, <2>2, <2>13 DEF ListDownloaded
    <2>14. CASE Mark(t) BY <2>1, <2>2, <2>14 DEF Mark
    <2> QED
      BY <1>4, <2>3, <2>4, <2>5, <2>6, <2>7, <2>8, <2>9, <2>10, <2>11, <2>12, <2>13, <2>14
         DEF WorkerAction
  <1>5. ASSUME NEW t \in Tasks, StartFront(t) PROVE FileInv'
    BY <1>5 DEF StartFront
  <1>6. ASSUME NEW t \in Tasks, Finish(t) PROVE FileInv'
    BY <1>6 DEF Finish
  <1>7. ASSUME NEW t \in Tasks,
               Drained(t) \/ HoldOff(t) \/ WakeUp(t) \/ TaskDeleted(t) \/ Progress(t)
        PROVE  FileInv'
    BY <1>7 DEF Drained, HoldOff, WakeUp, TaskDeleted, Progress
  <1>8. CASE Around
    BY <1>8 DEF Around, SafetyFlips, Reboot, memory
  <1>9. CASE UNCHANGED vars
    BY <1>9 DEF vars, memory
  <1> QED
    BY <1>1, <1>2, <1>3, <1>4, <1>5, <1>6, <1>7, <1>8, <1>9
       DEF Next, UiStep, WorkerStep, WorkerAction

-----------------------------------------------------------------------------

(* Every step preserves the invariant. *)
LEMMA InvStep == IInv /\ [Next]_vars => IInv'
  BY ShapeStep, TypeStep, HandleStep, JobStep, CancelStep, FrontStep, FileStep DEF IInv

(* The invariant holds in every reachable state. *)
THEOREM Invariance == Spec => []IInv
  BY InitIInv, InvStep, PTL DEF Spec

(* The types of DownloadQueue are those it declares. *)
THEOREM TypeCorrect == Spec => []TypeOK
  BY Invariance, PTL DEF IInv

(* Two worker tasks never work on a book at once. *)
THEOREM Sequential == Spec => []OneDownload
  <1>1. IInv => OneDownload
    BY AliveIsOne DEF IInv, OneDownload, Alive
  <1> QED BY Invariance, <1>1, PTL

(* The queue is bounded, without duplicates, and shows as downloading only the book
   a worker has. *)
THEOREM Shape == Spec => []QueueShape
  <1>1. IInv => QueueShape
    <2> SUFFICES ASSUME IInv PROVE QueueShape
      OBVIOUS
    <2>1. Len(q.items) <= MaxQueue /\ Distinct(q) /\ OnlyFrontDownloads(q)
      BY DEF IInv, WellFormed
    <2>2. ASSUME NEW i \in DOMAIN q.items, q.items[i].status = "Downloading"
          PROVE  i = 1 /\ \E t \in Tasks : pc[t] \in Busy /\ job[t].id = q.items[1].id
      <3>1. i = 1
        BY <2>1, <2>2 DEF OnlyFrontDownloads
      <3>2. q.items # <<>>
        BY <2>2
      <3> QED BY <2>2, <3>1, <3>2 DEF IInv, FrontInv
    <2> QED BY <2>1, <2>2 DEF QueueShape, Distinct
  <1> QED BY Invariance, <1>1, PTL

(* A cancel stays in force until the download it hit has returned. *)
THEOREM CancelIsKept == Spec => []CancelSticks
  BY Invariance, PTL DEF IInv

(* At most one chunk is written after a cancel. *)
THEOREM CancelIsPrompt == Spec => []StopsAtChunkBoundary
  <1>1. IInv => StopsAtChunkBoundary
    BY DEF IInv, JobInv, StopsAtChunkBoundary
  <1> QED BY Invariance, <1>1, PTL

(* No interruption leaves a truncated book at the book's own path. *)
THEOREM NeverTruncated == Spec => []NoTruncatedBook
  BY Invariance, PTL DEF IInv, FileInv

(* The index flag of a book is set after its file is in place. *)
THEOREM FlagAfterFile == Spec => FlagFollowsFile
  <1>1. IInv /\ [Next]_vars => [\A id \in marked' \ marked : book[id] = "complete"]_vars
    <2> SUFFICES ASSUME IInv, [Next]_vars
                 PROVE  \A id \in marked' \ marked : book[id] = "complete"
      OBVIOUS
    <2>1. ASSUME NEW t \in Tasks, Mark(t)
          PROVE  \A id \in marked' \ marked : book[id] = "complete"
      BY <2>1 DEF Mark, IInv, FileInv, Landed
    <2>2. CASE marked' = marked
      BY <2>2
    <2>3. ASSUME NEW t \in Tasks, WorkerAction(t), ~Mark(t) PROVE marked' = marked
      BY <2>3 DEF WorkerAction, PrepareFails, Prepare, ChunkPolls, WriteChunk, WriteFails,
                  FetchEnds, Close, Unlink, Rename, RenameFails, ListDownloaded, lists
    <2>4. ASSUME NEW t \in Tasks, Drained(t) \/ StartFront(t) \/ HoldOff(t) \/ WakeUp(t)
                                  \/ TaskDeleted(t) \/ Progress(t) \/ Finish(t)
          PROVE  marked' = marked
      BY <2>4 DEF Drained, StartFront, HoldOff, WakeUp, TaskDeleted, Progress, Finish, lists
    <2>5. CASE UiStep \/ Around \/ UNCHANGED vars
      BY <2>2, <2>5 DEF UiStep, EnqueueLookup, EnqueueLocked, CancelAll, Around,
                        SafetyFlips, Reboot, vars, lists
    <2> QED
      BY <2>1, <2>2, <2>3, <2>4, <2>5 DEF Next, WorkerStep, WorkerAction
  <1> QED BY Invariance, <1>1, PTL DEF Spec, FlagFollowsFile

(* A completion is counted only for a book that is in place and no longer remote. *)
THEOREM CompletionAfterFile == Spec => CompletionMeansFile
  <1> DEFINE Counted == q'.completions > q.completions =>
                          /\ book[q'.last.id] = "complete"
                          /\ q'.last.id \notin remote
  <1>1. IInv /\ [Next]_vars => Counted
    <2> SUFFICES ASSUME IInv, [Next]_vars PROVE Counted
      OBVIOUS
    <2>1. ASSUME NEW t \in Tasks, Finish(t) PROVE Counted
      <3>1. /\ job[t].id \in Ids /\ q' = FinishItem(q, job[t].id, job[t].result = "ok")
            /\ (job[t].result = "ok") \in BOOLEAN
        BY <2>1 DEF Finish, IInv, JobInv, Busy
      <3>2. q'.completions > q.completions =>
              job[t].result = "ok" /\ q'.last.id = job[t].id
        BY <3>1, FinishKeepsShape DEF IInv
      <3> QED BY <2>1, <3>2 DEF Finish, IInv, FileInv, Landed
    <2>2. ASSUME q'.completions <= q.completions PROVE Counted
      <3>1. q'.completions \in Nat /\ q.completions \in Nat
        BY TypeStep, ShapeStep DEF IInv, TypeOK, Queues
      <3> QED BY <2>2, <3>1
    <2>3. q.completions \in Nat
      BY DEF IInv, TypeOK, Queues
    <2>4. ASSUME NEW t \in Tasks, StartFront(t) \/ Progress(t)
          PROVE  q'.completions <= q.completions
      <3>1. \A id \in Ids : MarkDownloading(q, id).completions = q.completions
        BY DEF MarkDownloading, IInv, TypeOK, Queues
      <3>2. \A id \in Ids, got \in 0..Chunks :
              UpdateProgress(q, id, got).completions = q.completions
        BY DEF UpdateProgress, IInv, TypeOK, Queues
      <3>3. CASE StartFront(t)
        BY <2>3, <3>1, <3>3, FrontIsAnItem DEF StartFront, IInv
      <3>4. CASE Progress(t)
        BY <2>3, <3>2, <3>4 DEF Progress, IInv, JobInv, Busy, Fetching, TypeOK, Jobs
      <3> QED BY <2>4, <3>3, <3>4
    <2>5. ASSUME NEW t \in Tasks, WorkerAction(t) \/ Drained(t) \/ HoldOff(t) \/ WakeUp(t)
                                  \/ TaskDeleted(t)
          PROVE  q' = q
      BY <2>5 DEF WorkerAction, PrepareFails, Prepare, ChunkPolls, WriteChunk, WriteFails,
                  FetchEnds, Close, Unlink, Rename, RenameFails, ListDownloaded, Mark,
                  Drained, HoldOff, WakeUp, TaskDeleted
    <2>6. CASE UiStep
      <3>1. ASSUME NEW id \in Ids PROVE EnqueueItem(q, id).completions = q.completions
        BY DEF EnqueueItem, IInv, TypeOK, Queues
      <3>2. CancelItems(q).completions = q.completions
        BY DEF CancelItems, IInv, TypeOK, Queues
      <3>3. q'.completions = q.completions
        BY <2>6, <3>1, <3>2
           DEF UiStep, EnqueueLookup, EnqueueLocked, CancelAll, IInv, TypeOK
      <3> QED BY <2>2, <2>3, <3>3
    <2>7. CASE Around \/ UNCHANGED vars
      <3>1. q'.completions <= q.completions
        BY <2>3, <2>7 DEF Around, SafetyFlips, Reboot, EmptyQueue, vars, memory
      <3> QED BY <2>2, <3>1
    <2> QED
      BY <2>1, <2>2, <2>3, <2>4, <2>5, <2>6, <2>7 DEF Next, WorkerStep, WorkerAction
  <1>2. IInv /\ [Next]_vars => [Counted]_vars
    BY <1>1
  <1> QED BY Invariance, <1>2, PTL DEF Spec, CompletionMeansFile

-----------------------------------------------------------------------------
(* Each step of the program, seen as a move of the queue alone. *)

Operation ==
    \/ q' = q
    \/ \E id \in Ids : q' = EnqueueItem(q, id)
    \/ q' = CancelItems(q)
    \/ \E id \in Ids : q' = MarkDownloading(q, id)
    \/ \E id \in Ids, got \in 0..Chunks : q' = UpdateProgress(q, id, got)
    \/ \E id \in Ids, ok \in BOOLEAN : q' = FinishItem(q, id, ok)

QueueMove == Operation \/ q' = EmptyQueue

\* A step, or none, with the power on.
PoweredStep ==
    UiStep \/ (\E t \in Tasks : WorkerStep(t)) \/ SafetyFlips \/ UNCHANGED vars

(* Whatever a step short of a reboot does, it does one operation of QueueState or none. *)
LEMMA PoweredStepOperates == IInv /\ PoweredStep => Operation
  <1> SUFFICES ASSUME IInv, PoweredStep PROVE Operation
    OBVIOUS
  <1>1. CASE UiStep
    BY <1>1 DEF UiStep, EnqueueLookup, EnqueueLocked, CancelAll, Operation, IInv, TypeOK
  <1>2. ASSUME NEW t \in Tasks, StartFront(t) PROVE Operation
    BY <1>2, FrontIsAnItem DEF StartFront, Operation, IInv
  <1>3. ASSUME NEW t \in Tasks, Progress(t) PROVE Operation
    BY <1>3 DEF Progress, Operation, IInv, JobInv, Busy, Fetching, TypeOK, Jobs
  <1>4. ASSUME NEW t \in Tasks, Finish(t) PROVE Operation
    <2>1. job[t].id \in Ids /\ (job[t].result = "ok") \in BOOLEAN
      BY <1>4 DEF Finish, IInv, JobInv, Busy
    <2> QED BY <1>4, <2>1 DEF Finish, Operation
  <1>5. ASSUME NEW t \in Tasks, WorkerAction(t) \/ Drained(t) \/ HoldOff(t) \/ WakeUp(t)
                                \/ TaskDeleted(t)
        PROVE  Operation
    BY <1>5 DEF Operation, WorkerAction, PrepareFails, Prepare, ChunkPolls, WriteChunk,
                WriteFails, FetchEnds, Close, Unlink, Rename, RenameFails, ListDownloaded, Mark,
                Drained, HoldOff, WakeUp, TaskDeleted
  <1>6. CASE SafetyFlips \/ UNCHANGED vars
    BY <1>6 DEF SafetyFlips, Operation, vars, memory
  <1> QED BY <1>1, <1>2, <1>3, <1>4, <1>5, <1>6 DEF PoweredStep, WorkerStep, WorkerAction

(* And a reboot empties it. *)
LEMMA EveryStepIsAMove == IInv /\ [Next]_vars => QueueMove
  BY PoweredStepOperates DEF PoweredStep, Next, Around, QueueMove, Reboot

(* No operation takes a counter back, and one that changes what a screen shows of the
   queue changes generation. *)
LEMMA OperationsAreCounted ==
  ASSUME IInv, Operation
  PROVE  /\ q'.generation >= q.generation
         /\ q'.completions >= q.completions
         /\ View(q') # View(q) => q'.generation > q.generation
  <1> DEFINE Counted == /\ q'.generation >= q.generation
                        /\ q'.completions >= q.completions
                        /\ View(q') # View(q) => q'.generation > q.generation
  <1>1. WellFormed(q) /\ q.generation \in Nat /\ q.completions \in Nat
    BY DEF IInv, WellFormed, Queues
  <1>2. ASSUME q'.generation = q.generation + 1,
               q'.completions \in {q.completions, q.completions + 1}
        PROVE  Counted
    BY <1>1, <1>2
  <1>3. CASE q' = q
    BY <1>1, <1>3
  <1>4. ASSUME NEW id \in Ids, q' = EnqueueItem(q, id) PROVE Counted
    BY <1>1, <1>2, <1>3, <1>4, EnqueueJoins
  <1>5. CASE q' = CancelItems(q)
    BY <1>1, <1>2, <1>3, <1>5, CancelGivesUp
  <1>6. ASSUME NEW id \in Ids, q' = MarkDownloading(q, id) PROVE Counted
    BY <1>1, <1>2, <1>3, <1>6, MarkKeepsLine
  <1>7. ASSUME NEW id \in Ids, NEW got \in 0..Chunks, q' = UpdateProgress(q, id, got)
        PROVE  Counted
    BY <1>1, <1>7, ProgressKeepsLine
  <1>8. ASSUME NEW id \in Ids, NEW ok \in BOOLEAN, q' = FinishItem(q, id, ok)
        PROVE  Counted
    BY <1>1, <1>2, <1>3, <1>8, FinishLeaves
  <1> QED BY <1>3, <1>4, <1>5, <1>6, <1>7, <1>8 DEF Operation

(* A move that changes what a screen shows of the queue changes generation, and the
   counters never go back, except at a reboot. *)
THEOREM ChangesCounted == Spec => ChangesAreCounted
  <1>1. IInv /\ [Next]_vars =>
          [q # q' => \/ q' = EmptyQueue
                     \/ /\ q'.generation >= q.generation
                        /\ q'.completions >= q.completions
                        /\ View(q') # View(q) => q'.generation > q.generation]_vars
    BY EveryStepIsAMove, OperationsAreCounted DEF QueueMove
  <1> QED BY Invariance, <1>1, PTL DEF Spec, ChangesAreCounted

(* DownloadQueue implements BookFifo: with the tasks, the lock, the flag and the files
   hidden, it is a bounded line of books of which only the first leaves, reported. *)
THEOREM ImplementsBookFifo == Spec => FifoSpec
  <1>1. Init => Fifo!Init
    <2> SUFFICES ASSUME Init PROVE Fifo!Init
      OBVIOUS
    <2>1. q = EmptyQueue /\ q.items = <<>>
      BY DEF Init, EmptyQueue
    <2>2. Line(q) = <<>>
      BY <2>1, EmptyQueueIsWellFormed, LineIsASeq
    <2> QED BY <2>1, <2>2 DEF Fifo!Init, Fifo!NoOutcome, EmptyQueue, NoResult
  <1>2. IInv /\ [Next]_vars => [Fifo!Next]_(Fifo!vars)
    <2> SUFFICES ASSUME IInv, QueueMove PROVE [Fifo!Next]_(Fifo!vars)
      BY EveryStepIsAMove
    <2> USE DEF Fifo!Next, Fifo!vars
    <2>1. WellFormed(q)
      BY DEF IInv
    <2>2. CASE q' = q
      BY <2>2
    <2>3. ASSUME NEW id \in Ids, q' = EnqueueItem(q, id), q' # q
          PROVE  Fifo!Join(id)
      BY <2>1, <2>3, EnqueueJoins DEF Fifo!Join, Fifo!InLine
    <2>4. CASE q' = CancelItems(q) /\ q' # q
      BY <2>1, <2>4, CancelGivesUp DEF Fifo!GiveUp
    <2>5. ASSUME NEW id \in Ids, q' = MarkDownloading(q, id)
          PROVE  UNCHANGED Fifo!vars
      BY <2>1, <2>2, <2>5, MarkKeepsLine
    <2>6. ASSUME NEW id \in Ids, NEW got \in 0..Chunks, q' = UpdateProgress(q, id, got)
          PROVE  UNCHANGED Fifo!vars
      BY <2>1, <2>6, ProgressKeepsLine
    <2>7. ASSUME NEW id \in Ids, NEW ok \in BOOLEAN, q' = FinishItem(q, id, ok), q' # q
          PROVE  Fifo!Leave(ok)
      <3>1. /\ Line(q) # <<>> /\ Head(Line(q)) = id
            /\ Line(q') = Tail(Line(q))
            /\ q'.last = [has |-> TRUE, id |-> id, ok |-> ok]
            /\ q'.completions = IF ok THEN q.completions + 1 ELSE q.completions
        BY <2>1, <2>7, FinishLeaves
      <3>2. q'.last.has = TRUE /\ q'.last.id = id /\ q'.last.ok = ok
        BY <3>1
      <3> QED BY <3>1, <3>2 DEF Fifo!Leave
    <2>8. CASE q' = EmptyQueue
      <3>1. Line(q') = <<>>
        BY <2>8, EmptyQueueIsWellFormed, LineIsASeq DEF EmptyQueue
      <3> QED BY <2>8, <3>1 DEF Fifo!PowerOff, Fifo!NoOutcome, EmptyQueue, NoResult
    <2> QED BY <2>2, <2>3, <2>4, <2>5, <2>6, <2>7, <2>8 DEF QueueMove, Operation
  <1> QED BY Invariance, <1>1, <1>2, PTL DEF Spec, FifoSpec, Fifo!Spec
=============================================================================
