----------------------------- MODULE QueueState -----------------------------
(***************************************************************************)
(* The bounded FIFO behind the download queue (lib/DownloadQueue): pure     *)
(* operators on a record, no task and no lock.  A book is named by its      *)
(* manifest id; its path follows from the id and is left out, and its byte  *)
(* count is the number of HTTP chunks received.                             *)
(***************************************************************************)
EXTENDS Naturals, Sequences

CONSTANTS Ids,        \* manifest ids of the books
          MaxQueue,   \* MAX_QUEUE
          Chunks      \* HTTP chunks that make up one book

ASSUME MaxQueueAssumption == MaxQueue \in Nat \ {0}
ASSUME ChunksAssumption == Chunks \in Nat \ {0}

Statuses == {"Pending", "Downloading"}

QueueItem == [id : Ids, status : Statuses, got : 0..Chunks]

NoResult == [has |-> FALSE]
LastResult == {NoResult} \cup [has : {TRUE}, id : Ids, ok : BOOLEAN]

Queues == [items : Seq(QueueItem), last : LastResult,
           generation : Nat, completions : Nat]

EmptyQueue == [items |-> <<>>, last |-> NoResult, generation |-> 0, completions |-> 0]

\* What a screen shows of the queue: who is in it and each one's status.
View(q) == [i \in DOMAIN q.items |-> <<q.items[i].id, q.items[i].status>>]

\* The books of the queue in their order.
Line(q) == [i \in DOMAIN q.items |-> q.items[i].id]

Contains(q, id) == \E i \in DOMAIN q.items : q.items[i].id = id

IsFront(q, id) == q.items # <<>> /\ q.items[1].id = id

\* Mutant: a book that is already queued is taken again.
EnqueueResultTwice(q, id) == IF Len(q.items) >= MaxQueue THEN "Full" ELSE "Ok"

EnqueueResult(q, id) ==
    IF Contains(q, id) THEN "AlreadyQueued"
    ELSE IF Len(q.items) >= MaxQueue THEN "Full" ELSE "Ok"

NewItem(id) == [id |-> id, status |-> "Pending", got |-> 0]

EnqueueItem(q, id) ==
    IF EnqueueResult(q, id) = "Ok"
    THEN [q EXCEPT !.items = Append(@, NewItem(id)), !.generation = @ + 1]
    ELSE q

MarkDownloading(q, id) ==
    IF IsFront(q, id) /\ q.items[1].status # "Downloading"
    THEN [q EXCEPT !.items[1].status = "Downloading", !.generation = @ + 1]
    ELSE q

UpdateProgress(q, id, got) ==
    IF IsFront(q, id) THEN [q EXCEPT !.items[1].got = got] ELSE q

\* Mutants: the result is taken for whatever is in front, and reported as the
\* front's (the first) or as the dropped book's (the second).
FinishItemBlames(q, id, ok) ==
    IF q.items = <<>> THEN q
    ELSE [items |-> Tail(q.items),
          last |-> [has |-> TRUE, id |-> q.items[1].id, ok |-> ok],
          generation |-> q.generation + 1,
          completions |-> IF ok THEN q.completions + 1 ELSE q.completions]

FinishItemUnasked(q, id, ok) ==
    IF q.items = <<>> THEN q
    ELSE [items |-> Tail(q.items),
          last |-> [has |-> TRUE, id |-> id, ok |-> ok],
          generation |-> q.generation + 1,
          completions |-> IF ok THEN q.completions + 1 ELSE q.completions]

FinishItem(q, id, ok) ==
    IF IsFront(q, id)
    THEN [items |-> Tail(q.items),
          last |-> [has |-> TRUE, id |-> id, ok |-> ok],
          generation |-> q.generation + 1,
          completions |-> IF ok THEN q.completions + 1 ELSE q.completions]
    ELSE q

\* Mutant: the queue is emptied and nobody is told.
CancelItemsUncounted(q) == [q EXCEPT !.items = <<>>]

CancelItems(q) ==
    IF q.items = <<>> THEN q ELSE [q EXCEPT !.items = <<>>, !.generation = @ + 1]
=============================================================================
