--------------------------- MODULE DownloadQueue ---------------------------
(***************************************************************************)
(* The download queue of src/sync/DownloadQueue.cpp: the UI task that       *)
(* enqueues and cancels, the FreeRTOS worker task that is created on the    *)
(* first enqueue and deletes itself when the queue is empty, and the        *)
(* download of one book (src/sync/BookDownloader.cpp) with its .part file.  *)
(*                                                                          *)
(* One action is one critical section of Worker::mutex_, one access to the  *)
(* SD card, or one return to the caller of the HTTP callback.  Everything   *)
(* in RAM is lost by Reboot; the files, the index and the recency list are  *)
(* not.                                                                     *)
(***************************************************************************)
EXTENDS QueueState

CONSTANTS Tasks,           \* identities a worker task can have
          NoTask,          \* taskHandle_ == nullptr
          NoId,            \* no book
          CreateMayFail,   \* xTaskCreate may return an error
          MaxGeneration    \* bound on the moves of the queue between two reboots

ASSUME NoTaskAssumption == NoTask \notin Tasks
ASSUME NoIdAssumption == NoId \notin Ids
ASSUME CreateMayFailAssumption == CreateMayFail \in BOOLEAN
ASSUME MaxGenerationAssumption == MaxGeneration \in Nat

VARIABLES q,                \* state_
          taskHandle,       \* taskHandle_
          cancelRequested,  \* cancelRequested_, read without the mutex
          ui,               \* the id between findById() and the lock, in enqueue()
          pc,               \* where each worker task is
          job,              \* the book each worker task works on
          book,             \* the file at the book's own path
          part,             \* the .part file next to it
          marked,           \* ids whose downloaded flag is set in the manifest index
          remote,           \* ids the recency list still shows as not downloaded
          safe,             \* what safetyCheck_() answers
          silent            \* history: books that landed and finish() did not report

memory == <<q, taskHandle, cancelRequested, ui, pc, job>>
files == <<book, part>>
lists == <<marked, remote>>
vars == <<memory, files, lists, safe, silent>>

Fetching == {"chunk", "write", "progress"}
Busy == Fetching \cup {"prepare", "close", "unlink", "rename", "list", "mark", "finish"}
Alive == Busy \cup {"pick", "idle"}
Places == Alive \cup {"none", "exit"}

Results == {"ok", "failed", "cancelled"}
Contents == {"absent", "partial", "complete"}

(* dropped and late are history: cancelAll() took the book out of the queue
   while it was being downloaded, and how many chunks were written since. *)
NewJob(id) == [id |-> id, got |-> 0, result |-> "ok", dropped |-> FALSE, late |-> 0]
NoJob == NewJob(NoId)
Jobs == [id : Ids \cup {NoId}, got : 0..Chunks, result : Results,
         dropped : BOOLEAN, late : Nat]

Init ==
    /\ q = EmptyQueue
    /\ taskHandle = NoTask
    /\ cancelRequested = FALSE
    /\ ui = NoId
    /\ pc = [t \in Tasks |-> "none"]
    /\ job = [t \in Tasks |-> NoJob]
    /\ book \in [Ids -> {"absent", "complete"}]
    /\ part = [id \in Ids |-> "absent"]
    /\ marked = {id \in Ids : book[id] = "complete"}
    /\ remote = Ids \ marked
    /\ safe = TRUE
    /\ silent = {}

Goto(t, place) == pc' = [pc EXCEPT ![t] = place]

-----------------------------------------------------------------------------
(* The UI task: enqueue() and cancelAll(). *)

\* isPaired() and findById() are read before the mutex is taken; when one of
\* them says no, nothing changes.
EnqueueLookup(id) ==
    /\ ui = NoId
    /\ q.generation < MaxGeneration
    /\ ui' = id
    /\ UNCHANGED <<q, taskHandle, cancelRequested, pc, job, files, lists, safe, silent>>

\* The caller holds the mutex and has seen taskHandle_ == nullptr.
StartLocked ==
    /\ cancelRequested' = FALSE
    /\ \/ \E t \in Tasks :
            /\ pc[t] = "none"
            /\ Goto(t, "pick")
            /\ taskHandle' = t
       \/ /\ CreateMayFail
          /\ taskHandle' = NoTask
          /\ UNCHANGED pc

\* Mutant: every enqueue starts a worker, handle or no handle.
EnqueueAlwaysStarts ==
    /\ ui # NoId
    /\ q' = EnqueueItem(q, ui)
    /\ IF EnqueueResult(q, ui) = "Ok"
       THEN StartLocked
       ELSE UNCHANGED <<taskHandle, cancelRequested, pc>>
    /\ ui' = NoId
    /\ UNCHANGED <<job, files, lists, safe, silent>>

\* Mutant: the flag is cleared for a worker that is already running.
EnqueueClearsFlag ==
    /\ ui # NoId
    /\ q' = EnqueueItem(q, ui)
    /\ IF EnqueueResult(q, ui) = "Ok" /\ taskHandle = NoTask
       THEN StartLocked
       ELSE cancelRequested' = FALSE /\ UNCHANGED <<taskHandle, pc>>
    /\ ui' = NoId
    /\ UNCHANGED <<job, files, lists, safe, silent>>

EnqueueLocked ==
    /\ ui # NoId
    /\ q' = EnqueueItem(q, ui)
    /\ IF EnqueueResult(q, ui) = "Ok" /\ taskHandle = NoTask
       THEN StartLocked
       ELSE UNCHANGED <<taskHandle, cancelRequested, pc>>
    /\ ui' = NoId
    /\ UNCHANGED <<job, files, lists, safe, silent>>

CancelAll ==
    /\ ui = NoId
    /\ cancelRequested' = TRUE
    /\ q' = CancelItems(q)
    /\ job' = [t \in Tasks |-> IF pc[t] \in Busy THEN [job[t] EXCEPT !.dropped = TRUE]
                                                 ELSE job[t]]
    /\ UNCHANGED <<taskHandle, ui, pc, files, lists, safe, silent>>

-----------------------------------------------------------------------------
(* The worker task: run(). *)

\* Mutant: the worker waits for more books instead of leaving.
DrainedStays(t) ==
    /\ pc[t] = "pick"
    /\ q.items = <<>>
    /\ Goto(t, "idle")
    /\ UNCHANGED <<q, taskHandle, cancelRequested, ui, job, files, lists, safe, silent>>

\* The queue is empty: give up the handle; the task itself is still running.
Drained(t) ==
    /\ pc[t] = "pick"
    /\ q.items = <<>>
    /\ taskHandle' = NoTask
    /\ Goto(t, "exit")
    /\ UNCHANGED <<q, cancelRequested, ui, job, files, lists, safe, silent>>

StartFront(t) ==
    /\ pc[t] = "pick"
    /\ q.items # <<>>
    /\ safe
    /\ LET id == q.items[1].id IN
         /\ q' = MarkDownloading(q, id)
         /\ job' = [job EXCEPT ![t] = NewJob(id)]
    /\ cancelRequested' = FALSE
    /\ Goto(t, "prepare")
    /\ UNCHANGED <<taskHandle, ui, files, lists, safe, silent>>

\* Mutant: an unsafe moment ends the task, and its handle stays.
HoldOffLeaves(t) ==
    /\ pc[t] = "pick"
    /\ q.items # <<>>
    /\ ~safe
    /\ Goto(t, "exit")
    /\ UNCHANGED <<q, taskHandle, cancelRequested, ui, job, files, lists, safe, silent>>

HoldOff(t) ==
    /\ pc[t] = "pick"
    /\ q.items # <<>>
    /\ ~safe
    /\ Goto(t, "idle")
    /\ UNCHANGED <<q, taskHandle, cancelRequested, ui, job, files, lists, safe, silent>>

WakeUp(t) ==
    /\ pc[t] = "idle"
    /\ Goto(t, "pick")
    /\ UNCHANGED <<q, taskHandle, cancelRequested, ui, job, files, lists, safe, silent>>

Finish(t) ==
    /\ pc[t] = "finish"
    /\ q' = FinishItem(q, job[t].id, job[t].result = "ok")
    /\ job' = [job EXCEPT ![t] = NoJob]
    /\ silent' = IF job[t].result = "ok" /\ ~IsFront(q, job[t].id)
                 THEN silent \cup {job[t].id} ELSE silent
    /\ Goto(t, "pick")
    /\ UNCHANGED <<taskHandle, cancelRequested, ui, files, lists, safe>>

TaskDeleted(t) ==
    /\ pc[t] = "exit"
    /\ Goto(t, "none")
    /\ UNCHANGED <<q, taskHandle, cancelRequested, ui, job, files, lists, safe, silent>>

-----------------------------------------------------------------------------
(* One book: book_downloader::download(). *)

\* Fails before the request: unpaired, gone from the index, or no folder or
\* temp file to be had.  Only the last one has removed the stale .part.
PrepareFails(t) ==
    /\ pc[t] = "prepare"
    /\ job' = [job EXCEPT ![t].result = "failed"]
    /\ part' \in {part, [part EXCEPT ![job[t].id] = "absent"]}
    /\ Goto(t, "finish")
    /\ UNCHANGED <<q, taskHandle, cancelRequested, ui, book, lists, safe, silent>>

Prepare(t) ==
    /\ pc[t] = "prepare"
    /\ part' = [part EXCEPT ![job[t].id] = "partial"]
    /\ Goto(t, "chunk")
    /\ UNCHANGED <<q, taskHandle, cancelRequested, ui, job, book, lists, safe, silent>>

\* Mutant: the flag is polled before the first chunk only.
ChunkPollsOnce(t) ==
    /\ pc[t] = "chunk"
    /\ job[t].got < Chunks
    /\ IF cancelRequested /\ job[t].got = 0
       THEN /\ job' = [job EXCEPT ![t].result = "cancelled"]
            /\ Goto(t, "close")
       ELSE Goto(t, "write") /\ UNCHANGED job
    /\ UNCHANGED <<q, taskHandle, cancelRequested, ui, files, lists, safe, silent>>

\* The callback for the next chunk first polls the cancel flag.
ChunkPolls(t) ==
    /\ pc[t] = "chunk"
    /\ job[t].got < Chunks
    /\ IF cancelRequested
       THEN /\ job' = [job EXCEPT ![t].result = "cancelled"]
            /\ Goto(t, "close")
       ELSE Goto(t, "write") /\ UNCHANGED job
    /\ UNCHANGED <<q, taskHandle, cancelRequested, ui, files, lists, safe, silent>>

WriteChunk(t) ==
    /\ pc[t] = "write"
    /\ job' = [job EXCEPT ![t].got = @ + 1,
                          ![t].late = IF job[t].dropped THEN @ + 1 ELSE @]
    /\ part' = [part EXCEPT ![job[t].id] =
                    IF job[t].got + 1 = Chunks THEN "complete" ELSE "partial"]
    /\ Goto(t, "progress")
    /\ UNCHANGED <<q, taskHandle, cancelRequested, ui, book, lists, safe, silent>>

WriteFails(t) ==
    /\ pc[t] = "write"
    /\ job' = [job EXCEPT ![t].result = "failed"]
    /\ Goto(t, "close")
    /\ UNCHANGED <<q, taskHandle, cancelRequested, ui, files, lists, safe, silent>>

Progress(t) ==
    /\ pc[t] = "progress"
    /\ q' = UpdateProgress(q, job[t].id, job[t].got)
    /\ Goto(t, "chunk")
    /\ UNCHANGED <<taskHandle, cancelRequested, ui, job, files, lists, safe, silent>>

\* Mutant: a body cut short counts as downloaded.
FetchEndsShort(t) ==
    /\ pc[t] = "chunk"
    /\ Goto(t, "close")
    /\ UNCHANGED <<q, taskHandle, cancelRequested, ui, job, files, lists, safe, silent>>

\* fetchUrl() returns: with the whole body, or short of it (connection lost,
\* timeout, a status other than 200, an empty body).
FetchEnds(t) ==
    /\ pc[t] = "chunk"
    /\ \/ job[t].got = Chunks /\ UNCHANGED job
       \/ job' = [job EXCEPT ![t].result = "failed"]
    /\ Goto(t, "close")
    /\ UNCHANGED <<q, taskHandle, cancelRequested, ui, files, lists, safe, silent>>

\* The temp file is closed and, unless the fetch went well, removed.
Close(t) ==
    /\ pc[t] = "close"
    /\ IF job[t].result = "ok"
       THEN Goto(t, "unlink") /\ UNCHANGED part
       ELSE /\ part' = [part EXCEPT ![job[t].id] = "absent"]
            /\ Goto(t, "finish")
    /\ UNCHANGED <<q, taskHandle, cancelRequested, ui, job, book, lists, safe, silent>>

\* Mutant: the index is written before the book is in place.
UnlinkMarks(t) ==
    /\ pc[t] = "unlink"
    /\ book' = [book EXCEPT ![job[t].id] = "absent"]
    /\ marked' = marked \cup {job[t].id}
    /\ Goto(t, "rename")
    /\ UNCHANGED <<q, taskHandle, cancelRequested, ui, job, part, remote, safe, silent>>

Unlink(t) ==
    /\ pc[t] = "unlink"
    /\ book' = [book EXCEPT ![job[t].id] = "absent"]
    /\ Goto(t, "rename")
    /\ UNCHANGED <<q, taskHandle, cancelRequested, ui, job, part, lists, safe, silent>>

Rename(t) ==
    /\ pc[t] = "rename"
    /\ book' = [book EXCEPT ![job[t].id] = part[job[t].id]]
    /\ part' = [part EXCEPT ![job[t].id] = "absent"]
    /\ Goto(t, "list")
    /\ UNCHANGED <<q, taskHandle, cancelRequested, ui, job, lists, safe, silent>>

\* The complete .part stays behind.
RenameFails(t) ==
    /\ pc[t] = "rename"
    /\ job' = [job EXCEPT ![t].result = "failed"]
    /\ Goto(t, "finish")
    /\ UNCHANGED <<q, taskHandle, cancelRequested, ui, files, lists, safe, silent>>

\* RECENT_BOOKS.markDownloaded(): the recency list learns of the book first.
ListDownloaded(t) ==
    /\ pc[t] = "list"
    /\ remote' = remote \ {job[t].id}
    /\ Goto(t, "mark")
    /\ UNCHANGED <<q, taskHandle, cancelRequested, ui, job, files, marked, safe, silent>>

\* Then the index, whose write may fail: the download is ok all the same.
Mark(t) ==
    /\ pc[t] = "mark"
    /\ marked' \in {marked, marked \cup {job[t].id}}
    /\ Goto(t, "finish")
    /\ UNCHANGED <<q, taskHandle, cancelRequested, ui, job, files, remote, safe, silent>>

-----------------------------------------------------------------------------
(* What happens around the queue. *)

\* The library sync starts or ends, or a book is opened or closed.
SafetyFlips ==
    /\ safe' = ~safe
    /\ UNCHANGED <<memory, files, lists, silent>>

\* Deep sleep, a restart or a dead battery, between any two steps.
Reboot ==
    /\ q' = EmptyQueue
    /\ taskHandle' = NoTask
    /\ cancelRequested' = FALSE
    /\ ui' = NoId
    /\ pc' = [t \in Tasks |-> "none"]
    /\ job' = [t \in Tasks |-> NoJob]
    /\ silent' = {}
    /\ UNCHANGED <<files, lists, safe>>

UiStep == (\E id \in Ids : EnqueueLookup(id)) \/ EnqueueLocked \/ CancelAll

WorkerStep(t) ==
    \/ Drained(t) \/ StartFront(t) \/ HoldOff(t) \/ WakeUp(t)
    \/ Finish(t) \/ TaskDeleted(t)
    \/ PrepareFails(t) \/ Prepare(t) \/ ChunkPolls(t)
    \/ WriteChunk(t) \/ WriteFails(t) \/ Progress(t) \/ FetchEnds(t)
    \/ Close(t) \/ Unlink(t) \/ Rename(t) \/ RenameFails(t)
    \/ ListDownloaded(t) \/ Mark(t)

Around == SafetyFlips \/ Reboot

Next == UiStep \/ (\E t \in Tasks : WorkerStep(t)) \/ Around

Spec == Init /\ [][Next]_vars

(* The tasks have the same priority and are time-sliced, every HTTP request
   has a timeout, and a task that has waited is scheduled again. *)
Fairness == (\A t \in Tasks : WF_vars(WorkerStep(t))) /\ WF_vars(EnqueueLocked)
FairSpec == Spec /\ Fairness
-----------------------------------------------------------------------------
(* Properties. *)

TypeOK ==
    /\ q \in Queues
    /\ taskHandle \in Tasks \cup {NoTask}
    /\ cancelRequested \in BOOLEAN
    /\ ui \in Ids \cup {NoId}
    /\ pc \in [Tasks -> Places]
    /\ job \in [Tasks -> Jobs]
    /\ book \in [Ids -> Contents]
    /\ part \in [Ids -> Contents]
    /\ marked \in SUBSET Ids
    /\ remote \in SUBSET Ids
    /\ safe \in BOOLEAN
    /\ silent \in SUBSET Ids

(* Downloads are strictly sequential: however the worker's exit, the next
   enqueue and a reboot interleave, two tasks never work on a book at once. *)
OneDownload == \A t, u \in Tasks : pc[t] \in Busy /\ pc[u] \in Busy => t = u

(* The queue never holds a book twice, nor more than MAX_QUEUE of them, and only
   its front can be shown as downloading, while a worker has that very book. *)
QueueShape ==
    /\ Len(q.items) <= MaxQueue
    /\ \A i, j \in DOMAIN q.items : q.items[i].id = q.items[j].id => i = j
    /\ \A i \in DOMAIN q.items : q.items[i].status = "Downloading" =>
          /\ i = 1
          /\ \E t \in Tasks : pc[t] \in Busy /\ job[t].id = q.items[1].id

(* A cancel is not forgotten: from cancelAll() until the download it hit has
   returned, the flag that download polls stays set, whatever is enqueued. *)
CancelSticks == \A t \in Tasks : pc[t] \in Busy /\ job[t].dropped => cancelRequested

(* The download stops at the next chunk boundary: at most the one chunk that was
   past its poll of the flag is written after cancelAll(). *)
StopsAtChunkBoundary == \A t \in Tasks : job[t].late <= 1

(* An interrupted download, by a failure, a cancel or a reboot between any two
   steps, leaves a .part file at most, never a truncated book. *)
NoTruncatedBook == \A id \in Ids : book[id] # "partial"

(* The counters are change detectors: a move that changes what a screen shows of
   the queue always changes generation, and the counters never go back. *)
ChangesAreCounted ==
    [][q # q' => \/ q' = EmptyQueue
                 \/ /\ q'.generation >= q.generation
                    /\ q'.completions >= q.completions
                    /\ View(q') # View(q) => q'.generation > q.generation]_vars

(* completions moves only when there is something to list again: the book whose
   finish moved it is complete at its path and no longer remote. *)
CompletionMeansFile ==
    [][q'.completions > q.completions =>
         /\ book[q'.last.id] = "complete"
         /\ q'.last.id \notin remote]_vars

(* The index flag follows the file: a power loss between the two can leave a book
   without its flag, never a flag for a book that had not landed yet. *)
FlagFollowsFile ==
    [][\A id \in marked' \ marked : book[id] = "complete"]_vars

(* The queue is a fair line of books: see BookFifo.  Nothing a worker, a cancel or a
   stale result does takes a book out of turn or miscounts a download. *)
Fifo == INSTANCE BookFifo WITH
            Books <- Ids,
            Limit <- MaxQueue,
            Nobody <- NoId,
            line <- Line(q),
            outcome <- IF q.last.has THEN <<q.last.id, q.last.ok>> ELSE <<NoId, FALSE>>,
            delivered <- q.completions
FifoSpec == Fifo!Spec

(* A queued book always leaves the queue, downloaded, failed or cancelled, once the
   safety check stays satisfied and a worker exists. *)
Queued(id) == Contains(q, id)
QueueDrains ==
    <>[]safe => \A id \in Ids : Queued(id) ~> (~Queued(id) \/ taskHandle = NoTask)

(* An empty queue does not keep a worker: it gives its handle back (what the library
   sync waits for) unless another book is queued first. *)
IdleWorkerLeaves == (q.items = <<>>) ~> (q.items # <<>> \/ taskHandle = NoTask)

-----------------------------------------------------------------------------
(* What the comments of the code say, and it does not do. *)

(* QueueState.h on finish(): "a result for a book that cancelAll() already dropped
   can never corrupt whatever is queued now". *)
StaleResultIsHarmless ==
    [][\A t \in Tasks :
         pc[t] = "finish" /\ pc'[t] = "pick" /\ job[t].dropped => q' = q]_vars

=============================================================================
