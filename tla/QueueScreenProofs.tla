------------------------- MODULE QueueScreenProofs -------------------------
(***************************************************************************)
(* What a screen shows of the downloads is current, for any number of       *)
(* books, tasks and chunks.  A screen only looks: with one, the queue does  *)
(* nothing it does not do without (AScreenOnlyWatches), so that everything  *)
(* DownloadQueueProofs says of the queue holds beside a screen as well.     *)
(***************************************************************************)
EXTENDS QueueScreen, DownloadQueueProofs

\* From its rename until finish() has taken its result, a book that landed is a task's.
Landing(t) == \/ pc[t] \in {"list", "mark"}
              \/ pc[t] = "finish" /\ job[t].result = "ok"

\* Only a download that went well gets past the closing of its temp file.
OkPastClose ==
    \A t \in Tasks :
        pc[t] \in {"unlink", "rename", "list", "mark"} => job[t].result = "ok"

\* The counters a screen has read are not ahead of those there are.
SeenBound ==
    /\ seen \in Nat \X Nat
    /\ seen[1] <= q.generation
    /\ seen[2] <= q.completions

SeedIsFirst == scr = "seed" => polled = "nothing"

\* Rows that a poll made are good for as long as the counter it has read.
RowsInv ==
    scr = "live" /\ polled # "nothing" /\ seen[1] = q.generation => rows.queue = View(q)

Accounted(id) == id \in rows.files \/ \E t \in Tasks : Landing(t) /\ job[t].id = id

\* And so are the files, already while the rows are made after them.
FilesInv ==
    scr \in {"snap", "live"} /\ polled = "files" /\ seen[2] = q.completions =>
        \A id \in OnCard \ silent : Accounted(id)

ScreenInv ==
    /\ IInv
    /\ OkPastClose
    /\ SeenBound
    /\ SeedIsFirst
    /\ RowsInv
    /\ FilesInv

-----------------------------------------------------------------------------

(* A screen only watches: each of its steps is a step of the queue, or none. *)
LEMMA ScreenStepIsQueueStep == [ScreenNext]_allVars => [Next]_vars
  <1>1. CASE Enter \/ LoadFiles \/ RebuildRowItems \/ SeedPulse \/ PollDownloadQueue \/ Leave
    BY <1>1 DEF Enter, LoadFiles, RebuildRowItems, SeedPulse, PollDownloadQueue, Leave
  <1>2. CASE QueueStep \/ ScreenReboot
    BY <1>2 DEF QueueStep, ScreenReboot, Next, Around
  <1>3. CASE UNCHANGED allVars
    BY <1>3 DEF allVars
  <1> QED BY <1>1, <1>2, <1>3 DEF ScreenNext

(* The initial states satisfy the invariant. *)
LEMMA InitScreenInv == ScreenInit => ScreenInv
  <1> SUFFICES ASSUME ScreenInit PROVE ScreenInv
    OBVIOUS
  <1>1. IInv
    BY InitIInv DEF ScreenInit
  <1>2. OkPastClose
    BY DEF ScreenInit, Init, OkPastClose
  <1>3. SeenBound
    BY DEF ScreenInit, Init, EmptyQueue, SeenBound
  <1> QED
    BY <1>1, <1>2, <1>3 DEF ScreenInit, ScreenInv, SeedIsFirst, RowsInv, FilesInv

(* A download that has failed goes no further than the closing of its temp file. *)
LEMMA OkStep == IInv /\ OkPastClose /\ [Next]_vars => OkPastClose'
  <1> SUFFICES ASSUME IInv, OkPastClose, [Next]_vars PROVE OkPastClose'
    OBVIOUS
  <1> USE DEF OkPastClose
  <1>1. pc \in [Tasks -> Places] /\ job \in [Tasks -> Jobs]
    BY DEF IInv, TypeOK
  <1>2. CASE UiStep
    <2>1. CASE \E id \in Ids : EnqueueLookup(id)
      BY <2>1 DEF EnqueueLookup
    <2>2. CASE EnqueueLocked
      BY <1>1, <2>2 DEF EnqueueLocked, StartLocked, Goto
    <2>3. CASE CancelAll
      <3>1. \A t \in Tasks : job'[t].result = job[t].result
        BY <1>1, <2>3 DEF CancelAll, Jobs
      <3> QED BY <2>3, <3>1 DEF CancelAll
    <2> QED BY <1>2, <2>1, <2>2, <2>3 DEF UiStep
  <1>3. ASSUME NEW t \in Tasks, Drained(t) \/ HoldOff(t) \/ WakeUp(t) \/ TaskDeleted(t)
                                \/ Prepare(t) \/ Progress(t) \/ Close(t) \/ Unlink(t)
                                \/ Rename(t) \/ ListDownloaded(t) \/ Mark(t)
        PROVE  OkPastClose'
    BY <1>1, <1>3 DEF Drained, HoldOff, WakeUp, TaskDeleted, Prepare, Progress, Close, Unlink,
                      Rename, ListDownloaded, Mark, Goto
  <1>4. ASSUME NEW t \in Tasks, StartFront(t) \/ Finish(t) \/ PrepareFails(t) \/ ChunkPolls(t)
                                \/ WriteChunk(t) \/ WriteFails(t) \/ FetchEnds(t)
                                \/ RenameFails(t)
        PROVE  OkPastClose'
    <2>1. pc'[t] \notin {"unlink", "rename", "list", "mark"}
      BY <1>1, <1>4 DEF StartFront, Finish, PrepareFails, ChunkPolls, WriteChunk, WriteFails,
                        FetchEnds, RenameFails, Goto
    <2>2. \A u \in Tasks \ {t} : pc'[u] = pc[u] /\ job'[u] = job[u]
      BY <1>1, <1>4 DEF StartFront, Finish, PrepareFails, ChunkPolls, WriteChunk, WriteFails,
                        FetchEnds, RenameFails, Goto
    <2> QED BY <2>1, <2>2
  <1>5. CASE Around \/ UNCHANGED vars
    BY <1>5 DEF Around, SafetyFlips, Reboot, vars, memory
  <1> QED BY <1>2, <1>3, <1>4, <1>5 DEF Next, WorkerStep

(* A book that a task has landed stays that task's until its finish is counted, or is
   among those finish() did not report. *)
LEMMA LandingKept ==
  ASSUME IInv, OkPastClose, PoweredStep, NEW t \in Tasks, Landing(t)
  PROVE  \/ Landing(t)' /\ job'[t].id = job[t].id
         \/ job[t].id \in silent'
         \/ q'.completions > q.completions
  <1>1. /\ pc \in [Tasks -> Places] /\ job \in [Tasks -> Jobs]
        /\ q.completions \in Nat
    BY DEF IInv, TypeOK, Queues
  <1>2. CASE pc'[t] = pc[t] /\ job'[t].id = job[t].id /\ job'[t].result = job[t].result
    BY <1>2 DEF Landing
  <1>3. CASE UiStep
    <2>1. CASE \E id \in Ids : EnqueueLookup(id)
      BY <1>2, <2>1 DEF EnqueueLookup
    <2>2. CASE EnqueueLocked
      <3>1. pc[t] # "none"
        BY DEF Landing
      <3>2. pc'[t] = pc[t] /\ job' = job
        BY <1>1, <2>2, <3>1 DEF EnqueueLocked, StartLocked, Goto
      <3> QED BY <1>2, <3>2
    <2>3. CASE CancelAll
      <3>1. job'[t].result = job[t].result /\ job'[t].id = job[t].id
        BY <1>1, <2>3 DEF CancelAll, Jobs
      <3> QED BY <1>2, <2>3, <3>1 DEF CancelAll
    <2> QED BY <1>3, <2>1, <2>2, <2>3 DEF UiStep
  <1>4. ASSUME NEW u \in Tasks \ {t}, WorkerStep(u)
        PROVE  pc'[t] = pc[t] /\ job'[t] = job[t]
    <2>1. CASE Drained(u) \/ StartFront(u) \/ HoldOff(u) \/ WakeUp(u) \/ Finish(u)
               \/ TaskDeleted(u) \/ Progress(u)
      BY <1>1, <2>1 DEF Drained, StartFront, HoldOff, WakeUp, Finish, TaskDeleted, Progress,
                        Goto
    <2>2. CASE WorkerAction(u)
      BY <1>1, <2>2 DEF WorkerAction, PrepareFails, Prepare, ChunkPolls, WriteChunk,
                        WriteFails, FetchEnds, Close, Unlink, Rename, RenameFails,
                        ListDownloaded, Mark, Goto
    <2> QED BY <1>4, <2>1, <2>2 DEF WorkerStep, WorkerAction
  <1>5. CASE ListDownloaded(t)
    BY <1>1, <1>5 DEF ListDownloaded, Landing, Goto
  <1>6. CASE Mark(t)
    <2>1. pc'[t] = "finish" /\ job' = job /\ job[t].result = "ok"
      BY <1>1, <1>6 DEF Mark, Goto, OkPastClose
    <2> QED BY <2>1 DEF Landing
  <1>7. CASE Finish(t)
    <2>1. job[t].result = "ok"
      BY <1>7 DEF Finish, Landing
    <2>2. CASE IsFront(q, job[t].id)
      BY <1>1, <1>7, <2>1, <2>2 DEF Finish, FinishItem
    <2>3. CASE ~IsFront(q, job[t].id)
      BY <1>7, <2>1, <2>3 DEF Finish
    <2> QED BY <2>2, <2>3
  <1>8. CASE WorkerStep(t)
    BY <1>5, <1>6, <1>7, <1>8
       DEF WorkerStep, Landing, Drained, StartFront, HoldOff, WakeUp, TaskDeleted,
           PrepareFails, Prepare, ChunkPolls, WriteChunk, WriteFails, Progress, FetchEnds,
           Close, Unlink, Rename, RenameFails
  <1>9. CASE SafetyFlips \/ UNCHANGED vars
    BY <1>2, <1>9 DEF SafetyFlips, vars, memory
  <1> QED BY <1>2, <1>3, <1>4, <1>8, <1>9 DEF PoweredStep

(* A book comes onto the card by a task that has it from then on. *)
LEMMA BooksLand ==
  ASSUME IInv, OkPastClose, PoweredStep, NEW id \in OnCard' \ OnCard
  PROVE  \E t \in Tasks : Landing(t)' /\ job'[t].id = id
  <1>1. /\ book \in [Ids -> Contents] /\ pc \in [Tasks -> Places] /\ job \in [Tasks -> Jobs]
        /\ id \in Ids /\ book[id] # "complete" /\ book'[id] = "complete"
    BY DEF IInv, TypeOK, OnCard
  <1>2. ASSUME NEW t \in Tasks, Rename(t) PROVE Landing(t)' /\ job'[t].id = id
    <2>1. pc'[t] = "list" /\ job' = job
      BY <1>1, <1>2 DEF Rename, Goto
    <2>2. job[t].id = id
      BY <1>1, <1>2 DEF Rename
    <2> QED BY <2>1, <2>2 DEF Landing
  <1>3. ASSUME NEW t \in Tasks, Unlink(t) PROVE FALSE
    BY <1>1, <1>3 DEF Unlink
  <1>4. ASSUME NEW t \in Tasks, WorkerStep(t), ~Rename(t), ~Unlink(t) PROVE book' = book
    BY <1>4 DEF WorkerStep, Drained, StartFront, HoldOff, WakeUp, Finish, TaskDeleted,
                PrepareFails, Prepare, ChunkPolls, WriteChunk, WriteFails, Progress,
                FetchEnds, Close, RenameFails, ListDownloaded, Mark, files
  <1>5. CASE UiStep \/ SafetyFlips \/ UNCHANGED vars
    BY <1>1, <1>5 DEF UiStep, EnqueueLookup, EnqueueLocked, CancelAll, SafetyFlips, vars, files
  <1> QED BY <1>1, <1>2, <1>3, <1>4, <1>5 DEF PoweredStep

(* What finish() left unreported stays so until a reboot. *)
LEMMA SilentGrows == PoweredStep => silent \subseteq silent'
  <1>1. ASSUME NEW t \in Tasks, WorkerStep(t) PROVE silent \subseteq silent'
    BY <1>1 DEF WorkerStep, Drained, StartFront, HoldOff, WakeUp, Finish, TaskDeleted,
                PrepareFails, Prepare, ChunkPolls, WriteChunk, WriteFails, Progress,
                FetchEnds, Close, Unlink, Rename, RenameFails, ListDownloaded, Mark
  <1> QED BY <1>1 DEF PoweredStep, UiStep, EnqueueLookup, EnqueueLocked, CancelAll,
                      SafetyFlips, vars

-----------------------------------------------------------------------------


(* With the power on, the counters the screen has read stay behind those there are,
   and what it made of the queue when it read them stays true while they agree. *)
LEMMA WatchingStep ==
  ASSUME ScreenInv, PoweredStep, UNCHANGED screenVars
  PROVE  SeenBound' /\ SeedIsFirst' /\ RowsInv' /\ FilesInv'
  <1> USE DEF screenVars
  <1>1. IInv /\ OkPastClose /\ SeenBound /\ RowsInv /\ FilesInv /\ SeedIsFirst
    BY DEF ScreenInv
  <1>2. /\ q'.generation >= q.generation /\ q'.completions >= q.completions
        /\ View(q') # View(q) => q'.generation > q.generation
    BY <1>1, PoweredStepOperates, OperationsAreCounted
  <1>3. /\ q.generation \in Nat /\ q.completions \in Nat
        /\ q'.generation \in Nat /\ q'.completions \in Nat
    <2>1. [Next]_vars
      BY DEF PoweredStep, Next, Around
    <2> QED BY <1>1, <2>1, TypeStep, ShapeStep DEF IInv, TypeOK, Queues
  <1>4. SeenBound'
    BY <1>1, <1>2, <1>3 DEF SeenBound
  <1>5. RowsInv'
    <2> SUFFICES ASSUME scr' = "live", polled' # "nothing", seen'[1] = q'.generation
                 PROVE  rows'.queue = View(q')
      BY DEF RowsInv
    <2>1. seen[1] = q.generation /\ View(q') = View(q)
      BY <1>1, <1>2, <1>3 DEF SeenBound
    <2> QED BY <1>1, <2>1 DEF RowsInv
  <1>6. FilesInv'
    <2> SUFFICES ASSUME scr' \in {"snap", "live"}, polled' = "files",
                        seen'[2] = q'.completions, NEW id \in OnCard' \ silent'
                 PROVE  Accounted(id)'
      BY DEF FilesInv
    <2>1. seen[2] = q.completions /\ ~(q'.completions > q.completions)
      BY <1>1, <1>2, <1>3 DEF SeenBound
    <2>2. id \notin silent
      BY SilentGrows
    <2>3. CASE id \in OnCard
      <3>1. Accounted(id)
        BY <1>1, <2>1, <2>2, <2>3 DEF FilesInv
      <3>2. ASSUME NEW t \in Tasks, Landing(t), job[t].id = id PROVE Accounted(id)'
        BY <1>1, <2>1, <3>2, LandingKept DEF Accounted
      <3> QED BY <3>1, <3>2 DEF Accounted
    <2>4. CASE id \notin OnCard
      BY <1>1, <2>4, BooksLand DEF Accounted
    <2> QED BY <2>3, <2>4
  <1> QED BY <1>1, <1>4, <1>5, <1>6 DEF SeedIsFirst

(* Nor does the screen spoil it when it lists the folder, makes its rows, reads the
   counters or goes. *)
LEMMA LookingStep ==
  ASSUME ScreenInv, Enter \/ LoadFiles \/ RebuildRowItems \/ SeedPulse
                    \/ PollDownloadQueue \/ Leave
  PROVE  SeenBound' /\ SeedIsFirst' /\ RowsInv' /\ FilesInv'
  <1>1. /\ SeenBound /\ RowsInv /\ FilesInv /\ SeedIsFirst
        /\ q.generation \in Nat /\ q.completions \in Nat
    BY DEF ScreenInv, IInv, TypeOK, Queues
  <1>2. UNCHANGED vars
    BY DEF Enter, LoadFiles, RebuildRowItems, SeedPulse, PollDownloadQueue, Leave
  <1>3. /\ q' = q /\ OnCard' = OnCard /\ silent' = silent /\ job' = job
        /\ \A t \in Tasks : Landing(t)' <=> Landing(t)
    BY <1>2 DEF vars, memory, files, OnCard, Landing
  <1>4. SeenBound'
    BY <1>1, <1>3 DEF SeenBound, Enter, LoadFiles, RebuildRowItems, SeedPulse,
                      PollDownloadQueue, Leave, Pulse
  <1>5. SeedIsFirst'
    BY <1>1 DEF SeedIsFirst, Enter, LoadFiles, RebuildRowItems, SeedPulse,
                PollDownloadQueue, Leave
  <1>6. RowsInv'
    <2>1. CASE RebuildRowItems
      BY <1>3, <2>1 DEF RebuildRowItems, RowsInv
    <2>2. CASE SeedPulse
      BY <1>1, <2>2 DEF SeedPulse, RowsInv, SeedIsFirst
    <2>3. CASE Enter \/ LoadFiles \/ PollDownloadQueue \/ Leave
      BY <2>3 DEF Enter, LoadFiles, PollDownloadQueue, Leave, RowsInv
    <2> QED BY <2>1, <2>2, <2>3
  <1>7. FilesInv'
    <2>1. CASE LoadFiles
      BY <1>3, <2>1 DEF LoadFiles, FilesInv, Accounted
    <2>2. CASE RebuildRowItems
      BY <1>1, <1>3, <2>2 DEF RebuildRowItems, FilesInv, Accounted
    <2>3. CASE SeedPulse
      BY <1>1, <2>3 DEF SeedPulse, FilesInv, SeedIsFirst
    <2>4. CASE Enter \/ Leave
      BY <2>4 DEF Enter, Leave, FilesInv
    <2>5. CASE PollDownloadQueue
      BY <1>1, <1>3, <2>5 DEF PollDownloadQueue, FilesInv, Accounted, Pulse
    <2> QED BY <2>1, <2>2, <2>3, <2>4, <2>5
  <1> QED BY <1>4, <1>5, <1>6, <1>7

(* Every step preserves the invariant. *)
LEMMA ScreenStep == ScreenInv /\ [ScreenNext]_allVars => ScreenInv'
  <1> SUFFICES ASSUME ScreenInv, [ScreenNext]_allVars PROVE ScreenInv'
    OBVIOUS
  <1>1. IInv' /\ OkPastClose'
    BY ScreenStepIsQueueStep, OkStep, InvStep DEF ScreenInv
  <1>2. CASE Enter \/ LoadFiles \/ RebuildRowItems \/ SeedPulse \/ PollDownloadQueue \/ Leave
    BY <1>1, <1>2, LookingStep DEF ScreenInv
  <1>3. CASE QueueStep \/ UNCHANGED allVars
    <2>1. PoweredStep /\ UNCHANGED screenVars
      BY <1>3 DEF QueueStep, PoweredStep, allVars
    <2> QED BY <1>1, <2>1, WatchingStep DEF ScreenInv
  <1>4. CASE ScreenReboot
    <2>1. SeenBound'
      BY <1>4 DEF ScreenReboot, Reboot, EmptyQueue, SeenBound
    <2> QED BY <1>1, <1>4, <2>1 DEF ScreenReboot, ScreenInv, SeedIsFirst, RowsInv, FilesInv
  <1> QED BY <1>2, <1>3, <1>4 DEF ScreenNext

-----------------------------------------------------------------------------

(* The invariant holds in every reachable state. *)
THEOREM ScreenInvariance == ScreenSpec => []ScreenInv
  BY InitScreenInv, ScreenStep, PTL DEF ScreenSpec

(* A screen only watches: the queue does nothing beside one that it does not do without,
   so that whatever is proved of every run of DownloadQueue holds beside a screen. *)
THEOREM AScreenOnlyWatches == ScreenSpec => Spec
  <1>1. ScreenInit => Init
    BY DEF ScreenInit
  <1> QED BY <1>1, ScreenStepIsQueueStep, PTL DEF ScreenSpec, Spec

(* The rows of a screen that has polled and has nothing left to poll are the queue's. *)
THEOREM RowsAreCurrent == ScreenSpec => []PolledRowsAreCurrent
  <1>1. ScreenInv => PolledRowsAreCurrent
    BY DEF ScreenInv, RowsInv, PolledRowsAreCurrent, Settled, Pulse
  <1> QED BY <1>1, ScreenInvariance, PTL

(* And once a completion has made it list the folder, it shows every book on the card
   that finish() has reported. *)
THEOREM FilesAreCurrent == ScreenSpec => []PolledFilesAreCurrent
  <1>1. ScreenInv => PolledFilesAreCurrent
    <2> SUFFICES ASSUME ScreenInv, Settled, polled = "files", NEW id \in OnCard \ silent
                 PROVE  id \in rows.files \/ \E t \in Tasks : pc[t] \in Busy /\ job[t].id = id
      BY DEF PolledFilesAreCurrent
    <2>1. Accounted(id)
      BY DEF ScreenInv, FilesInv, Settled, Pulse
    <2>2. \A t \in Tasks : Landing(t) => pc[t] \in Busy
      BY DEF Landing, Busy
    <2> QED BY <2>1, <2>2 DEF Accounted
  <1> QED BY <1>1, ScreenInvariance, PTL
=============================================================================
