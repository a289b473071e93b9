# xtreader-firmware: a verification project in TLA+

These modules model the part of the firmware where several tasks, a radio, a file system
and a power button meet: the background download queue, the automatic library sync, the
home screen that starts and watches both, the activity manager underneath them, the library
index on the card and what the reader is shown of it, the reading position shared with other
devices, and firmware updates. TLC checks each model on small instances; TLAPS proves the safety of
the download queue and the screens that poll it, the library sync and the home screen, the lock order,
the activity manager, the reading position and the firmware update for every instance.

Paths below are relative to the repository root.

## 1. The system

An e-ink reader on an ESP32 (one core on the main board, two on another) running FreeRTOS.
There are five tasks that matter, all of them kept apart by a few mutexes and flags:

| task | created | runs |
|---|---|---|
| loop task | by Arduino | `loop()` in `src/main.cpp`, `ActivityManager::loop()`, the current activity's `loop()`, `onEnter()`, `onExit()` and result handlers |
| render task | at boot | `ActivityManager::renderTaskLoop()`, the current activity's `render()` |
| download worker | on the first `enqueue()`, ends when the queue is empty | `download_queue::Worker::run()` |
| library worker | by `library_sync::start()`, at most a few times per boot | `library_sync::Worker::run()` |
| progress check | by `remote_progress::start()`, when a book opens | `Checker::run()` in `RemoteProgressCheck.cpp` |

| mutex | guards | held while |
|---|---|---|
| rendering (`RenderLock`) | the current activity, the panel and the SPI bus | every `render()`, every exchange of activities, every save of settings |
| queue (`Worker::mutex_` in `DownloadQueue.cpp`) | `QueueState`, `taskHandle_` | a safety check, which takes the library mutex |
| library (`Worker::mutex_` in `LibrarySync.cpp`) | `status_`, `taskHandle_`, the latches | a safety check, which takes the queue mutex |
| check (in `RemoteProgressCheck.cpp`), recency list (in `RecentBooksStore.cpp`) | one slot; the list | nothing else |

Nothing calls a screen back. Screens poll change counters (`pulse()`, `status().generation`).
Sleep is a power cut followed by a reset, so everything in RAM is lost at any moment and
only what was written to the card survives.

### Inventory

| component | state | operations | what is hard | what makes it correct |
|---|---|---|---|---|
| Queue bookkeeping, `lib/DownloadQueue` | bounded array, last result, two counters | enqueue, markDownloading, updateProgress, finish, cancelAll | results for books that are gone; every visible change counted | bounded, no duplicates, FIFO, counters monotonic |
| Download worker, `src/sync/DownloadQueue.cpp` | queue, task handle, cancel flag | enqueue, cancelAll, run, snapshot, pulse | hand-over from an exiting worker to the next; a flag shared without a lock | one download at a time, no lost cancel, the queue drains |
| Book downloader, `src/sync/BookDownloader.cpp` | `.part` file, book, index flag, recency list | download | a failure, a cancel or a power cut between any two steps | no truncated book, flag and completion after the file |
| Library sync, `src/sync/LibrarySync.cpp` | handle, phase, generation, result, two latches | start, status, run | stale reads of Wi-Fi and pairing, six ways out of `run()` | once per boot, every radio use announced, the result stays |
| Policies, `lib/SyncManifest/*Policy.cpp` | back-off record | pure predicates | saturation, zero | bounded back-off |
| Home screen, `src/activities/home/HomeActivity.cpp` | polled counters, three latches, boot counter on the card | onEnter, loop polls, render tail | the screen is destroyed and rebuilt in the middle of a sync | one discovery per boot, a current banner, wallpapers not forgotten |
| File browser, `src/activities/home/FileBrowserActivity.cpp` | rows, polled counters | onEnter, poll, rebuild | the queue moves while rows are built | the rows end up current |
| Safety checks, `src/main.cpp` | none | two predicates | each runs under its caller's mutex and takes the other's | no two sessions, no deadlock |
| Activity manager, `src/activities/ActivityManager.cpp` | current, stack, pending, update flag, waiter | push, pop, replace, requestUpdate(AndWait), goToSleep, loop, render | destroying what is being painted, lost updates and wake-ups, early returns | the panel ends up current, results reach the asker |
| Manifest index, `src/sync/SyncManifest.cpp` | index and temp file on the card | sync, markDownloaded, removeFromIndex | edits between two pages, crash windows, failed reads and lost ends of the file, a file replaced under an open handle | no change missed but with a lost record, flags stand for files, corruption heals |
| Recency list and discovery, `src/RecentBooksStore.cpp`, `lib/RecentDiscovery` | one list with two caps, the discovery mark | open, download, discover | a save per entry and one of the mark, with a restart after any, caps that push entries out | history survives, a book is announced once, no ghosts |
| Remote progress check, `src/sync/RemoteProgressCheck.cpp` | one slot, abort and ready flags | start, consume, discard | a discarded worker that is still running, a radio several raise | an answer is for the book that asked, slot and radio come back |
| Sleep upload, `src/sync/SleepProgressSync.cpp`, reader markers | two markers per book on the card | capture, upload, stamp, ask, answer | lost answers, power cuts, what is in RAM only | nothing recorded as sent that was not, the unsent retried, nothing asked twice |
| Firmware update, `src/network/*` | two partitions, two boot entries | validate, flash, switch, boot | a power cut between any two writes, parity of the sequence number, a changed card | the device always boots, and what it reported |
| Wallpaper sync, device pairing, web server, other readers | see `PROJECT.json` | | | |

`PROJECT.json` lists every component, including those left out, and, under `hazards`, each
place in the code where something can go wrong that a test would hardly reach.

## 2. The modules

```
 QueueState ── DownloadQueue ─┬─ MCDownloadQueue (symmetry for TLC)
    │             │           ├─ QueueScreen     (a polling screen on top) ── QueueScreenProofs
    │             │           └─ BookFifo        (abstract; INSTANCE ... WITH)
    └─────────────┴── DownloadQueueProofs
 SyncPolicy ── LibrarySync ─┬─ HomeSync       (the screen that starts and watches it)
                            └─────┴── HomeSyncProofs
 SyncWorkers     ── SyncWorkersProofs      (both workers, three mutexes, four tasks)
 ActivityManager ── ActivityManagerProofs  (navigation and painting)
 SyncManifest    ── RecentDiscovery ─┬─ MCRecentDiscovery (for TLC; the one-pass merge)
   (the index)       (the list on it) └─ RecentDiscoveryProofs
 ReaderSync      ── ReaderSyncProofs       (check, reader, upload, other device)
 FirmwareUpdate  ── FirmwareUpdateProofs   (flash, boot entries, bootloader)
```

**QueueState** is `lib/DownloadQueue/QueueState.cpp` as operators on a record: `EnqueueItem`,
`MarkDownloading`, `UpdateProgress`, `FinishItem`, `CancelItems`. A book is its id; bytes are
HTTP chunks, `Chunks` of them per book. `MaxQueue` is `MAX_QUEUE`. The counters are natural
numbers: the code compares them for inequality only and lets them wrap after 2^32 moves.

**DownloadQueue** is the worker and the download of one book. `q` is `state_`, `taskHandle`
and `cancelRequested` are the members of that name, `ui` is the loop task between
`findById()` and the lock, `pc[t]` and `job[t]` are where worker task `t` is and what it
carries. There are several task identities because a worker that has given up its handle
(`Drained`) runs on until `vTaskDelete` (`TaskDeleted`), while the next `enqueue()` creates
another. One action is one critical section, one access to the card, or one return into the
HTTP callback. The callback is split at the poll of the flag (`ChunkPolls`), the write and
the progress call, because `cancelRequested_` is a plain `bool` that `cancelAll()` may set
between any two of them. `Reboot` may come between any two actions and keeps
`book`, `part`, `marked` (the index flag) and `remote` (the recency list). Failures are
alternatives: `PrepareFails`, `WriteFails`, `FetchEnds` short of the body, `RenameFails`, an
index write that fails in `Mark`, and an `xTaskCreate` that fails in `StartLocked`.
Fields `dropped` and `late` of a job and the variable `silent` are history: nothing reads
them but properties.

**BookFifo** is what the reader is promised: a bounded line of books without duplicates, from
which only the front leaves with an outcome, or which is given up whole.

**QueueScreen** adds `FileBrowserActivity`'s onEnter, poll, rebuild and onExit on the loop task.
`UiStep` (enqueue, cancel) belongs to the same task, so it waits while rows are being built;
the worker does not.

**SyncPolicy** is the pure decisions of `SyncTriggerPolicy.cpp` and `SleepWifiBackoffPolicy.cpp`.

**LibrarySync** is `start()` and `run()` of the library worker. `status` is the `Status` record,
`connectTried` and `syncTried` are the latches, `run` the locals of `run()`. Each early
return of `run()` is a way to `finish`; the last one is `finishSync`. `WifiChanges`,
`PairingChanges` and `OthersSaveBackoff` are what other activities do meanwhile.

**HomeSync** adds the home screen: `Repaint` and the tail of `render()` (`TrySyncLibrary`,
`TryDeliverPendingBookFinished`, `TrySyncWallpapers` with its two outcomes) on the render
task, `PollLibrarySync` on the loop task, `EnterHome`/`LeaveHome` as the screen is rebuilt, and the
counters on the card. `boots` is the sixteen-bit counter with its last value as a constant.

**SyncWorkers** looks at the same two workers again at the grain of the mutexes: who holds
which (`owner`), where each task stands (`at`) and the flags the two safety checks read.
It is a separate module because the others take a critical section as one action, which is
right for what the section does and hides in which order mutexes are taken.

**ActivityManager** is navigation and painting. `cur`, `stack` and `pending` are the members,
`requested`, `notified`, `waiter` and `woken` the four signals between the two tasks, `loop` and
`render` the places of the two tasks. Activities are of a few kinds that the manager tells
apart; a callback may ask for at most one thing. Going to sleep is part of it (`GoToSleep` sets
`asleep` and runs the pass that `goToSleep()` runs).

**SyncManifest** is the library index as file operations. `idx` is `remote.idx` (its header's
watermark, its rows, whether a line is broken), `w` the task that rewrites it with
the locals of `performSync()` and its temp file, `dl` the download worker between `findById()` and
`markDownloaded()`, `server` the library its owner edits at any moment. A row has the path and the
stamp it was fetched with, and `rev`, a history field naming the edit it shows, which is what
`NothingMissed` compares. The rows are a set: nothing but the lookup of the first record of an id
(`First`) asks for their order in the file, and that the one pass of `ManifestIndexMerge` keeps a file in path order
and returns the set `Merge` says is evaluated in `MCRecentDiscovery` (`OnePassIsMerge`, files of up to three
books). A file that ends early, because a read of it fails (`Fronts`: some records in front of the failure) or because the
card has lost its end (`CardTruncates`), is to this code a whole one: scans, merges and `removeFromIndex()` go on with what
they got. `FetchPage` is one turn of the page loop: a page is the next `PAGE_LIMIT` books after the cursor
(`PageTo` its last one), `Take` is `onManifestEntry()` for its entries. `MergeDelta` is the merge with its ways out: to the end of the old index, a full retry after a line that
does not parse or a write that fails, an old index without a header, or one of which only a front was read. `Unlink` and
`Rename` are the two steps of the replacement: an open handle of the download worker then writes to a file without
a name (`attached`). `Abort` is every error return of the other phases, `Reboot` comes between any two steps. Three history
variables name the exceptions: `behind` has the books whose change no page could see, and `lost` those whose record a failed
read or the card has taken away, both until a listing brings them;
`excused` those whose file was deleted from the card alone, whose index was replaced while they were being downloaded, or whose
file another book's download has overwritten.
*Assumed:* one task rewrites the index at a time. The code does not enforce it: the library
worker, Sync Now and a delete all write `INDEX_TMP_PATH`. A model of records cannot say what two
interleaved streams of bytes leave, so this stays an assumption and a listed hazard.

**RecentDiscovery** extends it with `RecentBooksStore` and `runRecentDiscovery()`. `list` is
`recentBooks`, `mark` and `seeded` are stored with the pairing. `Discover` is scan (of which a failed read gives the
front), `decide()`, drops, inserts and the saves; every drop and every insert saves the list, so `RestartInDiscovery` is a restart
after any of them and before the mark is stored (`SavedSoFar`), and a restart loads the list trimmed (`Restart`). The list holds paths
and remote ids; titles, covers and progress percentages are left out.

**ReaderSync** is the reading position. `chk` is `Checker` (slot, request, answer, abort flag) and its
task's locals; `reader` is `EpubReaderActivity` with its dialog; `card` holds, per book, `progress.bin`,
the receipt of `SyncedPositionMarker.h` and the mark of `RemoteProgressMarker.h`; `sleep` is
`enterDeepSleep()` with what it captured; `wifi` tells a radio that is up from one that is connected,
because `releaseRadio()` and the power management do. A position is a chapter: `decide()` asks only about
another chapter, and the conversion between chapters and server percentages is left to
`RemoteProgressPolicy`, taken as exact. A row may also lack its chapter (`Unknown`: it always asks, and a jump goes by its
percentage to any chapter) or its stamp (`Unstamped`: it asks at every opening, and its answer is not kept). `LendRadio` is any other user of the radio.

**FirmwareUpdate** is flash. `app` says what each partition holds (an image is whole or torn, the
board tag, the size and the checksums being what *whole* means), `slots` is otadata. `TargetSlot`,
`NewSeq` and `ActiveIdx` are `ota_boot::switchTo()`; `Aged`, `OnTrial`, `Confirmed` and `Bootable` are the
bootloader, external, with rollback or without it. `esp_ota_set_boot_partition()` is taken to write otadata as
`switchTo()` does.

*Reductions.* Some steps are left until they can be seen, to keep the state space small: the other device and
the library's owner act only while a step that reads the server is next or (for the owner) the writer is
idle (`Observed`), the radio is lent only while a check has not connected (`LendRadio`), a book is opened or
deleted from the card at the end of a sync that does not look at either (`OpenBook`, `LocalDelete`), and the
server's time only moves with an edit. In each case the step commutes with everything in between, as the comment
there says.

## 3. The runs

Each run finishes in under four minutes on two cores. `CHECK_DEADLOCK` is left on everywhere: no
model stops. (SyncWorkers can always flip Wi-Fi or reboot, so its deadlocks are stated as circular waits
instead.)

| run | bounds | states | shows |
|---|---|---|---|
| `MCDownloadQueue` | 2 books, 2 task identities, queue of 2, 2 chunks, 5 moves per boot | 1.2 M | all safety of the queue, and that it implements `BookFifo` |
| `MCDownloadQueue_live` | queue of 1, 1 chunk, 3 moves | | the queue drains, an idle worker leaves |
| `QueueScreen` | 1 book, 1 task, 6 moves | | rows and files are current after a poll |
| `HomeSync` | back-off of 1, interval 1, counter up to 1, one fingerprint, 3 status changes | 534 k | one search and fetch per boot, a worker that ends, one discovery, a current banner, the hand-over |
| `SyncWorkers` | queue of 2 | 12 k | where tasks can wait in a circle, when sessions overlap |
| `ActivityManager` | 1 activity stacked under the current one | 273 k | the panel ends up current, results, wake-ups, updates are painted, waits end |
| `RecentDiscovery` | 2 ids (one in the library at first, and downloadable), 2 paths, pages of 1, 2 seconds, 2 edits, 1 fault, caps of 1 | 2.5 M | no change missed but with a lost record, flags stand for files, corruption heals; the list keeps its history, announces once, has no ghosts |
| `ReaderSync` | 2 books, one of them shared, 2 chapters and an unknown one, 2 server rows, 1 fault | 3.3 M | answers fit their book, slot and radio come back, the markers are sound, the unsent is retried, nothing asked twice |
| `FirmwareUpdate` | 2 chunks, sequence numbers up to 5 at the start of an update | 23 k | the device boots, whole images are selected, success takes effect |
| `MCDownloadQueue_stale` | queue of 1, 6 moves | | violation, see section 5 |
| `SyncWorkers_blocks` | as `SyncWorkers` | | violation |
| `ReaderSync_decline` | as `ReaderSync` | | violation |

*Why the bounds are enough.* The hazards of the queue need two books (one taken, one in line, a
queue at its limit), two workers (one leaving, one new) and two chunks (a cancel between
them). `MaxGeneration` bounds how many moves `EnqueueLookup` starts in one boot: five moves are
an enqueue, its start, a cancel, another enqueue and its start; and since
`Reboot` sets the count back, histories are unbounded. The proofs need none of these bounds.
In `QueueScreen` one book is enough because rows and files are compared as wholes; six moves let
a book be taken, cancelled, taken again, downloaded and reported while a screen is rebuilt.
`HomeSync` has a fingerprint that may be new, known or missing, and a counter that reaches both the interval
and its last value; three status changes let a second worker start behind a sync that has ended and hide its
idle phase; the latches themselves are proved for every bound. `ActivityManager` with one stacked activity
reaches push on push, pop to the asker, pop to nothing, and every gesture in between; ids are reused once
nothing refers to them.
`RecentDiscovery` needs two books for a page boundary, for a cap that pushes one of them out and for a path that
changes hands; two edits are an edit before and one during a sync; one fault is a restart, a failed request, a
failed read, or a corrupted or truncated file at every place, and a sync after it. Caps of one make every insertion meet a cap.
With `MaxPath = 3` (7.5 million states, more than five minutes on two cores) the six properties hold as well: a third path is what brings two
records of one book and the surplus of a download (section 5), and it is too long for a routine run.
`ReaderSync` needs two books for an answer that comes to the wrong one; two rows are the other device's and this
one's, in either order, or two of the other's; one fault is a failed marker write, a failed capture, a row without a
chapter or a stamp, or a power cut anywhere. Boots are unbounded. The proofs lift all of this except liveness. `FirmwareUpdate` wraps the parity of the sequence
numbers several times over; power cuts, boots and failures are unbounded.

*Symmetry* is used for books and tasks in `MCDownloadQueue` only, which has no liveness.

*Mutants.* Each property of a passing run comes with a mutated operator beside the one it mutates
(a dropped guard, a missing reset, a swapped order), with which TLC finds that property violated.

## 4. Fairness

- `DownloadQueue`: weak fairness of each worker's steps and of `EnqueueLocked`. FreeRTOS time-slices
  tasks of one priority, the mutex is held for a few assignments (the exception is section
  5), and every HTTP request has a timeout, so each step ends. Nothing is assumed of the reader, of the
  safety check or of the radio. `QueueDrains` assumes the check stays satisfied from some moment on, as a
  condition in the formula; it excepts a queue without a worker, see section 5.
- `HomeSync`: weak fairness of the render task, of the poll and of the library worker. The search has
  `WIFI_CONNECT_TIMEOUT_MS`, the requests have `HOME_SYNC_TIMEOUT_MS` and `AUTO_SYNC_TIMEOUT_MS`.
- `ReaderSync`: weak fairness of the check's task, for the same reason. Nothing is assumed of the reader, of
  `enterDeepSleep()`, of the server or of the other device.
- `ActivityManager`: weak fairness of the render task and of the navigation; strong fairness
  of `ActivityLoop`, `ExclusiveLoop` and of an `onEnter()` that does not navigate on, because a pass
  may always meet a gesture or a suppressed release but not every pass for ever; and power is cut once the
  device is asleep. `UpdatesAreShown` is asked of behaviours with finitely many power-offs.

## 5. Where the code and its comments disagree

Each of the first three is a run that TLC ends with a counterexample.

1. *A stale result removes a book* (`MCDownloadQueue_stale`). `QueueState.h:56-60` says a result for a
   cancelled book cannot touch what is queued now. `finish()` compares ids: cancel a book in flight
   and queue the same book again, and the old download's "cancelled" removes the new entry.
2. *The two safety checks can deadlock* (`SyncWorkers_blocks`). `start()` holds the library mutex and
   asks for the queue's; the download worker holds the queue's and asks for the library's.
   `LibrarySync.h:60` says `start()` never blocks. `OnlyTheChecksCollide` shows this is the only circle.
3. *"Stay here" may never reach the server* (`ReaderSync_decline`). `EpubReaderActivity.h:65-70` says the decision
   forces the upload before sleep. It is kept in RAM only: close the book first, or let the push fail, and the
   question is marked as answered on the card while the answer is gone.

Others, seen with the models but without a run of their own:

- *A truncated index is not fetched again, and a failed read truncates it.* `SyncManifest.cpp:40-45` says a delta that finds
  the index "corrupt or truncated" with a header that parses retries as a full sync, and `SyncManifest.h:71-77` says
  so of an unreadable one. The loop at `SyncManifest.cpp:402-406` leaves at `n <= 0`: a failed read, and a file that has lost
  its end, are the end of the file, and `ManifestIndexMerge::finish()` (`ManifestIndexMerge.cpp:55-58`) does not notice a line without an end. The
  sync reports success, the records behind are gone and the watermark advances, so that no delta lists those books again until
  they change. Only a line that is complete and does not parse, or a failed write, gets the full fetch (`SyncHeals`).
  `removeFromIndex()` has the same loop (601-605) and renames the shortened index into place. `NothingMissed` holds for every
  other book: `lost` is whose record is gone. `LostRowsComeBack` in `SyncManifest` is the promise; TLC refutes it
  with the constants of `RecentDiscovery.cfg`: the card truncates the index, a delta is merged over it, and the sync ends well.
- *Two sessions at once.* `main.cpp:414-416` says never two. Sync Now asks nobody, and a library worker that
  has been created but has not announced its phase counts as idle. `OverlapOnlyInTheGap` shows that the two
  workers overlap in no other way.
- *The wallpaper check no longer follows the sync.* `SyncTriggerPolicy.h:187` says it rides on the library sync's
  bring-up and runs after it; since the sync has its own task it runs right after the task was created.
- *The sleep screen may never be painted.* `goToSleep()` relies on one pass of `loop()`, which may return early
  on a suppressed release or a gesture.
- *Two ways of updating, one described.* `FirmwareFlasher.h:12-13` and `OtaBootSwitch.h:10-12` say the OTA path
  writes the partition raw through the flasher too; `OtaUpdater::installUpdate()` streams into `esp_ota_write()` and
  ends with `esp_ota_end()` and `esp_ota_set_boot_partition()` (237-243).
- *The second validation is not skipped.* `FirmwareFlasher.cpp:285-288` and `FirmwareFlasher.h:45-47` name
  `SdFirmwareUpdateActivity` as a caller that has validated; it passes `alreadyValidated` as false
  (`SdFirmwareUpdateActivity.cpp:165-169`), so the file is validated twice (`Revalidate`).
- *Which errors mean a server.* `LibrarySync.cpp:252-256` counts every error but `fetch_failed` as a real response. A temp
  file that cannot be created or whose placeholder header cannot be written fails before any request, and so does a
  pairing removed after the worker looked; all three reset the back-off without a network (`Fetch` has them as outcomes).
- *A discovery over a shortened index* (the same `n <= 0`, `SyncManifest.cpp:154-162`) takes the listed books behind the end for
  deleted and drops their entries. Their records are older than the mark, so they are never announced again.
- *A discovery that is cut short* has saved the entries it got to and not the mark: the next one announces those books
  again if they were pushed out or opened and pruned meanwhile. `offered`, and with it `AnnouncedOnce`, counts discoveries carried through.
- *A row without a stamp* asks at every opening: `RemoteProgressMarker::save()` has nothing to keep. `NotAskedTwice` excepts it.
- *A changed card.* Exchanging the card between the last validation and the read can select a bad
  image; the bootloader then falls back to the old one. `SelectionIsWhole` excepts it.
- *The receipt of the last upload.* `SyncedPositionMarker.h` says a torn marker costs one extra push. Without a marker
  the baseline is the current position, so it costs the retry of what was not sent; for the same reason a
  first push of a book that fails is not retried, although `SleepProgressSync.cpp:252` says the next boot does.
  `UnsentIsRetried` therefore speaks of books with a marker. An acknowledgement that is lost and a return to the
  old page leave the server at the position that was never acknowledged.
- *A check beside a discarded one* is not started, so the book opened second asks nothing until it is
  opened again.
- *A merge over a lost header.* When the old index loses its header between the start of a delta and its merge, the
  new index is the delta alone with an advanced watermark (`SyncManifest.cpp:387-394`), and what it lacks comes
  back only when it changes. `NothingMissed` excepts it.
- *The index outlives the pairing.* It is not tied to the account: unlinking and pairing with another one
  (`XtreaderActivity.cpp:425`) leaves a delta over the first account's index (`SyncManifest.h:62`).
- *Two records at one path.* An edit behind the cursor of a pagination can leave the index with a book that has
  moved away from a path and another that has moved there. Downloading the one overwrites the file of the other,
  whose record keeps its flag although its file is another book's now. The top of `SyncManifest.cpp` accepts
  the stale record, and does not name this consequence. An earlier form of
  `FlagTracksFile`, without the overwritten books, held on two paths and failed in the proof; TLC then showed the
  counterexample on three. The set `others` of a download holds who is overwritten, and only a stale book's path can be shared.
- *A download makes the next discovery trim.* `RecentBooksStore.h:55-56` says a remote entry never evicts a local one.
  `markDownloaded()` turns a remote entry into a local one and does not trim, so ten local entries become eleven, and the
  next insert, also that of a remote entry, drops the oldest. `LocalsSurvive` excepts that surplus.
- *Two records of one book.* A book that moves ahead of the cursor after it was listed is listed again, and the new index
  has both records until the book changes; `findById()` gives the one whose path sorts first.
- *"Delete from device"* leaves the flag of the book set, and a restart between the landing of a book and
  `markDownloaded()` leaves its entry in the list as a remote one.
- *The first sync seeds nothing.* `RecentDiscovery.h` says the mark is seeded from the first manifest; the
  scan returns before it has seen a record (`HomeActivity.cpp:1239`), so the mark stays 0 and the second sync
  may announce, up to the cap, what was there at pairing.
- *A renamed book* leaves two entries with one id, and its deletion removes one of them per discovery.
  `NoGhosts` excepts that. A book added in the second of the mark is never announced.

Smaller ones, which shape how the properties of the queue and of navigation are stated:

- A book that lands after a cancel is not counted in `completions` (`silent` in `DownloadQueue`), so no
  screen lists the folder again for it; `PolledFilesAreCurrent` excepts it.
- When `xTaskCreate` fails, `enqueue()` answers Ok and the book waits without a worker;
  `QueueDrains` excepts it.
- `onEnter()` of both screens reads the counters after the rows were built, so a move in between is taken
  as shown; the properties of `QueueScreen` begin at the first poll.
- A book may be opened while a download is under way: the safety check is asked once per book.
- `requestUpdateAndWait()` may return after a render that began before it was called.
- `pushActivity()` and `popActivity()` over a pending navigation drop it; the code logs that as never
  happening, but a gesture and a callback in one pass, or `goToSleep()`, get there.
- `HomeActivity.cpp:841` says `lastSyncRan` is never seen with a phase other than Idle; a second worker,
  started when Wi-Fi was lost and the search of this boot not yet used, shows both.

## 6. What is proved

Eight modules of theorems with their lemmas, all checked to the last leaf.

| module | theorem | property |
|---|---|---|
| `DownloadQueueProofs` | `TypeCorrect` | `TypeOK` |
| | `Sequential` | `OneDownload` |
| | `Shape` | `QueueShape` |
| | `CancelIsKept` | `CancelSticks` |
| | `CancelIsPrompt` | `StopsAtChunkBoundary` |
| | `NeverTruncated` | `NoTruncatedBook` |
| | `FlagAfterFile` | `FlagFollowsFile` |
| | `CompletionAfterFile` | `CompletionMeansFile` |
| | `ChangesCounted` | `ChangesAreCounted` |
| | `ImplementsBookFifo` | `FifoSpec` |
| `QueueScreenProofs` | `AScreenOnlyWatches` | `Spec` of `DownloadQueue` |
| | `RowsAreCurrent` | `PolledRowsAreCurrent` |
| | `FilesAreCurrent` | `PolledFilesAreCurrent` |
| `HomeSyncProofs` | `LibTypeCorrect` | `LibTypeOK` |
| | `AttemptsOnce`, `HomeAttemptsOnce` | `OncePerBoot` |
| | `HomeImplementsLibrarySync` | `LibSpec` |
| | `HomeTypeCorrect` | `LibTypeOK /\ HomeTypeOK` |
| | `HomeDiscoversOnce` | `DiscoveredOnce` |
| | `WallpapersStayDue` | `DueUntilSynced` |
| | `BannerStaysCurrent` | `BannerIsCurrent` |
| `ActivityManagerProofs` | `ActivityTypeCorrect` | `TypeOK /\ PendingFits` |
| | `PanelSettles` | `SettledPanelIsCurrent` |
| | `IdentitiesAreOwn` | `OwnIdentities` |
| | `ResultsAreDelivered` | `ResultsReachTheAsker` |
| | `WakeupsArePaired` | `WakeupsPair` |
| | `NoneIsReplacedWhilePainted` | `PainterKeepsItsActivity` |
| `SyncWorkersProofs` | `OneCircle` | `OnlyTheChecksCollide` |
| | `ChecksKeepApart` | `OverlapOnlyInTheGap` |
| `RecentDiscoveryProofs` | `NoChangeLost` | `NothingMissed` |
| | `FlagsStand` | `FlagTracksFile` |
| | `SyncsHeal` | `SyncHeals` |
| `ReaderSyncProofs` | `TypeCorrect` | `TypeOK` |
| | `AnswersFit` | `AnswerFitsBook` |
| | `RadioReturns` | `RadioGivenBack` |
| | `MarkerSound` | `MarkerIsAcknowledged` |
| | `UnsentGoesUp` | `UnsentIsRetried` |
| | `AskedOnce` | `NotAskedTwice` |
| `FirmwareUpdateProofs` | `TypeCorrect` | `TypeOK` |
| | `DeviceBoots` | `AlwaysBoots` |
| | `WholeIsSelected` | `SelectionIsWhole` |
| | `SuccessBoots` | `UpdateTakesEffect` |

`DownloadQueueProofs` begins with the lemmas about the queue operators: each one keeps a queue well formed
(`WellFormed`: typed, bounded, no duplicates, only the front downloading), what it does to the books of the
line, and when it leaves the queue as it is. The type invariants are proved rather than run: the
conjuncts of each are what the other proofs rest on.

Assumptions: the named ASSUMEs of the modules, which say that bounds are naturals, positive where the code
needs it, and that `NoTask`, `NoId` and `None` are not a task, a book or a position. TLC evaluates them in every run. Sets of
books and tasks may be infinite. What a model takes from outside (the bootloader, the server) is part
of what is proved about.

*The argument for the queue.* None of the properties is inductive alone. `Sequential` needs to know that a
task that may look at the queue is exactly the one the handle names (`HandleInv`): the step that empties the handle
is the one that sends the task to `exit`. `CancelSticks` holds because the flag is cleared in two places only,
and in both no task has a dropped book in hand: `StartLocked` runs with a null handle, hence with no task alive,
and `StartFront` is taken by the one alive task, which is between books. `CancelIsPrompt` follows from it: a task that
is about to write passed its poll with the flag down, so before any cancel or with nothing written since
(`JobInv`). `FrontInv` ties the item shown as downloading to the task that has it, across cancels and stale
results. `FileInv` follows one file from the last chunk to the rename: complete in `.part` up to the rename, complete at
its path from there on, not remote once the index is written. `IInv` is the conjunction; `Invariance` proves it
by one lemma per group of actions, the action properties follow from it, and `ImplementsBookFifo` maps every
step to a `Join`, a `Leave`, a `GiveUp`, a `PowerOff` or a stutter.

*The other arguments.* Each proof module states its inductive invariant at the top, and proves it by one lemma
per conjunct or per group of actions.

- `QueueScreenProofs`. A screen's steps change nothing of the queue (`AScreenOnlyWatches`), so the queue's own
  invariant holds beside it. What a poll has built is worth as much as the counters it read before it built:
  `RowsInv` says the rows are the queue's while `seen` agrees with `generation`, and `FilesInv` that every book on the card
  is listed, unreported, or still in the hands of the task that renamed it (`Landing`) while `seen` agrees with `completions`.
  Both are inductive because an operation that changes the view moves `generation` (`OperationsAreCounted`)
  and a task that lets go of a landed book moves `completions` or leaves it in `silent` (`LandingKept`). Neither would be with
  the counters read afterwards, which is what `onEnter()` does: the properties start at the first poll.
- `HomeSyncProofs`. `OncePerBoot` counts attempts; what is inductive is that an attempt counted or under
  way has its latch set (`ConnectLatch`, `FetchLatch`): the latch is set in `run()` before the search and survives the worker, and
  only a reboot clears it together with the counts. The home screen adds no step of its own to the worker
  (`HomeImplementsLibrarySync`). `DiscoveredOnce` needs that a hand-over has its latch set (`ToldLatch`), and
  `BannerIsCurrent` that the screen has not read ahead of the worker's generation (`SeenBound`) and that a phase cannot change
  without it (`GenerationMoves`). `DueUntilSynced` (proved, without a run) is what the saturation of the boot counter is for: once the count has reached the
  interval, only the receipt of a wallpaper sync takes it below. It needs the counter to stand still at its last value.
- `ActivityManagerProofs`. `Shape` bounds the stack and says what is pending fits on it; `Handlers` relates each
  handler to the activity above it, also while the one to be pushed is still pending; `Wakeups` says who holds the waiting
  handle at each place of the loop task; `Underway` that a picture being painted is the current activity's and that a request is never
  without a pass to come. `OwnIdentities` rests on a count: there are more identities than places an
  activity can be in, so a new one is always free (`FreshIsNew`, by the cardinality of the identities in use).
- `SyncWorkersProofs`. Who holds a mutex is a function of where the tasks are (`HolderInv`), so a circle of
  waits can be enumerated: the only two edges between the queue's and the library's mutex are the two checks.
  `GapInv` says that a download that began with no library sync at all keeps new ones from starting.
- `RecentDiscoveryProofs`. `NothingMissed` speaks of an index in place; what is inductive follows a manifest from its
  first page. `Gathering` says what the pages read so far tell of each book, by its place before or behind the cursor: told, then
  the gathered records are the server's (`Mirrors`) and the old ones will be evicted; not told, then there is
  none. An edit ahead of the cursor keeps that, one behind it puts the book into `missed` (`PutKeeps`). At the last
  page it becomes `Written`, which also says whose record the temp file lacks (`lost`): in a full listing every book was told; in a delta a book it did not tell has a stamp below the watermark, so
  what the old index says of it still holds (`MergedTells`), unless the old index was read to a front only: then its book is in `lost`. The rename turns `Written` into `NothingMissed`.
  `Copying` is the same for "Delete everywhere". For `FlagTracksFile` the proof follows a download: the record it was started
  from is at its path, or the book is excused by the `Unlink` that took the file away (`DownloadOk`); a record in the
  finished temp file is flagged only if it came from the index in place (`FlagsOk`), so a flag never appears in it
  behind the card's back; and two records share a path only if one is stale (`Apart`), because records that say what the
  server says are at paths of their own (`MirroredIsApart`). `SyncsHeal` follows from the stages: only the rename ends a
  sync without counting a fault. The invariant was checked by TLC with two books on three paths before it was
  proved (7.5 million states). The order of the manifest (`BeforeOrder`), a least and a largest number
  (`LeastIs`, `MaxIs`) are the facts about data it rests on.
- `ReaderSyncProofs`. `CheckInv` ties the task's book to the requested one until it is discarded, also
  across the next `start()`; `RadioInv` names who has the radio up at each place of the check, which needs that a check which found
  it connected implies a loan; `SleepInv` that only what was acknowledged is stamped; `BaselineInv` that the
  baseline is the marker's as long as the reader lives. The two action properties follow.
- `FirmwareUpdateProofs`. While the device runs, its partition is whole and the update writes the other one; until
  the boot entry is replaced the selection is the running partition and its entry is settled, so neither erasing
  the other entry nor a boot takes it away; once it is replaced, both partitions are whole (`SelectionInv`). `NewSeqNames`,
  `EraseKeepsSelection` and `ProgramSelects` are the facts about parity and sequence numbers.

## 7. What is only model-checked, and what is not modelled

Only model-checked:

- liveness (`QueueDrains`, `IdleWorkerLeaves`, `SyncIsHandedOver`, `WorkerEnds`, `UpdatesAreShown`, `WaitEnds`,
  `SlotComesBack`): the proof system has no rules for it beyond propositional temporal logic;
- `LocalsSurvive`, `AnnouncedOnce` and `NoGhosts` of `RecentDiscovery`: trimming, inserting and dropping are folds over
  the list, and what they compute for every list needs an induction the installed provers cannot use. For the same
  reason `OnePassIsMerge` is evaluated on small files;
- the overwritten book of section 5 is beyond the two paths of the `RecentDiscovery` run. The proof covers it, for
  any number of paths.

Not modelled: document formats, text layout, fonts, drawing and the hardware layer (data-heavy sequential
code); vendored libraries; the parsing of manifests and of JSON; the contents of HTTP requests; the
test console. `PROJECT.json` says for each component why. Within the modelled components: the paths of books, the
titles and covers of slots, popups, input other than the gestures the manager tells apart, heap figures, the
wrap of 32-bit counters (compared for inequality only).

Most of the repository's lines are generated fonts, hyphenation tries, icons and translations, and vendored
libraries (expat, uzlib, the codecs): these modules cover the code in `src/sync`, the queue, index, discovery
and update libraries, and the parts of the activities that talk to them, which is a small share of all lines.

## 8. Plan

All modules of section 2 are done. What a continuation could add, most important first:

1. `WifiBackoff`: the four users that load, act and store one record. How far the record can fall behind.
2. `DevicePairing`: the poller with the wrap of `millis()`, its slow-downs and its expiry.
3. `WallpaperSync` reconcile, `HomeBookSlots` and `FileBrowserMerge` as pure operators against reference definitions.
4. The book-finished event with its pending path, and the upload of the web server.
