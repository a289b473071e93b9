---------------------------- MODULE SyncManifest ----------------------------
(***************************************************************************)
(* The library index on the card (src/sync/SyncManifest.cpp and             *)
(* lib/SyncManifest): sync() fetches the server's manifest page by page,    *)
(* whole or since a watermark, merges it with the index there is and        *)
(* renames the result into place; removeFromIndex() drops one book; the     *)
(* download worker flips a book's flag in place.  The owner of the library  *)
(* edits it elsewhere at any moment, also between two pages.                *)
(*                                                                          *)
(* A file is its records and its header; the order of the Storage calls is  *)
(* the code's, a reboot or a failure comes between any two of them.  The    *)
(* records are a set; a file has them in path order, and the merge's one    *)
(* pass over it is MCRecentDiscovery's OnePass.  A scan takes a read that    *)
(* fails for the end of the file, and does not see that a file has lost its  *)
(* end.  One task at a time rewrites the index: nothing in the code enforces *)
(* it, see the README.                                                      *)
(***************************************************************************)
EXTENDS Integers, FiniteSets, FiniteSetsExt

CONSTANTS Ids,        \* the library's book ids, numbers
          AtFirst,    \* the books there are before the first sync, each at its own path
          Wanted,     \* the books the reader downloads
          MaxPath,    \* paths are 1..MaxPath, in the order the server sorts them
          PageLimit,  \* PAGE_LIMIT
          MaxClock,   \* bound on the server's seconds
          MaxEdits,   \* bound on the edits of the library
          MaxFaults   \* bound on failures, reboots and corruptions

ASSUME IdsAssumption == Ids \subseteq Nat \ {0} /\ IsFiniteSet(Ids)
ASSUME AtFirstAssumption == AtFirst \subseteq Ids \cap 1..MaxPath
ASSUME WantedAssumption == Wanted \subseteq Ids
ASSUME PageLimitAssumption == PageLimit \in Nat \ {0}
ASSUME BoundsAssumption == {MaxPath, MaxClock, MaxEdits, MaxFaults} \subseteq Nat

VARIABLES server,   \* the library as the server has it
          clock,    \* when the library was last edited, in the seconds of updatedAt
          edits,    \* how many edits there were
          idx,      \* remote.idx
          w,        \* the task that rewrites the index, its locals and its temp file
          dl,       \* the download worker
          files,    \* the books on the card, by path
          faults,   \* how many things went wrong
          behind,   \* history: what the committed pages or merge could not see
          lost,     \* history: whose records the card has lost, and no listing brought back
          excused   \* history: deleted from the card, replaced while downloading, overwritten

serverVars == <<server, clock, edits>>
history == <<behind, lost, excused>>
vars == <<serverVars, idx, w, dl, files, faults, history>>

Paths == 1..MaxPath
NoFile == [there |-> FALSE]
\* header: is it a valid one; broken: a record line does not parse.
Index(mark, rows) ==
    [there |-> TRUE, header |-> TRUE, mark |-> mark, rows |-> rows, broken |-> FALSE]

\* rows: in a delta the upserts until the merge, else what the temp file holds.  A
\* temp file nobody writes is never read, so it is not kept.  victim: the file that
\* "Delete everywhere" removes from the card once it is done with the index.
IdleWriter == [pc |-> "idle", delta |-> FALSE, since |-> 0, cursor |-> <<0, 0>>, max |-> 0,
               remove |-> {}, rows |-> {}, missed |-> {}, lost |-> {}, victim |-> 0]
\* others: history, the flagged books another record has at the path.
NoDownload == [pc |-> "none", id |-> 0, path |-> 0, attached |-> FALSE, others |-> {}]

Init ==
    /\ server = [i \in Ids |-> IF i \in AtFirst
                               THEN [path |-> i, at |-> 1, rev |-> 0, alive |-> TRUE]
                               ELSE [path |-> 0, at |-> 0, rev |-> 0, alive |-> FALSE]]
    /\ clock = 1 /\ edits = 0
    /\ idx = NoFile
    /\ w = IdleWriter
    /\ dl = NoDownload
    /\ files = [p \in Paths |-> 0]
    /\ faults = 0
    /\ behind = {} /\ lost = {} /\ excused = {}

-----------------------------------------------------------------------------
(* The server: external, as the code uses it. *)

\* The manifest is paged in path order; a book's place in it.
Place(id, path) == <<path, id>>
Before(p, q) == p[1] < q[1] \/ (p[1] = q[1] /\ p[2] < q[2])
At(id) == Place(id, server[id].path)

\* An edit behind the cursor of a pagination is what the pages cannot see.
NoteEdit(id, path) ==
    LET places == {Place(id, path)} \cup (IF server[id].at = 0 THEN {} ELSE {At(id)})
        unseen == w.pc = "page" /\ \E place \in places : ~Before(w.cursor, place)
    IN w' = IF unseen THEN [w EXCEPT !.missed = @ \cup {id}] ELSE w

\* An edit is stamped with the time it is made at, and makes a new revision.
Edit(id, path, alive) ==
    /\ edits < MaxEdits
    /\ edits' = edits + 1
    /\ \E now \in clock..MaxClock :
          /\ clock' = now
          /\ server' = [server EXCEPT ![id] =
                          [path |-> path, at |-> now, rev |-> @.rev + 1, alive |-> alive]]

\* The other phases of the writer do not look at the server: an edit in one of them
\* commutes with its steps, and is left for the next idle moment.
Observed == w.pc \in {"idle", "page"}

Put(id, path, alive) ==
    /\ Observed
    /\ Edit(id, path, alive)
    /\ NoteEdit(id, path)
    /\ UNCHANGED <<idx, dl, files, faults, history>>

\* A book is added, renamed or replaced, or deleted: then a tombstone stays.
OwnerWrites(id) ==
    \E path \in Paths :
        /\ server[id].alive \/ server[id].at = 0
        /\ \A j \in Ids \ {id} : server[j].alive => server[j].path # path
        /\ Put(id, path, TRUE)

OwnerDeletes(id) == server[id].alive /\ Put(id, server[id].path, FALSE)

\* Without `since` only the living are listed, with it everything not older.
Scope(delta, since) ==
    {i \in Ids : server[i].at > 0 /\ IF delta THEN server[i].at >= since ELSE server[i].alive}

\* What is left to list, and the page that ends with a book.
Rest == {i \in Scope(w.delta, w.since) : Before(w.cursor, At(i))}
PageTo(last) == {i \in Rest : ~Before(At(last), At(i))}

-----------------------------------------------------------------------------
(* sync() *)

Fault == faults < MaxFaults /\ faults' = faults + 1

Usable(file) == file.there /\ file.header

\* A full fetch, or one since the watermark, into a new temp file.
Fetching(delta, since) == [IdleWriter EXCEPT !.pc = "page", !.delta = delta, !.since = since]

\* The header of the index there is decides between them; so does its not being read.
SyncStart ==
    /\ w.pc = "idle"
    /\ \/ /\ w' = IF Usable(idx) THEN Fetching(TRUE, idx.mark) ELSE Fetching(FALSE, 0)
          /\ UNCHANGED faults
       \/ Usable(idx) /\ Fault /\ w' = Fetching(FALSE, 0)
    /\ UNCHANGED <<serverVars, idx, dl, files, history>>

\* A record is written with its flag down: see the top of SyncManifest.cpp.
Row(id) == [id |-> id, path |-> server[id].path, at |-> server[id].at,
            rev |-> server[id].rev, flag |-> FALSE]

\* Mutant: an updated book is not evicted from the old index.
TakeKeeps(page) ==
    LET alive == {i \in page : server[i].alive}
    IN [w EXCEPT !.max = Max({@} \cup {server[i].at : i \in page}),
                 !.remove = @ \cup (page \ alive),
                 !.rows = @ \cup {Row(i) : i \in alive}]

\* onManifestEntry() of a page's entries: a tombstone is an eviction and no record.
Take(page) ==
    LET alive == {i \in page : server[i].alive}
    IN [w EXCEPT !.max = Max({@} \cup {server[i].at : i \in page}),
                 !.remove = @ \cup page,
                 !.rows = @ \cup {Row(i) : i \in alive}]

\* After the last page: a delta is merged, a full listing is complete.
Listed == IF w.delta THEN "merge" ELSE "unlink"

\* One page: its entries go to the temp file (full) or to memory (delta).
FetchPage ==
    /\ w.pc = "page"
    /\ \/ Rest = {} /\ w' = [w EXCEPT !.pc = Listed]
       \/ \E last \in Rest :
             /\ Cardinality(PageTo(last)) = Min({PageLimit, Cardinality(Rest)})
             /\ w' = [Take(PageTo(last)) EXCEPT
                         !.cursor = At(last),
                         !.pc = IF PageTo(last) = Rest THEN Listed ELSE "page"]
    /\ UNCHANGED <<serverVars, idx, dl, files, faults, history>>

\* performLocalDelete(), if the task was to delete a file as well.
DeleteFile(path) ==
    /\ files' = [files EXCEPT ![path] = 0]
    /\ excused' = excused \cup {files[path]}
DeleteVictim == IF w.victim = 0 THEN UNCHANGED <<files, excused>> ELSE DeleteFile(w.victim)

\* A failure of the network, the server or the pager, or of a write to the card, the last
\* rename's included: the index stays as it is at that point.  A merge has other ways out.
Abort ==
    /\ w.pc \notin {"idle", "merge"}
    /\ Fault
    /\ w' = IdleWriter
    /\ DeleteVictim
    /\ UNCHANGED <<serverVars, idx, dl, behind, lost>>

-----------------------------------------------------------------------------
(* ManifestIndexMerge, and the scan of the old index that feeds it. *)

\* The old records that are not removed, and the upserts.
Merge(old, remove, upserts) == {row \in old : row.id \notin remove} \cup upserts

\* What is in front of some place of the file, which is in path order.
Fronts(rows) ==
    {kept \in SUBSET rows : \A row \in kept, cut \in rows \ kept : row.path <= cut.path}

IdsOf(rows) == {row.id : row \in rows}

\* The temp file after a merge with these of the old records.  The books the old index
\* had wrong stay wrong, unless the listing was about them.
Merging(old) ==
    [w EXCEPT !.rows = Merge(old, w.remove, @),
              !.missed = @ \cup (behind \ w.remove),
              !.lost = (lost \cup IdsOf(idx.rows \ old)) \ w.remove,
              !.pc = "unlink"]

\* With no header there is nothing to merge with.
MergingNone == [w EXCEPT !.missed = @ \cup (Ids \ w.remove), !.pc = "unlink"]

\* Mutant: a delta over a corrupt index fails, and is not done again in full.
MergeGivesUp ==
    /\ w.pc = "merge"
    /\ \/ Usable(idx) /\ ~idx.broken /\ w' = Merging(idx.rows) /\ UNCHANGED faults
       \/ Usable(idx) /\ idx.broken /\ w' = IdleWriter /\ UNCHANGED faults
       \/ ~Usable(idx) /\ w' = MergingNone /\ UNCHANGED faults
       \/ Usable(idx) /\ Fault /\ \E old \in Fronts(idx.rows) : w' = Merging(old)
       \/ Fault /\ w' = Fetching(FALSE, 0)
    /\ UNCHANGED <<serverVars, idx, dl, files, history>>

\* The delta is merged with the index there is now, to its end.  One with a line that
\* does not parse ("corrupt_index") is fetched again in full, once; one that had a header
\* when the sync began and has none now is taken for an empty one; a read that fails, the
\* header's included, is the end of the file; a write that fails is a corrupt index too.
MergeDelta ==
    /\ w.pc = "merge"
    /\ \/ Usable(idx) /\ ~idx.broken /\ w' = Merging(idx.rows) /\ UNCHANGED faults
       \/ Usable(idx) /\ idx.broken /\ w' = Fetching(FALSE, 0) /\ UNCHANGED faults
       \/ ~Usable(idx) /\ w' = MergingNone /\ UNCHANGED faults
       \/ Usable(idx) /\ Fault /\ \E old \in Fronts(idx.rows) : w' = Merging(old)
       \/ Fault /\ w' = Fetching(FALSE, 0)
    /\ UNCHANGED <<serverVars, idx, dl, files, history>>

\* Storage.remove(INDEX_PATH): an open handle of the download worker now writes
\* to a file that has no name.
Unlink ==
    /\ w.pc = "unlink"
    /\ idx' = NoFile
    /\ dl' = [dl EXCEPT !.attached = FALSE]
    /\ excused' = IF dl.pc = "none" THEN excused ELSE excused \cup {dl.id}
    /\ w' = [w EXCEPT !.pc = "rename"]
    /\ UNCHANGED <<serverVars, files, faults, behind, lost>>

\* An empty delta leaves the watermark where it was.
NewMark == IF w.max > w.since THEN w.max ELSE w.since

\* The temp file, its header patched, becomes the index.
Rename ==
    /\ w.pc = "rename"
    /\ idx' = Index(NewMark, w.rows)
    /\ behind' = w.missed /\ lost' = w.lost
    /\ w' = IdleWriter
    /\ DeleteVictim
    /\ UNCHANGED <<serverVars, dl, faults>>

-----------------------------------------------------------------------------
(* "Delete everywhere" on the loop task, and removeFromIndex(). *)

Rows(id) == {row \in idx.rows : row.id = id}
Known(id) == Usable(idx) /\ Rows(id) # {}
First(rows) == CHOOSE row \in rows : \A other \in rows : row.path <= other.path
RowOf(id) == First(Rows(id))

\* performServerDeleteThenLocal(), for a book the index has at the file's path: the
\* server first, then the index, then the file.
ServerDelete(path) ==
    /\ w.pc = "idle"
    /\ files[path] # 0
    /\ Usable(idx) /\ ~idx.broken
    /\ \E row \in idx.rows :
          /\ row.path = path
          /\ server[row.id].alive /\ Edit(row.id, server[row.id].path, FALSE)
          /\ w' = [IdleWriter EXCEPT !.pc = "copy", !.since = idx.mark, !.remove = {row.id},
                                     !.victim = path]
    /\ UNCHANGED <<idx, dl, files, faults, history>>

\* The rest of the index is copied, with its header.  One that has gone, or does not
\* parse, is left alone: then the next sync clears the row.  A read that fails is the end.
CopyIndex ==
    /\ w.pc = "copy"
    /\ \/ /\ Usable(idx) => idx.broken
          /\ w' = IdleWriter /\ DeleteVictim /\ UNCHANGED faults
       \/ /\ Usable(idx) /\ ~idx.broken
          /\ w' = Merging(idx.rows) /\ UNCHANGED <<files, excused, faults>>
       \/ /\ Usable(idx) /\ Fault
          /\ \E old \in Fronts(idx.rows) : w' = Merging(old)
          /\ UNCHANGED <<files, excused>>
    /\ UNCHANGED <<serverVars, idx, dl, behind, lost>>

-----------------------------------------------------------------------------
(* The download worker, and the books on the card. *)

\* Two records at one path are what an edit behind the cursor leaves: a download for
\* the one overwrites the file of the other, which the new index may have as well.
Overwritten(id, path) ==
    {row.id : row \in {r \in idx.rows \cup w.rows : r.flag /\ r.path = path /\ r.id # id
                                                   /\ {r.id, id} \cap behind # {}}}

\* book_downloader::download(): findById() gives the path, for the whole download.
StartDownload(id) ==
    /\ dl.pc = "none"
    /\ Known(id) /\ ~idx.broken
    /\ LET path == RowOf(id).path
       IN dl' = [NoDownload EXCEPT !.pc = "fetch", !.id = id, !.path = path,
                                   !.others = Overwritten(id, path)]
    /\ UNCHANGED <<serverVars, idx, w, files, faults, history>>

\* The body is renamed into place, or the download fails.
Land ==
    /\ dl.pc = "fetch"
    /\ \/ /\ server[dl.id].alive
          /\ files' = [files EXCEPT ![dl.path] = dl.id]
          /\ excused' = excused \cup dl.others
          /\ dl' = [dl EXCEPT !.pc = "mark"]
       \/ dl' = NoDownload /\ UNCHANGED <<files, excused>>
    /\ UNCHANGED <<serverVars, idx, w, faults, behind, lost>>

\* markDownloaded(): the record is looked for in the index there is now; it is not found
\* behind a read that fails or a line that does not parse.
OpenToMark ==
    /\ dl.pc = "mark"
    /\ \/ /\ Known(dl.id)
          /\ dl' = [dl EXCEPT !.pc = "flip", !.attached = TRUE] /\ UNCHANGED faults
       \/ /\ Known(dl.id) => idx.broken
          /\ dl' = NoDownload /\ UNCHANGED faults
       \/ Known(dl.id) /\ Fault /\ dl' = NoDownload
    /\ UNCHANGED <<serverVars, idx, w, files, history>>

\* One byte, of a record the handle has.
Flagged(row) == (idx.rows \ {row}) \cup {[row EXCEPT !.flag = TRUE]}

\* Mutant: the flag of the record in front is flipped, not the one looked for.
FlipFirst ==
    /\ dl.pc = "flip"
    /\ idx' = IF dl.attached /\ Rows(dl.id) # {}
              THEN [idx EXCEPT !.rows = Flagged(First(idx.rows))] ELSE idx
    /\ dl' = NoDownload
    /\ UNCHANGED <<serverVars, files, w, faults, history>>

\* Through the open handle, which cannot seek behind the end of the file.
FlipFlag ==
    /\ dl.pc = "flip"
    /\ idx' = IF dl.attached /\ Rows(dl.id) # {}
              THEN [idx EXCEPT !.rows = Flagged(RowOf(dl.id))] ELSE idx
    /\ dl' = NoDownload
    /\ UNCHANGED <<serverVars, files, w, faults, history>>

\* performLocalDelete(): "Delete from device" leaves the index alone.  A sync does not
\* look at the files: a deletion beside one commutes with it and is left for its end.
LocalDelete(path) ==
    /\ w.pc = "idle"
    /\ files[path] # 0
    /\ DeleteFile(path)
    /\ UNCHANGED <<serverVars, idx, w, dl, faults, behind, lost>>

-----------------------------------------------------------------------------
\* A card that corrupts a byte, of a record or of the header.
CardCorrupts ==
    /\ Fault
    /\ idx.there
    /\ \/ idx' = [idx EXCEPT !.broken = TRUE]
       \/ idx' = [idx EXCEPT !.header = FALSE]
    /\ UNCHANGED <<serverVars, files, w, dl, history>>

\* A card that loses the end of the index: the header still parses, and so does every line
\* that is left.
CardTruncates ==
    /\ Fault
    /\ idx.there
    /\ \E kept \in Fronts(idx.rows), broken \in {FALSE, idx.broken} :
          /\ kept # idx.rows
          /\ idx' = [idx EXCEPT !.rows = kept, !.broken = broken]
          /\ lost' = lost \cup IdsOf(idx.rows \ kept)
    /\ UNCHANGED <<serverVars, files, w, dl, behind, excused>>

\* Deep sleep, a restart or a dead battery, between any two steps of a task.
Reboot ==
    /\ Fault
    /\ w' = IdleWriter
    /\ dl' = NoDownload
    /\ UNCHANGED <<serverVars, idx, files, history>>

\* What the owner of the library and the reader at the device do; RecentDiscovery
\* composes them with the rest.
Owner == \E id \in Ids : OwnerWrites(id) \/ OwnerDeletes(id)
Reader == \E path \in Paths : ServerDelete(path) \/ LocalDelete(path)
-----------------------------------------------------------------------------
(* Properties. *)

Mirrored(id) ==
    IF server[id].alive
    THEN \E row \in Rows(id) :
            /\ Rows(id) = {row}
            /\ row.path = server[id].path /\ row.rev = server[id].rev
    ELSE Rows(id) = {}

(* No change is lost but with a record: a book the index shows otherwise than the server
   was changed at or after the watermark, so the next delta brings it; whatever else failed
   or was cut short, and whatever was edited between two pages.  The exceptions are an edit
   behind the cursor of the pagination, which the top of SyncManifest.cpp accepts; a delta
   merged after the old index had lost its header under it; and a book whose record the
   card has lost, by a file that ends early or a read that failed, until the book changes,
   or a whole listing brings it back. *)
NothingMissed ==
    Usable(idx) /\ ~idx.broken =>
        \A id \in Ids \ (behind \cup lost) : Mirrored(id) \/ server[id].at >= idx.mark

OnDevice(row) == files[row.path] = row.id

(* A flag stands for a file: a row is flagged only while its book is on the card at the
   row's path, save for the books deleted from the card alone, those whose index was
   replaced while they were being downloaded, and those another book's download has
   overwritten, which takes two records at one path and so an edit behind the cursor. *)
FlagTracksFile ==
    Usable(idx) => \A id \in Ids \ excused : \A row \in Rows(id) : row.flag => OnDevice(row)

(* A corrupt index never makes a sync fail for good: one that ends without a fault of
   its own leaves an index that can be read, whatever it found on the card. *)
SyncHeals ==
    [][w.pc \in {"page", "merge", "unlink", "rename"} /\ w.victim = 0
         /\ w'.pc = "idle" /\ faults' = faults => Usable(idx') /\ ~idx'.broken]_vars
-----------------------------------------------------------------------------
(* What a comment of the code says, and it does not do. *)

(* SyncManifest.cpp, at its top: a merge that finds the index "corrupt or truncated"
   "retries once as a full sync within the same sync() call".  Then a sync that ends well
   would have brought back every book whose record the file had lost. *)
LostRowsComeBack ==
    [][w.pc = "rename" /\ w.victim = 0 /\ w'.pc = "idle" /\ faults' = faults
         => lost' = {}]_vars
=============================================================================
