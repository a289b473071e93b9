-------------------------- MODULE RecentDiscovery --------------------------
(***************************************************************************)
(* What the reader is shown of the library: the one recency list of         *)
(* RecentBooksStore, the discovery that inserts the server's new books into *)
(* it after a sync (HomeActivity::runRecentDiscovery() and                  *)
(* lib/RecentDiscovery), and the downloads and openings that change its     *)
(* entries.  The index under it is SyncManifest's, with its worker, its     *)
(* owner and its faults.                                                    *)
(***************************************************************************)
EXTENDS SyncManifest, Sequences, SequencesExt

CONSTANTS LocalCap,    \* MAX_RECENT_BOOKS
          RemoteCap    \* MAX_REMOTE_RECENT_BOOKS

ASSUME CapsAssumption == LocalCap \in Nat \ {0} /\ RemoteCap \in Nat \ {0}

VARIABLES list,     \* recentBooks, most recent first: a path and a remote id, 0 once local
          mark,     \* discoveredWatermark, kept with the pairing
          seeded,   \* isManifestSeeded()
          fresh,    \* a sync ended well in this boot and was not handed over yet
          offered   \* history: per book, the stamp a discovery, carried through, inserted last

shelfVars == <<list, mark, seeded, fresh, offered>>
allVars == <<vars, shelfVars>>

ShelfInit ==
    /\ Init
    /\ list = <<>> /\ mark = 0 /\ seeded = FALSE
    /\ fresh = FALSE
    /\ offered = [id \in Ids |-> 0]
-----------------------------------------------------------------------------
(* RecentBooksStore *)

Remote(entry) == entry.remote # 0

\* Mutant: one cap for all entries.
TrimShared(entries) == SubSeq(entries, 1, Min({LocalCap, Len(entries)}))

\* trimLocked(): local and remote entries have budgets of their own.
Trim(entries) ==
    LET keep(acc, entry) ==
            IF Len(SelectSeq(acc, LAMBDA e : Remote(e) = Remote(entry)))
                 < (IF Remote(entry) THEN RemoteCap ELSE LocalCap)
            THEN Append(acc, entry) ELSE acc
    IN FoldLeft(keep, <<>>, entries)

AtFront(entries, entry) ==
    Trim(<<entry>> \o SelectSeq(entries, LAMBDA e : e.path # entry.path))

\* addBook(): a book on the card is opened; entries whose file is gone are pruned
\* first, a remote one has none by definition.  Left for the end of a sync, like
\* LocalDelete.
OpenBook(path) ==
    /\ w.pc = "idle"
    /\ files[path] # 0
    /\ list' = AtFront(SelectSeq(list, LAMBDA e : Remote(e) \/ files[e.path] # 0),
                       [path |-> path, remote |-> 0])
    /\ UNCHANGED <<vars, mark, seeded, fresh, offered>>

\* markDownloaded(), by path, before the index learns of the book.
ListDownloaded ==
    list' = [k \in DOMAIN list |->
                IF list[k].path = dl.path THEN [list[k] EXCEPT !.remote = 0] ELSE list[k]]

-----------------------------------------------------------------------------
(* runRecentDiscovery(), on the loop task: one scan, of which it gets `read` *)

RowSet == IF Usable(idx) THEN idx.rows ELSE {}
InList(path) == \E k \in DOMAIN list : list[k].path = path

\* The scan keeps the newest records that are neither listed nor on the card, and
\* none at all on the first sync after a pairing.
Eligible(read) == {row \in read : ~row.flag /\ ~InList(row.path) /\ files[row.path] = 0}
Newest(rows, n) ==
    LET newer(a, b) == a.at > b.at \/ (a.at = b.at /\ a.path < b.path)
        sorted == SetToSortSeq(rows, newer)
    IN SubSeq(sorted, 1, Min({n, Len(sorted)}))
Candidates(read) == IF seeded THEN Newest(Eligible(read), RemoteCap) ELSE <<>>

\* decide() on what is gone from the server: the first entry each such id has.
Gone(read) ==
    {k \in DOMAIN list :
        /\ Remote(list[k]) /\ \A row \in read : row.id # list[k].remote
        /\ \A j \in 1..(k - 1) : list[j].remote # list[k].remote}

\* Mutant: what the server has deleted stays.
DropNone(gone) == list

\* removeByPath() of each.
Drop(gone) ==
    FoldLeftDomain(LAMBDA acc, k : IF k \in gone THEN acc ELSE Append(acc, list[k]), <<>>, list)

\* Mutant: novelty is not being in the list.
InsertFrontAny(read) == Candidates(read)

\* decide() on what is new: what is beyond the mark.
InsertFront(read) == SelectSeq(Candidates(read), LAMBDA row : row.at > mark)
NewWatermark(read) == Max({mark} \cup {row.at : row \in Range(Candidates(read))})

\* addRemoteBook() of each, the oldest first.
Insert(rows, entries) ==
    FoldRight(LAMBDA row, acc : AtFront(acc, [path |-> row.path, remote |-> row.id]),
              rows, entries)

Listing(read) == Insert(InsertFront(read), Drop(Gone(read)))

\* The list is saved, and setManifestSeeded() and setDiscoveredWatermark().
Discovering(read) ==
    /\ list' = Listing(read)
    /\ seeded' = TRUE /\ mark' = NewWatermark(read)
    /\ offered' = [id \in Ids |-> Max({offered[id]} \cup
                        {row.at : row \in {r \in Range(InsertFront(read)) : r.id = id}})]

\* A line that does not parse leaves everything as it is; a read that fails is taken for
\* the end of the file, and what is behind it for gone.
Discover ==
    /\ fresh /\ w.pc = "idle"
    /\ fresh' = FALSE
    /\ \/ Usable(idx) /\ idx.broken /\ UNCHANGED <<list, mark, seeded, offered, faults>>
       \/ ~(Usable(idx) /\ idx.broken) /\ Discovering(RowSet) /\ UNCHANGED faults
       \/ Usable(idx) /\ Fault /\ \E read \in Fronts(RowSet) : Discovering(read)
    /\ UNCHANGED <<serverVars, idx, w, dl, files, history>>

-----------------------------------------------------------------------------
\* Only performSync() ends with a result for the home screen, which may not poll it ever.
SyncEnds == /\ Rename
            /\ fresh' = (fresh \/ w.victim = 0)
            /\ UNCHANGED <<list, mark, seeded, offered>>

Marks == OpenToMark /\ ListDownloaded /\ UNCHANGED <<mark, seeded, fresh, offered>>

\* fromJson() gives each kind its budget.
Restart == Reboot /\ fresh' = FALSE /\ list' = Trim(list) /\ UNCHANGED <<mark, seeded, offered>>

\* Each drop and each insertion saves the list: what a discovery that is cut short has
\* saved so far.
SavedSoFar(read) ==
    LET fronts == InsertFront(read)
    IN {Drop({k \in Gone(read) : k <= n}) : n \in 0..Len(list)}
         \cup {Insert(SubSeq(fronts, n, Len(fronts)), Drop(Gone(read))) : n \in 1..Len(fronts)}

\* The restart comes before the mark is stored.
RestartInDiscovery ==
    /\ fresh /\ w.pc = "idle" /\ ~(Usable(idx) /\ idx.broken)
    /\ Fault
    /\ w' = IdleWriter /\ dl' = NoDownload
    /\ fresh' = FALSE
    /\ \E saved \in SavedSoFar(RowSet) : list' = Trim(saved)
    /\ UNCHANGED <<serverVars, idx, files, history, mark, seeded, offered>>

\* What the list has no part in.
Below ==
    /\ \/ SyncStart \/ FetchPage \/ MergeDelta \/ Unlink \/ CopyIndex
       \/ (\E id \in Wanted : StartDownload(id)) \/ Land \/ FlipFlag
       \/ Owner \/ Reader \/ Abort
       \/ CardCorrupts \/ CardTruncates
    /\ UNCHANGED shelfVars

ShelfNext ==
    \/ Below \/ SyncEnds \/ Marks \/ Restart \/ RestartInDiscovery
    \/ Discover
    \/ \E path \in Paths : OpenBook(path)

ShelfSpec == ShelfInit /\ [][ShelfNext]_allVars
-----------------------------------------------------------------------------
(* Properties. *)

Locals(entries) == SelectSeq(entries, LAMBDA e : ~Remote(e))

(* A recoverable entry never evicts an unrecoverable one: a discovery, however many
   books it brings and drops, leaves the reading history as it is; save that it trims
   what downloads, which do not trim, have left beyond the cap. *)
LocalsSurvive ==
    [][fresh /\ ~fresh' =>
         \/ Locals(list') = Locals(list)
         \/ /\ Len(Locals(list)) > LocalCap
            /\ Locals(list') = SubSeq(Locals(list), 1, LocalCap)]_allVars

NewRemote == {e \in Range(list') : Remote(e) /\ ~InList(e.path)}
Announces(row, e) == row.id = e.remote /\ row.path = e.path

(* No reshuffling: a book that the cap has pushed out of the list, or that was opened
   or deleted since, is not announced again until the server changes it. *)
AnnouncedOnce ==
    [][\A e \in NewRemote :
          \E row \in RowSet : Announces(row, e) /\ row.at > offered[e.remote]]_allVars

Entries(id) == {k \in DOMAIN list : list[k].remote = id}

(* An entry of a book that is gone from the server does not outlive the discovery after
   the sync that learns of it; save that of two entries of one book, which a rename
   leaves, one goes now and the other with the next discovery. *)
NoGhosts ==
    [][fresh /\ ~fresh' /\ faults' = faults /\ ~(Usable(idx) /\ idx.broken) =>
         \A e \in Range(list') :
            \/ ~Remote(e)
            \/ \E row \in RowSet : row.id = e.remote
            \/ Cardinality(Entries(e.remote)) > 1]_allVars

=============================================================================
