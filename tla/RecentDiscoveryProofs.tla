----------------------- MODULE RecentDiscoveryProofs -----------------------
(***************************************************************************)
(* The index on the card, for libraries, pages, edits and faults of any     *)
(* number: no change of the library is lost but behind the cursor or with a *)
(* record that the card has lost, a flag stands for a file, and a sync that *)
(* ends has healed a corrupt index.  The invariant says what the pages read *)
(* so far tell of every book, and what the finished temp file holds of it,  *)
(* before either becomes the index: also after a scan of the old index that *)
(* a failed read, or a file without its end, has cut short.                 *)
(***************************************************************************)
EXTENDS RecentDiscovery, FiniteSetTheorems, WellFoundedInduction, TLAPS

Records == [id : Ids, path : Paths, at : Nat, rev : Nat, flag : BOOLEAN]
Indexes == [there : {TRUE}, header : BOOLEAN, mark : Nat, rows : SUBSET Records,
            broken : BOOLEAN]
Downloads == [pc : {"none", "fetch", "mark", "flip"}, id : Nat, path : Nat,
              attached : BOOLEAN, others : SUBSET Ids]
Stages == {"idle", "page", "merge", "copy", "unlink", "rename"}
Writers == [pc : Stages, delta : BOOLEAN, since : Nat, cursor : Nat \X Nat, max : Nat,
            remove : SUBSET Ids, rows : SUBSET Records, missed : SUBSET Ids,
            lost : SUBSET Ids, victim : Nat]

\* What a set of records says of a book, against what the server says.
Of(rows, id) == {row \in rows : row.id = id}
Mirrors(rows, id) ==
    IF server[id].alive
    THEN \E row \in rows : /\ Of(rows, id) = {row}
                           /\ row.path = server[id].path /\ row.rev = server[id].rev
    ELSE Of(rows, id) = {}

\* Records are of known books and not newer than a mark; two at one path or of one book
\* tell of a book that went stale, and so does one of a book whose record is lost.
Stamped(rows, stamp) == \A row \in rows : row.at \in 1..stamp /\ server[row.id].at > 0
Apart(rows, stale) ==
    \A r, s \in rows : r.path = s.path /\ r.id # s.id => {r.id, s.id} \cap stale # {}
Single(rows, stale) == \A r, s \in rows : r.id = s.id /\ r # s => r.id \in stale
Absent(rows, gone, stale) == \A r \in rows : r.id \in gone => r.id \in stale
Kept(rows, gone, stale) == Apart(rows, stale) /\ Single(rows, stale) /\ Absent(rows, gone, stale)

LibraryOk ==
    /\ server \in [Ids -> [path : Nat, at : Nat, rev : Nat, alive : BOOLEAN]]
    /\ clock \in Nat \ {0} /\ faults \in Nat
    /\ \A id \in Ids : /\ server[id].at <= clock
                       /\ server[id].alive => server[id].at > 0 /\ server[id].path \in Paths
    /\ \A i, j \in Ids : server[i].alive /\ server[j].alive /\ i # j
                            => server[i].path # server[j].path

IndexOk ==
    /\ idx \in {NoFile} \cup Indexes
    /\ idx.there => idx.mark <= clock /\ Stamped(idx.rows, idx.mark)
    /\ Usable(idx) => Kept(idx.rows, lost, behind)

\* Also of a file with a line that does not parse: what a merge reads of it.
RowsTell ==
    Usable(idx) => \A id \in Ids \ (behind \cup lost) : Mirrored(id) \/ server[id].at >= idx.mark

\* What the pages have told of a book, or not told yet.
Tells(rows, remove, id, told) ==
    IF told THEN id \in remove /\ Mirrors(rows, id)
    ELSE id \notin remove /\ Of(rows, id) = {}
Gathered(id, told) == Tells(w.rows, w.remove, id, told)
Told(id) ==
    /\ id \in Scope(w.delta, w.since)
    /\ w.pc = "page" => ~Before(w.cursor, At(id))

Gathering ==
    /\ w.victim = 0 /\ w.lost = {} /\ (w.pc = "merge" => w.delta) /\ (~w.delta => w.since = 0)
    /\ w.delta /\ Usable(idx) => w.since = idx.mark
    /\ w.since <= clock /\ w.max <= clock
    /\ Stamped(w.rows, w.max)
    /\ \A id \in Ids \ w.missed : Gathered(id, Told(id))

\* "Delete everywhere" has told the server, and has the index still to copy.
Copying ==
    /\ w.since \in 1..clock /\ w.max = 0
    /\ Usable(idx) => w.since = idx.mark
    /\ w.rows = {} /\ w.missed = {} /\ w.lost = {}
    /\ \A id \in w.remove : ~server[id].alive

\* What a rename leaves stale, and what it puts in place.
Stale == w.missed \cup w.lost
Written ==
    /\ NewMark <= clock
    /\ Stamped(w.rows, NewMark)
    /\ Kept(w.rows, w.lost, w.missed)
    /\ \A id \in Ids \ Stale : Mirrors(w.rows, id) \/ server[id].at >= NewMark

WriterOk ==
    /\ w \in Writers /\ behind \subseteq Ids /\ lost \subseteq Ids
    /\ w.pc = "idle" => w = IdleWriter
    /\ w.pc \in {"page", "merge"} => Gathering
    /\ w.pc = "copy" => Copying
    /\ w.pc \in {"unlink", "rename"} => Written
    /\ w.pc = "rename" => idx = NoFile

SyncInv == LibraryOk /\ IndexOk /\ WriterOk /\ RowsTell

\* A record's flag and the card; what a finished download may put at its path.
Stands(row) == row.flag /\ row.id \notin excused => files[row.path] = row.id
Spared(row) ==
    row.flag /\ row.path = dl.path /\ row.id # dl.id => row.id \in excused \cup dl.others

DownloadOk ==
    /\ dl \in Downloads /\ files \in [Paths -> Ids \cup {0}]
    /\ dl.pc # "none" => dl.id \in Ids /\ dl.path \in Paths
    /\ dl.attached => idx.there
    /\ dl.pc # "none" /\ Usable(idx) /\ dl.id \notin excused =>
            Rows(dl.id) = {} \/ RowOf(dl.id).path = dl.path
    /\ dl.pc # "none" /\ w.pc = "rename" => dl.id \in excused
    /\ dl.pc \in {"mark", "flip"} /\ dl.id \notin excused => files[dl.path] = dl.id
    /\ dl.pc = "fetch" /\ Usable(idx) => \A row \in idx.rows : Spared(row)
    /\ dl.pc = "fetch" => \A row \in w.rows : Spared(row)

FlagsOk ==
    /\ Usable(idx) => \A row \in idx.rows : Stands(row)
    /\ \A row \in w.rows : Stands(row)
    /\ w.pc \in {"page", "merge"} => \A row \in w.rows : ~row.flag
    /\ w.pc = "unlink" /\ Usable(idx) => \A row \in w.rows, other \in idx.rows :
            row.flag /\ row.path = other.path /\ row.id # other.id =>
                {row.id, other.id} \cap behind # {}

IInv == SyncInv /\ DownloadOk /\ FlagsOk

-----------------------------------------------------------------------------
(* The operators. *)

(* Of some natural numbers one is the least. *)
LEMMA LeastIs ==
    ASSUME NEW S, S \subseteq Nat, S # {}
    PROVE  \E m \in S : \A n \in S : m <= n
<1>1. PICK m \in S : \A n \in S : ~(<<n, m>> \in OpToRel(<, Nat))
  BY NatLessThanWellFounded, WFMin
<1>2. ASSUME NEW n \in S PROVE m <= n
  <2>1. ~(<<n, m>> \in {ss \in Nat \X Nat : ss[1] < ss[2]})
    BY <1>1 DEF OpToRel
  <2> QED BY <2>1
<1> QED BY <1>2

(* Natural numbers with a bound have a largest one, and Max is it. *)
LEMMA MaxIs ==
    ASSUME NEW b \in Nat, NEW S, S \subseteq 0..b, S # {}
    PROVE  Max(S) \in S /\ \A x \in S : x <= Max(S)
<1> DEFINE Bounds == {n \in Nat : \A x \in S : x <= n}
<1>1. b \in Bounds
  OBVIOUS
<1>2. PICK m \in Bounds : \A n \in Bounds : m <= n
  <2> HIDE DEF Bounds
  <2>1. Bounds \subseteq Nat
    BY DEF Bounds
  <2> QED BY <1>1, <2>1, LeastIs
<1>3. m \in Nat /\ \A x \in S : x <= m
  OBVIOUS
<1>4. \A x \in S : x \in Nat
  OBVIOUS
<1>5. PICK x \in S : TRUE
  OBVIOUS
<1>6. m \in S
  <2>1. SUFFICES ASSUME m \notin S PROVE FALSE
    OBVIOUS
  <2>2. x <= m /\ x # m /\ x \in Nat
    BY <2>1, <1>3, <1>4
  <2>3. \A y \in S : y <= m - 1
    BY <2>1, <1>3, <1>4
  <2>4. m - 1 \in Bounds /\ m - 1 < m
    BY <2>2, <2>3, <1>3
  <2> QED BY <2>4, <1>2, <1>3
<1>7. \E y \in S : \A z \in S : y >= z
  BY <1>3, <1>6
<1> QED BY <1>7, <1>4 DEF Max

(* The record in front of some is one of them, and none of them is before it. *)
LEMMA FirstIs ==
    ASSUME NEW rows \in SUBSET Records, rows # {}
    PROVE  First(rows) \in rows /\ \A other \in rows : First(rows).path <= other.path
<1> DEFINE paths == {row.path : row \in rows}
<1>1. paths \subseteq Nat /\ paths # {}
  BY BoundsAssumption DEF Records, Paths
<1>3. PICK m \in paths : \A n \in paths : m <= n
  BY <1>1, LeastIs
<1>4. PICK row \in rows : row.path = m
  OBVIOUS
<1>5. \A other \in rows : row.path <= other.path
  BY <1>3, <1>4
<1> QED BY <1>5 DEF First

(* The manifest's order is one, and total. *)
LEMMA BeforeOrder ==
    ASSUME NEW p \in Nat \X Nat, NEW q \in Nat \X Nat, NEW r \in Nat \X Nat
    PROVE  /\ ~Before(p, p)
           /\ ~Before(p, q) /\ ~Before(q, r) => ~Before(p, r)
           /\ Before(p, q) /\ Before(q, r) => Before(p, r)
BY DEF Before

-----------------------------------------------------------------------------
(* The library and its edits. *)

LEMMA InitSync == Init => SyncInv
<1> SUFFICES ASSUME Init PROVE SyncInv
  OBVIOUS
<1>1. LibraryOk
  <2>1. server \in [Ids -> [path : Nat, at : Nat, rev : Nat, alive : BOOLEAN]]
    BY IdsAssumption DEF Init
  <2>2. \A id \in Ids : /\ server[id].at <= 1 /\ (server[id].alive => server[id].at > 0)
                        /\ server[id].alive => server[id].path = id /\ id \in AtFirst
    BY DEF Init
  <2>3. AtFirst \subseteq Paths
    BY AtFirstAssumption DEF Paths
  <2> QED BY <2>1, <2>2, <2>3 DEF Init, LibraryOk
<1>2. IndexOk
  BY DEF Init, IndexOk, NoFile, Usable
<1>3. WriterOk
  BY DEF Init, WriterOk, IdleWriter, Writers, Stages
<1>4. RowsTell
  BY DEF Init, RowsTell, Usable, NoFile
<1> QED BY <1>1, <1>2, <1>3, <1>4 DEF SyncInv

(* An edit: the book gets the time it is made at, the others stay. *)
LEMMA EditEffect ==
    ASSUME LibraryOk, NEW id \in Ids, NEW path \in Nat, NEW alive \in BOOLEAN,
           Edit(id, path, alive)
    PROVE  /\ server' \in [Ids -> [path : Nat, at : Nat, rev : Nat, alive : BOOLEAN]]
           /\ clock' \in Nat \ {0} /\ clock <= clock'
           /\ server'[id].at = clock' /\ server'[id].path = path /\ server'[id].alive = alive
           /\ \A j \in Ids \ {id} : server'[j] = server[j]
<1>1. PICK now \in clock..MaxClock :
          /\ clock' = now
          /\ server' = [server EXCEPT ![id] = [path |-> path, at |-> now,
                                               rev |-> server[id].rev + 1, alive |-> alive]]
  BY DEF Edit
<1>2. now \in Nat \ {0} /\ clock <= now /\ server[id].rev + 1 \in Nat
  BY <1>1, BoundsAssumption DEF LibraryOk
<1> QED BY <1>1, <1>2 DEF LibraryOk

(* An index that is there has its fields. *)
LEMMA IndexFields ==
    ASSUME IndexOk, idx.there
    PROVE  /\ idx \in Indexes /\ idx.mark \in Nat /\ idx.rows \in SUBSET Records
           /\ idx.header \in BOOLEAN /\ idx.broken \in BOOLEAN
<1>1. idx # NoFile
  BY DEF NoFile
<1>2. idx \in Indexes
  BY <1>1 DEF IndexOk
<1> QED BY <1>2 DEF Indexes

LEMMA EditKeeps ==
    ASSUME SyncInv, NEW id \in Ids, NEW path \in Nat, NEW alive \in BOOLEAN,
           Edit(id, path, alive), faults' = faults,
           alive => path \in Paths
                    /\ \A j \in Ids \ {id} : server[j].alive => server[j].path # path,
           UNCHANGED <<idx, behind, lost>>
    PROVE  LibraryOk' /\ IndexOk' /\ RowsTell'
<1> USE DEF SyncInv
<1>1. /\ server' \in [Ids -> [path : Nat, at : Nat, rev : Nat, alive : BOOLEAN]]
      /\ clock' \in Nat \ {0} /\ clock <= clock'
      /\ server'[id].at = clock' /\ server'[id].path = path /\ server'[id].alive = alive
      /\ \A j \in Ids \ {id} : server'[j] = server[j]
  BY EditEffect
<1>2. LibraryOk'
  <2>1. \A j \in Ids : /\ server'[j].at <= clock'
                       /\ server'[j].alive => server'[j].at > 0 /\ server'[j].path \in Paths
    BY <1>1 DEF LibraryOk
  <2>2. ASSUME NEW i \in Ids, NEW j \in Ids, server'[i].alive, server'[j].alive, i # j
        PROVE  server'[i].path # server'[j].path
    BY <1>1, <2>2 DEF LibraryOk
  <2> QED BY <1>1, <2>1, <2>2 DEF LibraryOk
<1>3. \A rows, stamp : rows \subseteq Records /\ Stamped(rows, stamp) => Stamped(rows, stamp)'
  BY <1>1 DEF Stamped, LibraryOk, Records
<1>4. IndexOk'
  <2>1. idx.there => idx.mark <= clock' /\ Stamped(idx.rows, idx.mark)'
    <3>1. SUFFICES ASSUME idx.there PROVE idx.mark <= clock' /\ Stamped(idx.rows, idx.mark)'
      OBVIOUS
    <3>2. idx.mark \in Nat /\ idx.rows \subseteq Records
      BY <3>1, IndexFields
    <3>3. idx.mark <= clock /\ Stamped(idx.rows, idx.mark)
      BY <3>1 DEF IndexOk
    <3>4. idx.mark <= clock'
      BY <1>1, <3>2, <3>3 DEF LibraryOk
    <3> QED BY <1>3, <3>2, <3>3, <3>4
  <2>2. Usable(idx) => Kept(idx.rows, lost, behind)
    BY DEF IndexOk
  <2> QED BY <2>1, <2>2 DEF IndexOk, Usable, Kept, Apart, Single, Absent, Stamped
<1>5. RowsTell'
  <2> SUFFICES ASSUME Usable(idx), NEW j \in Ids \ (behind \cup lost)
               PROVE  Mirrored(j)' \/ server'[j].at >= idx.mark
    BY DEF RowsTell, Usable
  <2>1. CASE j = id
    <3>1. idx.there
      BY DEF Usable
    <3>2. idx.mark \in Nat /\ idx.mark <= clock
      BY <3>1, IndexFields DEF IndexOk
    <3> QED BY <1>1, <2>1, <3>2 DEF LibraryOk
  <2>2. CASE j # id
    <3>1. Mirrored(j)' = Mirrored(j)
      BY <1>1, <2>2 DEF Mirrored, Rows
    <3> QED BY <1>1, <2>2, <3>1 DEF RowsTell
  <2> QED BY <2>1, <2>2
<1> QED BY <1>2, <1>4, <1>5

\* The server as it looks of a book, and the pages' view of it.
LEMMA SameView ==
    ASSUME NEW j \in Ids, server'[j] = server[j], w'.rows = w.rows, w'.remove = w.remove,
           w'.pc = w.pc, w'.delta = w.delta, w'.since = w.since, w'.cursor = w.cursor,
           Gathered(j, Told(j))
    PROVE  Gathered(j, Told(j))'
<1>1. Told(j)' <=> Told(j)
  BY DEF Told, Scope, At, Place, Before
<1> QED BY <1>1 DEF Gathered, Tells, Mirrors, Of

LEMMA PutKeeps ==
    ASSUME SyncInv, NEW id \in Ids, NEW path \in Nat, NEW alive \in BOOLEAN,
           Put(id, path, alive),
           alive => path \in Paths
                    /\ \A j \in Ids \ {id} : server[j].alive => server[j].path # path
    PROVE  SyncInv'
<1> USE DEF SyncInv
<1>1. Edit(id, path, alive) /\ UNCHANGED <<idx, faults, behind, lost>> /\ w.pc \in {"idle", "page"}
  BY DEF Put, history, Observed
<1>2. LibraryOk' /\ IndexOk' /\ RowsTell'
  BY <1>1, EditKeeps
<1>3. /\ clock' \in Nat \ {0} /\ clock <= clock'
      /\ server'[id].at = clock' /\ server'[id].path = path
      /\ \A j \in Ids \ {id} : server'[j] = server[j]
  BY <1>1, EditEffect
<1> DEFINE places == {Place(id, path)} \cup (IF server[id].at = 0 THEN {} ELSE {At(id)})
           unseen == w.pc = "page" /\ \E place \in places : ~Before(w.cursor, place)
<1>4. w' = IF unseen THEN [w EXCEPT !.missed = w.missed \cup {id}] ELSE w
  BY DEF Put, NoteEdit
<1>5. w \in Writers
  BY DEF WriterOk
<1>6. WriterOk'
  <2>1. CASE w.pc = "idle"
    <3>1. w' = w
      BY <1>4, <2>1
    <3> QED BY <1>1, <2>1, <3>1 DEF WriterOk
  <2>2. CASE w.pc = "page"
    <3>1. /\ w' \in Writers /\ w'.missed = IF unseen THEN w.missed \cup {id} ELSE w.missed
          /\ w'.pc = "page" /\ w'.delta = w.delta /\ w'.since = w.since
          /\ w'.cursor = w.cursor /\ w'.max = w.max /\ w'.remove = w.remove
          /\ w'.rows = w.rows /\ w'.victim = w.victim /\ w'.lost = w.lost
      <4> HIDE DEF unseen
      <4> QED BY <1>4, <1>5, <2>2 DEF Writers
    <3>2. Gathering
      BY <2>2 DEF WriterOk
    <3>3. w'.since <= clock' /\ w'.max <= clock'
      BY <1>3, <1>5, <3>1, <3>2 DEF Gathering, LibraryOk, Writers
    <3>4. Stamped(w.rows, w.max)'
      BY <1>3, <1>5, <3>1, <3>2 DEF Gathering, Stamped, Writers, Records
    <3>5. ASSUME NEW j \in Ids \ w'.missed PROVE Gathered(j, Told(j))'
      <4>1. Gathered(j, Told(j))
        BY <3>1, <3>2 DEF Gathering
      <4>2. CASE j # id
        <5>1. server'[j] = server[j]
          BY <1>3, <4>2
        <5> HIDE DEF unseen
        <5> QED BY <2>2, <3>1, <4>1, <5>1, SameView
      <4>3. CASE j = id
        <5>1. ~unseen
          BY <3>1, <3>5, <4>3
        <5>2. Before(w.cursor, Place(id, path))
          BY <2>2, <5>1
        <5>3. server[id].at = 0 \/ Before(w.cursor, At(id))
          BY <2>2, <5>1
        <5>4. ~Told(j)
          BY <2>2, <4>3, <5>3 DEF Told, Scope, LibraryOk
        <5>5. ~Told(j)'
          BY <1>3, <3>1, <4>3, <5>2 DEF Told, At, Place
        <5> QED BY <3>1, <4>1, <5>4, <5>5 DEF Gathered, Tells, Of
      <4> QED BY <4>2, <4>3
    <3>6. Gathering'
      BY <1>1, <3>1, <3>2, <3>3, <3>4, <3>5 DEF Gathering, Usable
    <3> QED BY <1>1, <3>1, <3>6 DEF WriterOk
  <2> QED BY <1>1, <2>1, <2>2
<1> QED BY <1>2, <1>6

-----------------------------------------------------------------------------
(* The writer. *)

(* A step that leaves the library, the index and the history alone. *)
LEMMA WriterMoves ==
    ASSUME SyncInv, UNCHANGED <<server, clock, idx, behind, lost>>, faults' \in Nat, WriterOk'
    PROVE  SyncInv'
<1>1. LibraryOk'
  BY DEF SyncInv, LibraryOk
<1>2. IndexOk'
  BY DEF SyncInv, IndexOk, Stamped, Usable
<1>3. RowsTell'
  BY DEF SyncInv, RowsTell, Usable, Mirrored, Rows
<1> QED BY <1>1, <1>2, <1>3 DEF SyncInv

LEMMA IdleIsOk ==
    ASSUME behind' \subseteq Ids, lost' \subseteq Ids, w' = IdleWriter
    PROVE  WriterOk'
BY DEF WriterOk, IdleWriter, Writers, Stages

LEMMA StopKeeps ==
    ASSUME SyncInv, UNCHANGED <<server, clock, idx, behind, lost>>, faults' \in Nat, w' = IdleWriter
    PROVE  SyncInv'
BY WriterMoves, IdleIsOk DEF SyncInv, WriterOk

(* A fetch that has not begun has told of nothing. *)
LEMMA FetchingIsOk ==
    ASSUME SyncInv, UNCHANGED <<server, clock, idx, behind, lost>>,
           NEW delta \in BOOLEAN, NEW since \in Nat, w' = Fetching(delta, since),
           since <= clock, delta => since = idx.mark, ~delta => since = 0
    PROVE  WriterOk'
<1> USE DEF SyncInv
<1>1. /\ w' \in Writers /\ w'.pc = "page" /\ w'.delta = delta /\ w'.since = since
      /\ w'.cursor = <<0, 0>> /\ w'.max = 0 /\ w'.remove = {} /\ w'.rows = {}
      /\ w'.missed = {} /\ w'.victim = 0 /\ w'.lost = {}
  BY DEF Fetching, IdleWriter, Writers, Stages
<1>2. ASSUME NEW id \in Ids PROVE Gathered(id, Told(id))'
  <2>1. id \in Nat \ {0} /\ server[id].path \in Nat
    BY IdsAssumption DEF LibraryOk
  <2>2. Before(<<0, 0>>, At(id))
    BY <2>1 DEF Before, At, Place
  <2>3. At(id)' = At(id)
    BY DEF At
  <2>4. ~Told(id)'
    BY <1>1, <2>2, <2>3 DEF Told
  <2> QED BY <1>1, <2>4 DEF Gathered, Tells, Of
<1>3. Gathering'
  <2>1. since <= clock' /\ 0 <= clock'
    BY DEF LibraryOk
  <2>2. delta /\ Usable(idx)' => since = idx'.mark
    OBVIOUS
  <2>3. Stamped(w.rows, w.max)'
    BY <1>1 DEF Stamped
  <2> QED BY <1>1, <1>2, <2>1, <2>2, <2>3 DEF Gathering
<1> QED BY <1>1, <1>3 DEF WriterOk

LEMMA StartKeeps == SyncInv /\ SyncStart => SyncInv'
<1> SUFFICES ASSUME SyncInv, SyncStart PROVE SyncInv'
  OBVIOUS
<1>1. UNCHANGED <<server, clock, idx, behind, lost>> /\ faults' \in Nat
  <2>1. UNCHANGED <<server, clock, idx, behind, lost>> /\ (Fault \/ faults' = faults)
    BY DEF SyncStart, serverVars, history
  <2> QED BY <2>1 DEF Fault, SyncInv, LibraryOk
<1>2. CASE Usable(idx) /\ w' = Fetching(TRUE, idx.mark)
  <2>1. idx.mark \in Nat /\ idx.mark <= clock
    BY <1>2, IndexFields DEF Usable, SyncInv, IndexOk
  <2> QED BY <1>1, <1>2, <2>1, FetchingIsOk, WriterMoves
<1>3. CASE w' = Fetching(FALSE, 0)
  <2>1. 0 <= clock
    BY DEF SyncInv, LibraryOk
  <2> QED BY <1>1, <1>3, <2>1, FetchingIsOk, WriterMoves
<1> QED BY <1>2, <1>3 DEF SyncStart

(* Records that say what the server says are at paths of their own, one of a book. *)
LEMMA MirroredIsKept ==
    ASSUME LibraryOk, NEW rows \in SUBSET Records, NEW gone, NEW stale,
           \A id \in Ids \ (stale \cup gone) : Mirrors(rows, id), Absent(rows, gone, stale)
    PROVE  Kept(rows, gone, stale)
<1>1. \A row \in rows : row.id \in Ids
  BY DEF Records
<1>2. ASSUME NEW row \in rows, row.id \notin stale
      PROVE  /\ server[row.id].alive /\ row.path = server[row.id].path
             /\ \A s \in rows : s.id = row.id => s = row
  <2>1. row.id \notin gone /\ row.id \in Ids
    BY <1>1, <1>2 DEF Absent
  <2>2. Mirrors(rows, row.id) /\ row \in Of(rows, row.id)
    BY <1>2, <2>1 DEF Of
  <2> QED BY <2>2 DEF Mirrors, Of
<1>3. Apart(rows, stale)
  <2> SUFFICES ASSUME NEW r \in rows, NEW s \in rows, r.path = s.path, r.id # s.id,
                      r.id \notin stale, s.id \notin stale
               PROVE  FALSE
    BY DEF Apart
  <2> QED BY <1>1, <1>2 DEF LibraryOk
<1>4. Single(rows, stale)
  BY <1>2 DEF Single
<1> QED BY <1>3, <1>4 DEF Kept

(* A page: of the books it lists the records say what the server says, of the others
   what they said. *)
LEMMA PageTells ==
    ASSUME LibraryOk, w \in Writers, NEW last \in Rest, NEW id \in Ids, Gathered(id, Told(id)),
           w.pc = "page"
    PROVE  LET page == PageTo(last)
           IN Tells(w.rows \cup {Row(i) : i \in {i \in page : server[i].alive}}, w.remove \cup page,
                    id, id \in Scope(w.delta, w.since) /\ ~Before(At(last), At(id)))
<1> DEFINE page == PageTo(last)
           new == {Row(i) : i \in {i \in page : server[i].alive}}
           told == id \in Scope(w.delta, w.since) /\ ~Before(At(last), At(id))
<1>1. last \in Ids /\ Before(w.cursor, At(last))
  BY DEF Rest, Scope
<1>2. w.cursor \in Nat \X Nat /\ At(last) \in Nat \X Nat /\ At(id) \in Nat \X Nat
  BY <1>1, IdsAssumption DEF Writers, At, Place, LibraryOk
<1>3. CASE id \in page
  <2>1. id \in Rest /\ ~Before(At(last), At(id))
    BY <1>3 DEF PageTo
  <2>2. ~Told(id) /\ told
    BY <2>1 DEF Rest, Told
  <2>3. Of(w.rows, id) = {}
    BY <2>2 DEF Gathered, Tells
  <2>4. Of(w.rows \cup new, id) = IF server[id].alive THEN {Row(id)} ELSE {}
    <3>1. \A i : Row(i).id = i
      BY DEF Row
    <3>2. \A row \in new : row.id = id <=> server[id].alive /\ row = Row(id)
      BY <3>1
    <3>3. server[id].alive => Row(id) \in new
      BY <1>3
    <3>4. \A row \in w.rows : row.id # id
      BY <2>3 DEF Of
    <3> HIDE DEF new
    <3> QED BY <3>1, <3>2, <3>3, <3>4 DEF Of
  <2>5. Mirrors(w.rows \cup new, id)
    <3>1. Row(id).path = server[id].path /\ Row(id).rev = server[id].rev
      BY DEF Row
    <3>2. server[id].alive => Row(id) \in w.rows \cup new
      BY <1>3
    <3> HIDE DEF new
    <3> QED BY <2>4, <3>1, <3>2 DEF Mirrors
  <2> QED BY <1>3, <2>2, <2>5 DEF Tells
<1>4. CASE id \notin page
  <2>1. Of(w.rows \cup new, id) = Of(w.rows, id)
    BY <1>4 DEF Of, Row
  <2>2. Mirrors(w.rows \cup new, id) <=> Mirrors(w.rows, id)
    BY <2>1 DEF Mirrors, Of
  <2>3. told <=> Told(id)
    <3>1. CASE Told(id)
      <4>1. ~Before(w.cursor, At(id))
        BY <3>1 DEF Told
      <4>2. ~Before(At(last), At(id))
        BY <1>1, <1>2, <4>1, BeforeOrder
      <4> QED BY <3>1, <4>2 DEF Told
    <3>2. CASE ~Told(id)
      <4>1. id \in Scope(w.delta, w.since) => id \in Rest
        BY <3>2 DEF Told, Rest
      <4>2. id \in Rest => Before(At(last), At(id))
        BY <1>4 DEF PageTo
      <4> QED BY <3>2, <4>1, <4>2
    <3> QED BY <3>1, <3>2
  <2> QED BY <1>4, <2>1, <2>2, <2>3 DEF Gathered, Tells
<1> QED BY <1>3, <1>4

(* What a page does to the writer's locals. *)
LEMMA TakeEffect ==
    ASSUME LibraryOk, w \in Writers, w.max <= clock, Stamped(w.rows, w.max),
           NEW page \in SUBSET Ids, \A i \in page : server[i].at > 0,
           NEW cursor \in Nat \X Nat, NEW pc \in Stages,
           w' = [Take(page) EXCEPT !.cursor = cursor, !.pc = pc]
    PROVE  /\ w' \in Writers /\ w'.pc = pc /\ w'.cursor = cursor
           /\ w'.delta = w.delta /\ w'.since = w.since /\ w'.missed = w.missed
           /\ w'.victim = w.victim /\ w'.lost = w.lost /\ w'.remove = w.remove \cup page
           /\ w'.rows = w.rows \cup {Row(i) : i \in {i \in page : server[i].alive}}
           /\ w'.max <= clock /\ Stamped(w'.rows, w'.max)
<1> DEFINE top == Max({w.max} \cup {server[i].at : i \in page})
           new == {Row(i) : i \in {i \in page : server[i].alive}}
<1>1. top \in {w.max} \cup {server[i].at : i \in page} /\ w.max <= top
      /\ \A i \in page : server[i].at <= top
  <2> DEFINE S == {w.max} \cup {server[i].at : i \in page}
  <2>1. w.max \in 0..clock /\ \A i \in page : server[i].at \in 0..clock
    BY DEF LibraryOk, Writers
  <2>2. S \subseteq 0..clock /\ S # {} /\ clock \in Nat
    BY <2>1 DEF LibraryOk
  <2>3. Max(S) \in S /\ \A x \in S : x <= Max(S)
    <3> HIDE DEF S
    <3> QED BY <2>2, MaxIs
  <2> QED BY <2>3
<1>2. top \in Nat /\ top <= clock
  <2>1. w.max \in Nat /\ \A i \in page : server[i].at \in Nat /\ server[i].at <= clock
    BY DEF LibraryOk, Writers
  <2> QED BY <1>1, <2>1
<1>3. new \in SUBSET Records
  <2>1. ASSUME NEW i \in page, server[i].alive PROVE Row(i) \in Records
    BY <2>1 DEF LibraryOk, Records, Row
  <2> QED BY <2>1
<1>4. \A row \in new : row.at \in 1..top /\ server[row.id].at > 0
  <2>1. ASSUME NEW i \in page PROVE Row(i).at \in 1..top /\ server[Row(i).id].at > 0
    BY <1>1, <1>2 DEF LibraryOk, Row
  <2> QED BY <2>1
<1>5. \A row \in w.rows : row.at \in 1..top /\ server[row.id].at > 0
  BY <1>1, <1>2 DEF Stamped, Writers, Records
<1> HIDE DEF top, new
<1>6. w' = [w EXCEPT !.max = top, !.remove = w.remove \cup page, !.rows = w.rows \cup new,
                     !.cursor = cursor, !.pc = pc]
  BY DEF Take, top, new, Writers
<1>7. /\ w' \in Writers /\ w'.pc = pc /\ w'.cursor = cursor
      /\ w'.delta = w.delta /\ w'.since = w.since /\ w'.missed = w.missed
      /\ w'.victim = w.victim /\ w'.lost = w.lost /\ w'.remove = w.remove \cup page
      /\ w'.rows = w.rows \cup new /\ w'.max = top
  <2>1. w.rows \cup new \in SUBSET Records /\ w.remove \cup page \in SUBSET Ids
    BY <1>3 DEF Writers
  <2> DEFINE rows == w.rows \cup new
             remove == w.remove \cup page
  <2> HIDE DEF rows, remove
  <2>2. w' = [w EXCEPT !.max = top, !.remove = remove, !.rows = rows, !.cursor = cursor,
                       !.pc = pc]
    BY <1>6 DEF rows, remove
  <2>3. rows \in SUBSET Records /\ remove \in SUBSET Ids
    BY <2>1 DEF rows, remove
  <2>4. /\ w'.pc = pc /\ w'.cursor = cursor
        /\ w'.delta = w.delta /\ w'.since = w.since /\ w'.missed = w.missed
        /\ w'.victim = w.victim /\ w'.lost = w.lost /\ w'.remove = remove /\ w'.rows = rows /\ w'.max = top
    BY <2>2 DEF Writers
  <2>5. w' \in Writers
    BY <1>2, <2>2, <2>3 DEF Writers
  <2> QED BY <2>4, <2>5 DEF rows, remove
<1>8. Stamped(w'.rows, w'.max)
  BY <1>4, <1>5, <1>7 DEF Stamped
<1> QED BY <1>2, <1>7, <1>8 DEF new

(* A full listing that has been read to its end may become the index. *)
LEMMA FullIsWritten ==
    ASSUME LibraryOk, UNCHANGED <<server, clock>>, w' \in Writers, w'.since = 0, w'.lost = {},
           w'.max <= clock, Stamped(w'.rows, w'.max),
           \A id \in Ids \ w'.missed :
              Tells(w'.rows, w'.remove, id, id \in Scope(FALSE, 0))
    PROVE  Written'
<1>1. Stale' = w'.missed /\ NewMark' = w'.max
  BY DEF Stale, NewMark, Writers
<1>2. ASSUME NEW id \in Ids \ w'.missed PROVE Mirrors(w'.rows, id)
  <2>1. server[id].alive <=> id \in Scope(FALSE, 0)
    BY DEF Scope, LibraryOk
  <2> QED BY <2>1 DEF Tells, Mirrors
<1>3. Kept(w'.rows, {}, w'.missed)
  <2>1. Absent(w'.rows, {}, w'.missed)
    BY DEF Absent
  <2> QED BY <1>2, <2>1, MirroredIsKept DEF Writers
<1>4. NewMark' <= clock' /\ Stamped(w.rows, NewMark)'
  BY <1>1 DEF Stamped
<1>5. Kept(w.rows, w.lost, w.missed)'
  BY <1>3 DEF Kept, Apart, Single, Absent
<1>6. \A id \in Ids \ Stale' : Mirrors(w.rows, id)'
  BY <1>1, <1>2 DEF Mirrors, Of
<1> QED BY <1>4, <1>5, <1>6 DEF Written

(* The end of a pagination: a delta is to be merged, a full listing is written. *)
LEMMA ListedKeeps ==
    ASSUME SyncInv, Gathering, UNCHANGED <<server, clock, idx, behind, lost>>,
           w' \in Writers, w'.pc = Listed, w'.delta = w.delta, w'.since = w.since,
           w'.missed = w.missed, w'.victim = w.victim, w'.lost = w.lost, w'.max <= clock,
           Stamped(w'.rows, w'.max),
           \A id \in Ids \ w.missed :
              Tells(w'.rows, w'.remove, id, id \in Scope(w.delta, w.since))
    PROVE  WriterOk'
<1> USE DEF SyncInv
<1>1. behind' \subseteq Ids /\ lost' \subseteq Ids
  BY DEF WriterOk
<1>2. CASE w.delta
  <2>1. w'.pc = "merge"
    BY <1>2 DEF Listed
  <2>2. ASSUME NEW id \in Ids \ w'.missed PROVE Gathered(id, Told(id))'
    <3>1. Told(id)' <=> id \in Scope(w.delta, w.since)
      BY <2>1 DEF Told, Scope
    <3>2. Tells(w'.rows, w'.remove, id, id \in Scope(w.delta, w.since))
      OBVIOUS
    <3> QED BY <3>1, <3>2 DEF Gathered, Tells, Mirrors, Of
  <2>3. Gathering'
    BY <1>2, <2>1, <2>2 DEF Gathering, Stamped, Usable
  <2> QED BY <1>1, <2>1, <2>3 DEF WriterOk
<1>3. CASE ~w.delta
  <2>1. w'.pc = "unlink"
    BY <1>3 DEF Listed
  <2>2. w.since = 0 /\ w.delta = FALSE /\ w.lost = {}
    BY <1>3 DEF Gathering, WriterOk, Writers
  <2>3. Written'
    BY <2>2, FullIsWritten
  <2> QED BY <1>1, <2>1, <2>3 DEF WriterOk
<1> QED BY <1>2, <1>3

LEMMA PageKeeps == SyncInv /\ FetchPage => SyncInv'
<1> SUFFICES ASSUME SyncInv, FetchPage PROVE SyncInv'
  OBVIOUS
<1> USE DEF SyncInv
<1>1. UNCHANGED <<server, clock, idx, behind, lost>> /\ faults' \in Nat /\ w.pc = "page"
  BY DEF FetchPage, serverVars, history, LibraryOk
<1>2. w \in Writers /\ Gathering /\ behind' \subseteq Ids /\ lost' \subseteq Ids
  BY <1>1 DEF WriterOk
<1>3. \A id \in Ids \ w.missed : Gathered(id, Told(id))
  BY <1>2 DEF Gathering
<1>4. CASE Rest = {} /\ w' = [w EXCEPT !.pc = Listed]
  <2>1. /\ w' \in Writers /\ w'.pc = Listed /\ w'.delta = w.delta /\ w'.since = w.since
        /\ w'.missed = w.missed /\ w'.victim = w.victim /\ w'.lost = w.lost /\ w'.max = w.max
        /\ w'.rows = w.rows /\ w'.remove = w.remove
    BY <1>2, <1>4 DEF Writers, Listed, Stages
  <2>2. ASSUME NEW id \in Ids \ w.missed
        PROVE  Tells(w'.rows, w'.remove, id, id \in Scope(w.delta, w.since))
    <3>1. Told(id) <=> id \in Scope(w.delta, w.since)
      BY <1>1, <1>4 DEF Told, Rest
    <3>2. Tells(w.rows, w.remove, id, Told(id))
      BY <1>3 DEF Gathered
    <3> QED BY <2>1, <3>1, <3>2 DEF Tells
  <2>3. w'.max <= clock /\ Stamped(w'.rows, w'.max)
    BY <1>2, <2>1 DEF Gathering
  <2>4. WriterOk'
    BY <1>1, <1>2, <2>1, <2>2, <2>3, ListedKeeps
  <2> QED BY <1>1, <2>4, WriterMoves
<1>5. ASSUME NEW last \in Rest,
             w' = [Take(PageTo(last)) EXCEPT
                     !.cursor = At(last),
                     !.pc = IF PageTo(last) = Rest THEN Listed ELSE "page"]
      PROVE  SyncInv'
  <2> DEFINE page == PageTo(last)
             pc == IF page = Rest THEN Listed ELSE "page"
             told(id) == id \in Scope(w.delta, w.since) /\ ~Before(At(last), At(id))
  <2>1. page \in SUBSET Ids /\ \A i \in page : server[i].at > 0
    BY DEF PageTo, Rest, Scope
  <2>2. At(last) \in Nat \X Nat /\ pc \in Stages
    BY IdsAssumption DEF Rest, Scope, At, Place, LibraryOk, Listed, Stages
  <2>3. /\ w' \in Writers /\ w'.pc = pc /\ w'.cursor = At(last)
        /\ w'.delta = w.delta /\ w'.since = w.since /\ w'.missed = w.missed
        /\ w'.victim = w.victim /\ w'.lost = w.lost /\ w'.remove = w.remove \cup page
        /\ w'.rows = w.rows \cup {Row(i) : i \in {i \in page : server[i].alive}}
        /\ w'.max <= clock /\ Stamped(w'.rows, w'.max)
    <3>1. w.max <= clock /\ Stamped(w.rows, w.max)
      BY <1>2 DEF Gathering
    <3>2. w' = [Take(page) EXCEPT !.cursor = At(last), !.pc = pc]
      BY <1>5
    <3> HIDE DEF page, pc
    <3> QED BY <1>2, <2>1, <2>2, <3>1, <3>2, TakeEffect
  <2>4. ASSUME NEW id \in Ids \ w.missed PROVE Tells(w'.rows, w'.remove, id, told(id))
    BY <1>1, <1>2, <1>3, <2>3, PageTells
  <2>5. CASE page = Rest
    <3>1. w'.pc = Listed
      BY <2>3, <2>5
    <3>2. ASSUME NEW id \in Ids \ w.missed
          PROVE  Tells(w'.rows, w'.remove, id, id \in Scope(w.delta, w.since))
      <4>1. id \in Scope(w.delta, w.since) => ~Before(At(last), At(id))
        <5>1. CASE id \in Rest
          BY <2>5, <5>1 DEF PageTo
        <5>2. CASE id \in Scope(w.delta, w.since) /\ id \notin Rest
          <6>1. ~Before(w.cursor, At(id)) /\ Before(w.cursor, At(last)) /\ last \in Ids
            BY <5>2 DEF Rest, Scope
          <6>2. /\ w.cursor \in Nat \X Nat /\ At(id) \in Nat \X Nat
                /\ At(last) \in Nat \X Nat
            BY <1>2, <2>2, IdsAssumption DEF Writers, At, Place, LibraryOk
          <6> QED BY <6>1, <6>2, BeforeOrder
        <5> QED BY <5>1, <5>2
      <4>2. told(id) <=> id \in Scope(w.delta, w.since)
        BY <4>1
      <4> HIDE DEF told
      <4> QED BY <2>4, <4>2 DEF Tells
    <3> HIDE DEF page, pc, told
    <3>3. WriterOk'
      BY <1>1, <1>2, <2>3, <3>1, <3>2, ListedKeeps
    <3> QED BY <1>1, <3>3, WriterMoves
  <2>6. CASE page # Rest
    <3>1. w'.pc = "page"
      BY <2>3, <2>6
    <3>2. ASSUME NEW id \in Ids \ w'.missed PROVE Gathered(id, Told(id))'
      <4>1. Told(id)' <=> told(id)
        BY <1>1, <2>3, <3>1 DEF Told, Scope, At, Place
      <4>2. Tells(w'.rows, w'.remove, id, told(id))
        BY <2>3, <2>4
      <4> HIDE DEF told
      <4> QED BY <1>1, <4>1, <4>2 DEF Gathered, Tells, Mirrors, Of
    <3> HIDE DEF page, pc, told
    <3>3. Gathering'
      BY <1>1, <1>2, <2>3, <3>1, <3>2 DEF Gathering, Usable, Stamped
    <3>4. WriterOk'
      BY <1>2, <2>3, <3>1, <3>3 DEF WriterOk
    <3> QED BY <1>1, <3>4, WriterMoves
  <2> QED BY <2>5, <2>6
<1> QED BY <1>4, <1>5 DEF FetchPage

(* What the records say of a book is in its own records. *)
LEMMA MirrorsOf ==
    ASSUME NEW old, NEW new, NEW id, Of(new, id) = Of(old, id), Mirrors(old, id)
    PROVE  Mirrors(new, id)
<1>1. CASE server[id].alive
  <2>1. PICK row \in old : /\ Of(old, id) = {row} /\ row.path = server[id].path
                           /\ row.rev = server[id].rev
    BY <1>1 DEF Mirrors
  <2>2. row \in Of(new, id)
    BY <2>1
  <2>3. row \in new
    BY <2>2 DEF Of
  <2> QED BY <1>1, <2>1, <2>3 DEF Mirrors
<1>2. CASE ~server[id].alive
  BY <1>2 DEF Mirrors
<1> QED BY <1>1, <1>2

(* What a scan of the old index, to its end or not, makes of the temp file. *)
LEMMA MergingEffect ==
    ASSUME SyncInv, Usable(idx), NEW old \in SUBSET idx.rows, w' = Merging(old)
    PROVE  /\ w' \in Writers /\ w'.pc = "unlink"
           /\ w'.rows = Merge(old, w.remove, w.rows)
           /\ w'.missed = w.missed \cup (behind \ w.remove)
           /\ w'.lost = (lost \cup IdsOf(idx.rows \ old)) \ w.remove
           /\ w'.since = w.since /\ w'.max = w.max /\ w'.remove = w.remove
           /\ NewMark' = NewMark
<1> DEFINE rows == Merge(old, w.remove, w.rows)
           missed == w.missed \cup (behind \ w.remove)
           gone == (lost \cup IdsOf(idx.rows \ old)) \ w.remove
<1>1. w \in Writers /\ behind \subseteq Ids /\ lost \subseteq Ids
  BY DEF SyncInv, WriterOk
<1>2. idx.rows \in SUBSET Records
  BY IndexFields DEF SyncInv, Usable
<1>3. rows \in SUBSET Records /\ missed \in SUBSET Ids /\ gone \in SUBSET Ids
  <2>1. IdsOf(idx.rows \ old) \subseteq Ids
    BY <1>2 DEF IdsOf, Records
  <2>2. w.rows \in SUBSET Records /\ w.missed \in SUBSET Ids
    BY <1>1 DEF Writers
  <2> QED BY <1>1, <1>2, <2>1, <2>2 DEF Merge
<1>4. w' = [w EXCEPT !.rows = rows, !.missed = missed, !.lost = gone, !.pc = "unlink"]
  BY <1>1 DEF Merging, Writers
<1> HIDE DEF rows, missed, gone
<1>5. /\ w' \in Writers /\ w'.pc = "unlink" /\ w'.rows = rows /\ w'.missed = missed
      /\ w'.lost = gone
      /\ w'.since = w.since /\ w'.max = w.max /\ w'.remove = w.remove
  BY <1>1, <1>3, <1>4 DEF Writers, Stages
<1> QED BY <1>5 DEF rows, missed, gone, NewMark

(* A book whose record is lost has none left in the temp file, or went stale: of two
   records, only one of which is read. *)
LEMMA MergingAbsent ==
    ASSUME SyncInv, Usable(idx), NEW old \in SUBSET idx.rows,
           \A row \in w.rows : row.id \in w.missed \cup w.remove
    PROVE  Absent(Merge(old, w.remove, w.rows),
                  (lost \cup IdsOf(idx.rows \ old)) \ w.remove,
                  w.missed \cup (behind \ w.remove))
<1>1. Single(idx.rows, behind) /\ Absent(idx.rows, lost, behind)
  BY DEF SyncInv, IndexOk, Kept
<1>2. ASSUME NEW row \in old, row.id \in lost \cup IdsOf(idx.rows \ old)
      PROVE  row.id \in behind
  <2>1. CASE row.id \in lost
    BY <1>1, <2>1 DEF Absent
  <2>2. CASE row.id \in IdsOf(idx.rows \ old)
    <3>1. PICK cut \in idx.rows \ old : cut.id = row.id
      BY <2>2 DEF IdsOf
    <3> QED BY <1>1, <3>1 DEF Single
  <2> QED BY <1>2, <2>1, <2>2
<1> QED BY <1>2 DEF Absent, Merge

(* A merged delta: of the books it told of the records are new, of the others the old
   ones still say what the server says. *)
LEMMA MergedTells ==
    ASSUME SyncInv, Gathering, w.pc = "merge", Usable(idx), NEW old \in SUBSET idx.rows,
           NEW id \in Ids, id \notin w.missed, id \notin behind \ w.remove,
           id \notin (lost \cup IdsOf(idx.rows \ old)) \ w.remove
    PROVE  Mirrors(Merge(old, w.remove, w.rows), id)
<1> USE DEF SyncInv
<1> DEFINE rows == Merge(old, w.remove, w.rows)
<1>1. Gathered(id, Told(id))
  BY DEF Gathering
<1>2. CASE Told(id)
  <2>1. id \in w.remove /\ Mirrors(w.rows, id)
    BY <1>1, <1>2 DEF Gathered, Tells
  <2>2. Of(rows, id) = Of(w.rows, id)
    BY <2>1 DEF Of, Merge
  <2> HIDE DEF rows
  <2>3. Mirrors(w.rows, id) => Mirrors(rows, id)
    BY <2>2, MirrorsOf
  <2> QED BY <2>1, <2>3 DEF rows
<1>3. CASE ~Told(id)
  <2>1. id \notin w.remove /\ Of(w.rows, id) = {}
    <3>1. IF Told(id) THEN id \in w.remove /\ Mirrors(w.rows, id)
          ELSE id \notin w.remove /\ Of(w.rows, id) = {}
      BY <1>1 DEF Gathered, Tells
    <3> QED BY <1>3, <3>1
  <2>2. Of(rows, id) = Of(idx.rows, id)
    <3>1. Of(old, id) = Of(idx.rows, id)
      BY <2>1 DEF Of, IdsOf
    <3>2. Of(rows, id) = Of(old, id)
      BY <2>1 DEF Of, Merge
    <3> QED BY <3>1, <3>2
  <2>3. idx.there /\ w.delta /\ w.since = idx.mark
    BY DEF Usable, Gathering
  <2>4. idx.rows \in SUBSET Records /\ idx.mark \in Nat
    BY <2>3, IndexFields
  <2>5. CASE server[id].at = 0
    <3>1. ~server[id].alive
      BY <2>5 DEF LibraryOk
    <3>2. Of(idx.rows, id) = {}
      <4>1. \A row \in idx.rows : server[row.id].at > 0
        BY <2>3 DEF IndexOk, Stamped
      <4> QED BY <2>5, <4>1 DEF Of
    <3> QED BY <2>2, <3>1, <3>2 DEF Mirrors
  <2>6. CASE server[id].at # 0
    <3>1. server[id].at \in Nat
      BY DEF LibraryOk
    <3>2. server[id].at < idx.mark
      BY <1>3, <2>3, <2>4, <2>6, <3>1 DEF Told, Scope
    <3>3. id \notin behind \cup lost
      BY <2>1
    <3>4. Mirrored(id)
      BY <2>4, <3>1, <3>2, <3>3 DEF RowsTell
    <3>5. Mirrors(idx.rows, id)
      BY <3>4 DEF Mirrored, Mirrors, Rows, Of
    <3> QED BY <2>2, <3>5, MirrorsOf
  <2> QED BY <2>5, <2>6
<1> QED BY <1>2, <1>3

(* The temp file of a merge, whatever the scan of the old index got. *)
LEMMA MergedIsWritten ==
    ASSUME SyncInv, w.pc = "merge", UNCHANGED <<server, clock>>, Usable(idx),
           NEW old \in SUBSET idx.rows, w' = Merging(old)
    PROVE  Written'
<1> USE DEF SyncInv
<1> DEFINE rows == Merge(old, w.remove, w.rows)
<1>1. w \in Writers /\ Gathering /\ idx.there
  BY DEF WriterOk, Usable
<1>2. /\ w' \in Writers /\ w'.pc = "unlink" /\ w'.rows = rows
      /\ w'.missed = w.missed \cup (behind \ w.remove)
      /\ w'.lost = (lost \cup IdsOf(idx.rows \ old)) \ w.remove
      /\ w'.since = w.since /\ w'.max = w.max /\ w'.remove = w.remove
      /\ NewMark' = NewMark
  BY MergingEffect
<1>3. NewMark \in Nat /\ NewMark <= clock /\ w.since <= NewMark /\ w.max <= NewMark
  BY <1>1 DEF NewMark, Gathering, Writers
<1>4. Stamped(w.rows, NewMark)'
  <2>1. ASSUME NEW row \in old PROVE row.at \in 1..NewMark /\ server[row.id].at > 0
    <3>1. idx.mark = w.since /\ idx.mark \in Nat
      BY <1>1, IndexFields DEF Gathering, WriterOk
    <3>2. row.at \in 1..idx.mark /\ server[row.id].at > 0
      BY <1>1 DEF IndexOk, Stamped
    <3> QED BY <1>3, <3>1, <3>2
  <2>2. ASSUME NEW row \in w.rows PROVE row.at \in 1..NewMark /\ server[row.id].at > 0
    <3>1. row.at \in 1..w.max /\ server[row.id].at > 0
      BY <1>1 DEF Gathering, Stamped
    <3> QED BY <1>1, <1>3, <3>1 DEF Writers
  <2>3. rows \subseteq old \cup w.rows
    BY DEF Merge
  <2> HIDE DEF rows
  <2> QED BY <1>2, <2>1, <2>2, <2>3 DEF Stamped
<1>5. ASSUME NEW id \in Ids \ (w'.missed \cup w'.lost) PROVE Mirrors(rows, id)
  BY <1>1, <1>2, MergedTells
<1>6. Kept(rows, w'.lost, w'.missed)
  <2>1. ASSUME NEW row \in w.rows PROVE row.id \in w.missed \cup w.remove
    <3>1. row.id \in Ids /\ row \in Of(w.rows, row.id)
      BY <1>1 DEF Writers, Records, Of
    <3> QED BY <1>1, <3>1 DEF Gathering, Gathered, Tells
  <2>2. Absent(rows, w'.lost, w'.missed)
    BY <1>2, <2>1, MergingAbsent
  <2>3. rows \in SUBSET Records
    BY <1>2 DEF Writers
  <2> HIDE DEF rows
  <2> QED BY <1>5, <2>2, <2>3, MirroredIsKept
<1>7. Kept(w.rows, w.lost, w.missed)'
  <2> HIDE DEF rows
  <2> QED BY <1>2, <1>6 DEF Kept, Apart, Single, Absent
<1>8. \A id \in Ids \ Stale' : Mirrors(w.rows, id)'
  <2> HIDE DEF rows
  <2> QED BY <1>2, <1>5 DEF Mirrors, Of, Stale
<1> QED BY <1>2, <1>3, <1>4, <1>7, <1>8 DEF Written

(* And with no header to merge with: of what no page told of nothing is known. *)
LEMMA MergedNoneIsWritten ==
    ASSUME SyncInv, w.pc = "merge", UNCHANGED <<server, clock>>, w' = MergingNone
    PROVE  w' \in Writers /\ w'.pc = "unlink" /\ w'.rows = w.rows /\ Written'
<1> USE DEF SyncInv
<1>1. w \in Writers /\ Gathering
  BY DEF WriterOk
<1>2. /\ w' \in Writers /\ w'.pc = "unlink" /\ w'.rows = w.rows
      /\ w'.missed = w.missed \cup (Ids \ w.remove) /\ w'.lost = {}
      /\ w'.since = w.since /\ w'.max = w.max /\ w'.remove = w.remove
  <2> DEFINE missed == w.missed \cup (Ids \ w.remove)
  <2>1. missed \in SUBSET Ids
    BY <1>1 DEF Writers
  <2>2. w' = [w EXCEPT !.missed = missed, !.pc = "unlink"] /\ w.lost = {}
    BY <1>1 DEF MergingNone, Writers, Gathering
  <2> HIDE DEF missed
  <2>3. /\ w' \in Writers /\ w'.pc = "unlink" /\ w'.rows = w.rows
        /\ w'.missed = missed /\ w'.lost = {}
        /\ w'.since = w.since /\ w'.max = w.max /\ w'.remove = w.remove
    BY <1>1, <2>1, <2>2 DEF Writers, Stages
  <2> QED BY <2>3 DEF missed
<1>3. NewMark' = NewMark /\ NewMark \in Nat /\ NewMark <= clock /\ w.max <= NewMark
  BY <1>1, <1>2 DEF NewMark, Gathering, Writers
<1>4. Stamped(w.rows, NewMark)'
  <2>1. ASSUME NEW row \in w.rows PROVE row.at \in 1..NewMark /\ server[row.id].at > 0
    <3>1. row.at \in 1..w.max /\ server[row.id].at > 0
      BY <1>1 DEF Gathering, Stamped
    <3> QED BY <1>1, <1>3, <3>1 DEF Writers
  <2> QED BY <1>2, <1>3, <2>1 DEF Stamped
<1>5. ASSUME NEW id \in Ids \ w'.missed PROVE Mirrors(w.rows, id)
  <2>1. id \in w.remove /\ Gathered(id, Told(id))
    BY <1>1, <1>2 DEF Gathering
  <2> QED BY <2>1 DEF Gathered, Tells
<1>6. Kept(w.rows, {}, w'.missed)
  <2>1. Absent(w.rows, {}, w'.missed)
    BY DEF Absent
  <2> QED BY <1>1, <1>5, <2>1, MirroredIsKept DEF Writers
<1>7. Kept(w.rows, w.lost, w.missed)'
  BY <1>2, <1>6 DEF Kept, Apart, Single, Absent
<1>8. \A id \in Ids \ Stale' : Mirrors(w.rows, id)'
  BY <1>2, <1>5 DEF Mirrors, Of, Stale
<1> QED BY <1>2, <1>3, <1>4, <1>7, <1>8 DEF Written

(* What a scan of the old index gets is a part of it. *)
LEMMA FrontIsPart ==
    ASSUME NEW rows, NEW kept \in Fronts(rows)
    PROVE  kept \in SUBSET rows
BY DEF Fronts

LEMMA MergeKeeps == SyncInv /\ MergeDelta => SyncInv'
<1> SUFFICES ASSUME SyncInv, MergeDelta PROVE SyncInv'
  OBVIOUS
<1>1. UNCHANGED <<server, clock, idx, behind, lost>> /\ faults' \in Nat /\ w.pc = "merge"
  <2>1. /\ UNCHANGED <<server, clock, idx, behind, lost>> /\ w.pc = "merge"
        /\ Fault \/ faults' = faults
    BY DEF MergeDelta, serverVars, history
  <2> QED BY <2>1 DEF Fault, SyncInv, LibraryOk
<1>2. behind' \subseteq Ids /\ lost' \subseteq Ids
  BY <1>1 DEF SyncInv, WriterOk
<1>3. CASE w' = Fetching(FALSE, 0)
  <2>1. 0 <= clock
    BY DEF SyncInv, LibraryOk
  <2> QED BY <1>1, <1>3, <2>1, FetchingIsOk, WriterMoves
<1>4. CASE ~Usable(idx) /\ w' = MergingNone
  <2>1. w' \in Writers /\ w'.pc = "unlink" /\ Written'
    BY <1>1, <1>4, MergedNoneIsWritten
  <2>2. WriterOk'
    BY <1>2, <2>1 DEF WriterOk
  <2> QED BY <1>1, <2>2, WriterMoves
<1>5. ASSUME Usable(idx), NEW old \in SUBSET idx.rows, w' = Merging(old) PROVE SyncInv'
  <2>1. w' \in Writers /\ w'.pc = "unlink"
    BY <1>5, MergingEffect
  <2>2. Written'
    BY <1>1, <1>5, MergedIsWritten
  <2>3. WriterOk'
    BY <1>2, <2>1, <2>2 DEF WriterOk
  <2> QED BY <1>1, <2>3, WriterMoves
<1> QED BY <1>3, <1>4, <1>5, FrontIsPart DEF MergeDelta

LEMMA UnlinkKeeps == SyncInv /\ Unlink => SyncInv'
<1> SUFFICES ASSUME SyncInv, Unlink PROVE SyncInv'
  OBVIOUS
<1> USE DEF SyncInv
<1>1. UNCHANGED <<server, clock, faults, behind, lost>> /\ w.pc = "unlink" /\ idx' = NoFile
      /\ w' = [w EXCEPT !.pc = "rename"]
  BY DEF Unlink, serverVars
<1>2. w \in Writers /\ Written /\ behind \subseteq Ids /\ lost \subseteq Ids
  BY <1>1 DEF WriterOk
<1>3. /\ w' \in Writers /\ w'.pc = "rename" /\ w'.rows = w.rows /\ w'.missed = w.missed
      /\ w'.lost = w.lost
      /\ w'.since = w.since /\ w'.max = w.max /\ w'.remove = w.remove
  BY <1>1, <1>2 DEF Writers, Stages
<1>4. LibraryOk'
  BY <1>1 DEF LibraryOk
<1>5. IndexOk' /\ RowsTell'
  BY <1>1 DEF IndexOk, RowsTell, Usable, NoFile
<1>6. NewMark' = NewMark /\ Stale' = Stale
  BY <1>1, <1>3 DEF NewMark, Stale
<1>7. Written'
  BY <1>1, <1>2, <1>3, <1>6 DEF Written, Stamped, Kept, Apart, Single, Absent, Mirrors, Of
<1> QED BY <1>1, <1>2, <1>3, <1>4, <1>5, <1>7 DEF WriterOk

LEMMA RenameKeeps == SyncInv /\ Rename => SyncInv'
<1> SUFFICES ASSUME SyncInv, Rename PROVE SyncInv'
  OBVIOUS
<1> USE DEF SyncInv
<1>1. UNCHANGED <<server, clock, faults>> /\ w.pc = "rename" /\ behind' = w.missed
      /\ lost' = w.lost /\ idx' = Index(NewMark, w.rows) /\ w' = IdleWriter
  BY DEF Rename, serverVars
<1>2. w \in Writers /\ Written
  BY <1>1 DEF WriterOk
<1>3. /\ w.missed \subseteq Ids /\ w.lost \subseteq Ids /\ NewMark \in Nat
      /\ w.rows \in SUBSET Records
  BY <1>2 DEF NewMark, Writers
<1>4. /\ idx' \in Indexes /\ idx'.there /\ idx'.header /\ idx'.mark = NewMark
      /\ idx'.rows = w.rows
  BY <1>1, <1>3 DEF Index, Indexes
<1>5. LibraryOk'
  BY <1>1 DEF LibraryOk
<1>6. IndexOk'
  <2>1. idx'.mark <= clock' /\ Stamped(idx.rows, idx.mark)'
    BY <1>1, <1>2, <1>4 DEF Written, Stamped
  <2>2. Kept(idx.rows, lost, behind)'
    BY <1>1, <1>2, <1>4 DEF Written, Kept, Apart, Single, Absent
  <2> QED BY <1>4, <2>1, <2>2 DEF IndexOk
<1>7. RowsTell'
  <2> SUFFICES ASSUME NEW id \in Ids \ (behind' \cup lost')
               PROVE  Mirrored(id)' \/ server'[id].at >= idx'.mark
    BY DEF RowsTell
  <2>1. Mirrors(w.rows, id) \/ server[id].at >= NewMark
    BY <1>1, <1>2 DEF Written, Stale
  <2>2. Mirrors(w.rows, id) => Mirrored(id)'
    BY <1>1, <1>4 DEF Mirrors, Mirrored, Of, Rows
  <2> QED BY <1>1, <1>4, <2>1, <2>2
<1>8. WriterOk'
  BY <1>1, <1>3, IdleIsOk
<1> QED BY <1>5, <1>6, <1>7, <1>8

LEMMA ServerDeleteKeeps ==
    ASSUME SyncInv, NEW path \in Paths, ServerDelete(path)
    PROVE  SyncInv'
<1> USE DEF SyncInv
<1>1. PICK row \in idx.rows :
          /\ Edit(row.id, server[row.id].path, FALSE)
          /\ w' = [IdleWriter EXCEPT !.pc = "copy", !.since = idx.mark, !.remove = {row.id},
                                     !.victim = path]
  BY DEF ServerDelete
<1>2. UNCHANGED <<idx, faults, behind, lost>> /\ idx.there
  BY DEF ServerDelete, history, Usable
<1>3. /\ idx.mark \in Nat /\ row.id \in Ids /\ row.at \in 1..idx.mark /\ idx.mark <= clock
      /\ clock \in Nat
  BY <1>1, <1>2, IndexFields DEF IndexOk, Stamped, Records, LibraryOk
<1>4. LibraryOk /\ server[row.id].path \in Nat
  BY <1>3 DEF LibraryOk
<1>5. LibraryOk' /\ IndexOk' /\ RowsTell'
  BY <1>1, <1>2, <1>3, <1>4, EditKeeps
<1>6. clock' \in Nat /\ clock <= clock' /\ server'[row.id].alive = FALSE
  <2>1. ASSUME NEW id \in Ids, NEW at \in Nat, Edit(id, at, FALSE)
        PROVE  clock' \in Nat /\ clock <= clock' /\ server'[id].alive = FALSE
    BY <1>4, <2>1, EditEffect
  <2> QED BY <1>1, <1>3, <1>4, <2>1
<1>7. /\ w' \in Writers /\ w'.pc = "copy" /\ w'.since = idx.mark /\ w'.remove = {row.id}
      /\ w'.max = 0 /\ w'.rows = {} /\ w'.missed = {} /\ w'.lost = {}
  <2>1. path \in Nat
    BY BoundsAssumption DEF Paths
  <2> QED BY <1>1, <1>3, <2>1 DEF IdleWriter, Writers, Stages
<1>8. Copying'
  <2>1. w'.since \in 1..clock'
    BY <1>3, <1>6, <1>7
  <2> QED BY <1>2, <1>6, <1>7, <2>1 DEF Copying
<1>9. WriterOk'
  BY <1>2, <1>7, <1>8 DEF WriterOk
<1> QED BY <1>5, <1>9

(* The temp file of "Delete everywhere": the old records there were read, but the book's. *)
LEMMA CopiedIsWritten ==
    ASSUME SyncInv, w.pc = "copy", UNCHANGED <<server, clock>>, Usable(idx),
           NEW old \in SUBSET idx.rows, w' = Merging(old)
    PROVE  Written'
<1> USE DEF SyncInv
<1> DEFINE rows == Merge(old, w.remove, {})
<1>1. w \in Writers /\ Copying /\ idx.there
  BY DEF WriterOk, Usable
<1>2. /\ idx.rows \in SUBSET Records /\ idx.mark \in Nat
      /\ idx.mark <= clock /\ w.since = idx.mark /\ idx.mark > 0
  BY <1>1, IndexFields DEF IndexOk, Copying
<1>3. /\ w' \in Writers /\ w'.rows = rows
      /\ w'.missed = behind \ w.remove
      /\ w'.lost = (lost \cup IdsOf(idx.rows \ old)) \ w.remove
      /\ NewMark' = idx.mark
  <2>1. /\ w' \in Writers /\ w'.rows = Merge(old, w.remove, w.rows)
        /\ w'.missed = w.missed \cup (behind \ w.remove)
        /\ w'.lost = (lost \cup IdsOf(idx.rows \ old)) \ w.remove
        /\ NewMark' = NewMark
    BY MergingEffect
  <2>2. w.rows = {} /\ w.missed = {} /\ NewMark = idx.mark
    BY <1>1, <1>2 DEF Copying, NewMark
  <2> QED BY <2>1, <2>2
<1>4. rows \subseteq old /\ \A row \in rows : row.id \notin w.remove
  BY DEF Merge
<1>5. Stamped(w.rows, NewMark)'
  <2>1. Stamped(idx.rows, idx.mark)
    BY <1>1 DEF IndexOk
  <2> HIDE DEF rows
  <2> QED BY <1>3, <1>4, <2>1 DEF Stamped
<1>6. Kept(w.rows, w.lost, w.missed)'
  <2>1. Apart(idx.rows, behind) /\ Single(idx.rows, behind)
    BY DEF IndexOk, Kept
  <2>2. Absent(rows, w'.lost, w'.missed)
    BY <1>1, <1>3, MergingAbsent DEF Copying
  <2> HIDE DEF rows
  <2>3. Apart(rows, w'.missed)
    <3> SUFFICES ASSUME NEW r \in rows, NEW t \in rows, r.path = t.path, r.id # t.id
                 PROVE  {r.id, t.id} \cap w'.missed # {}
      BY DEF Apart
    <3>1. {r.id, t.id} \cap behind # {}
      BY <1>4, <2>1 DEF Apart
    <3> QED BY <1>3, <1>4, <3>1
  <2>4. Single(rows, w'.missed)
    BY <1>3, <1>4, <2>1 DEF Single
  <2> QED BY <1>3, <2>2, <2>3, <2>4 DEF Kept, Apart, Single, Absent
<1>7. ASSUME NEW id \in Ids \ Stale' PROVE Mirrors(rows, id) \/ server[id].at >= idx.mark
  <2>1. CASE id \in w.remove
    <3>1. Of(rows, id) = {}
      BY <1>4, <2>1 DEF Of
    <3>2. ~server[id].alive
      BY <1>1, <2>1 DEF Copying
    <3> QED BY <3>1, <3>2 DEF Mirrors
  <2>2. CASE id \notin w.remove
    <3>1. id \notin behind \cup lost /\ id \notin IdsOf(idx.rows \ old)
      BY <1>3, <1>7, <2>2 DEF Stale
    <3>2. Mirrored(id) \/ server[id].at >= idx.mark
      BY <3>1 DEF RowsTell
    <3>3. Mirrored(id) => Mirrors(idx.rows, id)
      BY DEF Mirrored, Mirrors, Rows, Of
    <3>4. Of(rows, id) = Of(idx.rows, id)
      BY <2>2, <3>1 DEF Of, Merge, IdsOf
    <3> HIDE DEF rows
    <3> QED BY <3>2, <3>3, <3>4, MirrorsOf
  <2> QED BY <2>1, <2>2
<1>8. \A id \in Ids \ Stale' : Mirrors(w.rows, id)' \/ server'[id].at >= NewMark'
  BY <1>3, <1>7 DEF Mirrors, Of
<1> QED BY <1>2, <1>3, <1>5, <1>6, <1>8 DEF Written

LEMMA CopyKeeps == SyncInv /\ CopyIndex => SyncInv'
<1> SUFFICES ASSUME SyncInv, CopyIndex PROVE SyncInv'
  OBVIOUS
<1>1. UNCHANGED <<server, clock, idx, behind, lost>> /\ faults' \in Nat /\ w.pc = "copy"
  BY DEF CopyIndex, Fault, serverVars, SyncInv, LibraryOk
<1>2. behind' \subseteq Ids /\ lost' \subseteq Ids
  BY <1>1 DEF SyncInv, WriterOk
<1>3. CASE w' = IdleWriter
  BY <1>1, <1>3, StopKeeps
<1>4. ASSUME Usable(idx), NEW old \in SUBSET idx.rows, w' = Merging(old) PROVE SyncInv'
  <2>1. w' \in Writers /\ w'.pc = "unlink"
    BY <1>4, MergingEffect
  <2>2. Written'
    BY <1>1, <1>4, CopiedIsWritten
  <2>3. WriterOk'
    BY <1>2, <2>1, <2>2 DEF WriterOk
  <2> QED BY <1>1, <2>3, WriterMoves
<1> QED BY <1>3, <1>4, FrontIsPart DEF CopyIndex

-----------------------------------------------------------------------------
(* The steps of the others. *)

(* A step of the download worker or of the reader that leaves the index alone. *)
LEMMA OtherKeeps ==
    ASSUME SyncInv, UNCHANGED <<server, clock, idx, w, behind, lost>>, faults' \in Nat
    PROVE  SyncInv'
<1>1. WriterOk'
  BY DEF SyncInv, WriterOk, Gathering, Copying, Written, Gathered, Told, Tells, Mirrors, Of,
         Stamped, Kept, Apart, Single, Absent, Stale, NewMark, Usable, Scope, At, Place, Before
<1> QED BY <1>1, WriterMoves

(* The writer does not see what becomes of the records until it reads them. *)
LEMMA DamageKeeps ==
    ASSUME SyncInv, UNCHANGED <<server, w, behind>>, clock' = clock, lost' \subseteq Ids,
           idx.there, idx'.there, idx'.mark = idx.mark, Usable(idx)' => Usable(idx)
    PROVE  WriterOk'
<1> USE DEF SyncInv
<1>1. w.pc # "rename"
  BY DEF WriterOk, NoFile
<1>2. Gathering => Gathering'
  BY DEF Gathering, Gathered, Told, Tells, Mirrors, Of, Stamped, Scope, At, Place, Before
<1>3. Copying => Copying'
  BY DEF Copying
<1>4. Written => Written'
  BY DEF Written, Stamped, Kept, Apart, Single, Absent, Mirrors, Of, Stale, NewMark
<1> QED BY <1>1, <1>2, <1>3, <1>4 DEF WriterOk

(* A flag that is flipped, and a byte that goes bad: the records say what they said. *)
LEMMA FlipKeeps == SyncInv /\ DownloadOk /\ FlipFlag => SyncInv'
<1> SUFFICES ASSUME SyncInv, DownloadOk, FlipFlag PROVE SyncInv'
  OBVIOUS
<1> USE DEF SyncInv
<1>1. UNCHANGED <<server, clock, faults, w, behind, lost>> /\ faults' \in Nat
  BY DEF FlipFlag, serverVars, history, LibraryOk
<1>2. CASE ~(dl.attached /\ Rows(dl.id) # {})
  BY <1>1, <1>2, OtherKeeps DEF FlipFlag
<1>3. CASE dl.attached /\ Rows(dl.id) # {}
  <2> DEFINE row == RowOf(dl.id)
             rows == Flagged(row)
  <2>1. idx.there /\ idx \in Indexes /\ idx.rows \in SUBSET Records /\ idx.mark \in Nat
    BY <1>3, IndexFields DEF DownloadOk
  <2>2. row \in idx.rows
    <3>1. Rows(dl.id) \in SUBSET Records /\ Rows(dl.id) # {}
      BY <1>3, <2>1 DEF Rows
    <3> QED BY <3>1, FirstIs DEF RowOf, Rows
  <2>3. idx' = [idx EXCEPT !.rows = rows]
    BY <1>3 DEF FlipFlag
  <2>4. rows \in SUBSET Records
    <3>1. [row EXCEPT !.flag = TRUE] \in Records
      BY <2>1, <2>2 DEF Records
    <3> QED BY <2>1, <3>1 DEF Flagged
  <2>5. /\ idx' \in Indexes /\ idx'.rows = rows /\ idx'.there /\ idx'.mark = idx.mark
        /\ idx'.header = idx.header /\ idx'.broken = idx.broken
    <3> HIDE DEF rows
    <3> QED BY <2>1, <2>3, <2>4 DEF Indexes
  <2>6. \A r \in rows : \E s \in idx.rows : r.id = s.id /\ r.path = s.path /\ r.at = s.at
    <3>1. LET flagged == [row EXCEPT !.flag = TRUE]
          IN flagged.id = row.id /\ flagged.path = row.path /\ flagged.at = row.at
      BY <2>1, <2>2 DEF Records
    <3> QED BY <2>2, <3>1 DEF Flagged
  <2>7. Usable(idx)' <=> Usable(idx)
    BY <2>1, <2>5 DEF Usable
  <2>8. LibraryOk'
    BY <1>1 DEF LibraryOk
  <2>9. IndexOk'
    <3>1. idx'.mark <= clock' /\ Stamped(idx.rows, idx.mark)'
      <4>1. idx.mark <= clock /\ Stamped(idx.rows, idx.mark)
        BY <2>1 DEF IndexOk
      <4> HIDE DEF rows
      <4> QED BY <1>1, <2>5, <2>6, <4>1 DEF Stamped
    <3>2. Usable(idx) => Kept(idx.rows, lost, behind)'
      <4> SUFFICES ASSUME Usable(idx) PROVE Kept(idx.rows, lost, behind)'
        OBVIOUS
      <4>1. Apart(idx.rows, behind) /\ Single(idx.rows, behind) /\ Absent(idx.rows, lost, behind)
        BY DEF IndexOk, Kept
      <4> DEFINE flagged == [row EXCEPT !.flag = TRUE]
      <4>2. rows = (idx.rows \ {row}) \cup {flagged} /\ flagged.id = row.id
        BY <2>1, <2>2 DEF Flagged, Records
      <4> HIDE DEF rows, flagged, row
      <4>3. Apart(rows, behind) /\ Absent(rows, lost, behind)
        BY <2>6, <4>1 DEF Apart, Absent
      <4>4. Single(rows, behind)
        BY <2>2, <4>1, <4>2 DEF Single
      <4> QED BY <1>1, <2>5, <4>3, <4>4 DEF Kept, Apart, Single, Absent
    <3> QED BY <2>5, <2>7, <3>1, <3>2 DEF IndexOk
  <2>10. RowsTell'
    <3> SUFFICES ASSUME Usable(idx), NEW id \in Ids \ (behind \cup lost)
                 PROVE  Mirrored(id)' \/ server[id].at >= idx.mark
      BY <1>1, <2>5, <2>7 DEF RowsTell
    <3>1. Mirrored(id) \/ server[id].at >= idx.mark
      BY DEF RowsTell
    <3>2. Mirrored(id) => Mirrored(id)'
      <4>1. Rows(id)' = {r \in rows : r.id = id}
        BY <2>5 DEF Rows
      <4>2. row.id # id => Rows(id)' = Rows(id)
        BY <2>1, <2>2, <4>1 DEF Rows, Flagged, Records
      <4>3. CASE row.id # id
        BY <1>1, <4>2, <4>3 DEF Mirrored
      <4>4. CASE row.id = id /\ Mirrored(id)
        <5>1. server[id].alive /\ Rows(id) = {row}
              /\ row.path = server[id].path /\ row.rev = server[id].rev
          BY <2>2, <4>4 DEF Mirrored, Rows
        <5> DEFINE flagged == [row EXCEPT !.flag = TRUE]
        <5>2. flagged.id = id /\ flagged.path = row.path /\ flagged.rev = row.rev
          BY <2>1, <2>2, <4>4 DEF Records
        <5>3. Rows(id)' = {flagged}
          <6> HIDE DEF flagged
          <6> QED BY <4>1, <5>1, <5>2 DEF Flagged, Rows, flagged
        <5> HIDE DEF flagged
        <5> QED BY <1>1, <5>1, <5>2, <5>3 DEF Mirrored
      <4> QED BY <4>3, <4>4
    <3> QED BY <3>1, <3>2
  <2>11. WriterOk'
    <3>1. lost' \subseteq Ids
      BY <1>1 DEF WriterOk
    <3> HIDE DEF rows, row
    <3> QED BY <1>1, <2>1, <2>5, <2>7, <3>1, DamageKeeps
  <2> QED BY <2>8, <2>9, <2>10, <2>11
<1> QED BY <1>2, <1>3

LEMMA CorruptKeeps == SyncInv /\ CardCorrupts => SyncInv'
<1> SUFFICES ASSUME SyncInv, CardCorrupts PROVE SyncInv'
  OBVIOUS
<1> USE DEF SyncInv
<1>1. UNCHANGED <<server, clock, w, behind, lost>> /\ faults' \in Nat /\ idx.there
  BY DEF CardCorrupts, Fault, serverVars, history, LibraryOk
<1>2. idx \in Indexes
  BY <1>1, IndexFields
<1>3. /\ idx' \in Indexes /\ idx'.rows = idx.rows /\ idx'.mark = idx.mark /\ idx'.there
      /\ Usable(idx)' => Usable(idx)
  BY <1>1, <1>2 DEF CardCorrupts, Indexes, Usable
<1>4. LibraryOk'
  BY <1>1 DEF LibraryOk
<1>5. IndexOk'
  BY <1>1, <1>3 DEF IndexOk, Stamped, Kept, Apart, Single, Absent
<1>6. RowsTell'
  BY <1>1, <1>3 DEF RowsTell, Mirrored, Rows
<1>7. WriterOk'
  <2>1. lost' \subseteq Ids
    BY <1>1 DEF WriterOk
  <2> QED BY <1>1, <1>3, <2>1, DamageKeeps
<1> QED BY <1>4, <1>5, <1>6, <1>7

(* The end of the file goes: the books it was about are among the lost, and of the others
   the records that are left say what they said. *)
LEMMA TruncateKeeps == SyncInv /\ CardTruncates => SyncInv'
<1> SUFFICES ASSUME SyncInv, CardTruncates PROVE SyncInv'
  OBVIOUS
<1> USE DEF SyncInv
<1>1. UNCHANGED <<server, clock, w, behind>> /\ faults' \in Nat /\ idx.there
  BY DEF CardTruncates, Fault, serverVars, LibraryOk
<1>2. PICK kept \in Fronts(idx.rows), broken \in {FALSE, idx.broken} :
          /\ idx' = [idx EXCEPT !.rows = kept, !.broken = broken]
          /\ lost' = lost \cup IdsOf(idx.rows \ kept)
  BY DEF CardTruncates
<1>3. idx \in Indexes /\ kept \subseteq idx.rows /\ idx.rows \in SUBSET Records
  BY <1>1, FrontIsPart, IndexFields
<1>4. /\ idx' \in Indexes /\ idx'.rows = kept /\ idx'.mark = idx.mark /\ idx'.there
      /\ Usable(idx)' => Usable(idx)
  BY <1>2, <1>3 DEF Indexes, Usable
<1>5. LibraryOk'
  BY <1>1 DEF LibraryOk
<1>6. lost' \subseteq Ids
  BY <1>2, <1>3 DEF WriterOk, IdsOf, Records
<1>7. IndexOk'
  <2>1. idx'.mark <= clock' /\ Stamped(idx.rows, idx.mark)'
    BY <1>1, <1>3, <1>4 DEF IndexOk, Stamped
  <2>2. ASSUME Usable(idx) PROVE Kept(idx.rows, lost, behind)'
    <3>1. Apart(idx.rows, behind) /\ Single(idx.rows, behind) /\ Absent(idx.rows, lost, behind)
      BY <2>2 DEF IndexOk, Kept
    <3>2. Absent(kept, lost', behind)
      <4> SUFFICES ASSUME NEW row \in kept, row.id \in lost' PROVE row.id \in behind
        BY DEF Absent
      <4>1. CASE row.id \in lost
        BY <1>3, <3>1, <4>1 DEF Absent
      <4>2. CASE row.id \in IdsOf(idx.rows \ kept)
        <5>1. PICK cut \in idx.rows \ kept : cut.id = row.id
          BY <4>2 DEF IdsOf
        <5> QED BY <1>3, <3>1, <5>1 DEF Single
      <4> QED BY <1>2, <4>1, <4>2
    <3>3. Apart(kept, behind) /\ Single(kept, behind)
      BY <1>3, <3>1 DEF Apart, Single
    <3> QED BY <1>1, <1>4, <3>2, <3>3 DEF Kept, Apart, Single, Absent
  <2> QED BY <1>4, <2>1, <2>2 DEF IndexOk
<1>8. RowsTell'
  <2> SUFFICES ASSUME Usable(idx), NEW id \in Ids \ (behind \cup lost')
               PROVE  Mirrored(id)' \/ server[id].at >= idx.mark
    BY <1>1, <1>4 DEF RowsTell
  <2>1. id \notin lost /\ id \notin IdsOf(idx.rows \ kept)
    BY <1>2
  <2>2. Rows(id)' = Rows(id)
    BY <1>3, <1>4, <2>1 DEF Rows, IdsOf
  <2>3. Mirrored(id) \/ server[id].at >= idx.mark
    BY <2>1 DEF RowsTell
  <2> QED BY <1>1, <2>2, <2>3 DEF Mirrored
<1>9. WriterOk'
  BY <1>1, <1>4, <1>6, DamageKeeps
<1> QED BY <1>5, <1>7, <1>8, <1>9

-----------------------------------------------------------------------------
(* The shelf's steps, as the index sees them: a step of its own, a restart, a scan that
   fails, or none. *)
IndexStep ==
    \/ SyncStart \/ FetchPage \/ MergeDelta \/ Unlink \/ Rename \/ CopyIndex
    \/ (\E id \in Wanted : StartDownload(id)) \/ Land \/ OpenToMark \/ FlipFlag
    \/ (\E id \in Ids : OwnerWrites(id) \/ OwnerDeletes(id))
    \/ (\E path \in Paths : ServerDelete(path) \/ LocalDelete(path))
    \/ Abort \/ CardCorrupts \/ CardTruncates \/ Reboot
    \/ Fault /\ UNCHANGED <<serverVars, idx, w, dl, files, history>>
    \/ UNCHANGED vars

LEMMA ShelfStep == [ShelfNext]_allVars => IndexStep
<1> SUFFICES ASSUME [ShelfNext]_allVars PROVE IndexStep
  OBVIOUS
<1>1. CASE Discover
  BY <1>1 DEF Discover, IndexStep, vars
<1>2. CASE RestartInDiscovery
  BY <1>2 DEF RestartInDiscovery, Reboot, IndexStep
<1>3. CASE Below \/ SyncEnds \/ Marks \/ Restart \/ (\E path \in Paths : OpenBook(path))
           \/ UNCHANGED allVars
  BY <1>3 DEF allVars, Below, SyncEnds, Marks, Restart, OpenBook, Owner, Reader, IndexStep
<1> QED BY <1>1, <1>2, <1>3 DEF ShelfNext

LEMMA SyncStep == SyncInv /\ DownloadOk /\ IndexStep => SyncInv'
<1> SUFFICES ASSUME SyncInv, DownloadOk, IndexStep PROVE SyncInv'
  OBVIOUS
<1>1. faults \in Nat
  BY DEF SyncInv, LibraryOk
<1>2. CASE SyncStart \/ FetchPage \/ MergeDelta \/ Unlink \/ Rename \/ CopyIndex \/ FlipFlag
           \/ CardCorrupts \/ CardTruncates
  BY <1>2, StartKeeps, PageKeeps, MergeKeeps, UnlinkKeeps, RenameKeeps, CopyKeeps, FlipKeeps,
     CorruptKeeps, TruncateKeeps
<1>3. ASSUME NEW id \in Wanted, StartDownload(id) PROVE SyncInv'
  <2>1. UNCHANGED <<server, clock, idx, w, behind, lost, faults>>
    BY <1>3 DEF StartDownload, serverVars, history
  <2> QED BY <1>1, <2>1, OtherKeeps
<1>4. CASE Land \/ OpenToMark
  <2>1. UNCHANGED <<server, clock, idx, w, behind, lost>> /\ faults' \in Nat
    BY <1>1, <1>4 DEF Land, OpenToMark, Fault, serverVars, history
  <2> QED BY <1>1, <2>1, OtherKeeps
<1>5. ASSUME NEW id \in Ids, OwnerWrites(id) PROVE SyncInv'
  <2>1. PICK path \in Paths :
            /\ \A j \in Ids \ {id} : server[j].alive => server[j].path # path
            /\ Put(id, path, TRUE)
    BY <1>5 DEF OwnerWrites
  <2>2. path \in Nat
    BY BoundsAssumption DEF Paths
  <2> QED BY <2>1, <2>2, PutKeeps
<1>6. ASSUME NEW id \in Ids, OwnerDeletes(id) PROVE SyncInv'
  <2>1. Put(id, server[id].path, FALSE) /\ server[id].path \in Nat
    BY <1>6 DEF OwnerDeletes, SyncInv, LibraryOk
  <2> QED BY <2>1, PutKeeps
<1>7. ASSUME NEW path \in Paths, ServerDelete(path) PROVE SyncInv'
  BY <1>7, ServerDeleteKeeps
<1>8. ASSUME NEW path \in Paths, LocalDelete(path) PROVE SyncInv'
  <2>1. UNCHANGED <<server, clock, idx, w, behind, lost, faults>>
    BY <1>8 DEF LocalDelete, serverVars
  <2> QED BY <1>1, <2>1, OtherKeeps
<1>9. CASE Abort
  <2>1. UNCHANGED <<server, clock, idx, behind, lost>> /\ faults' \in Nat /\ w' = IdleWriter
    BY <1>1, <1>9 DEF Abort, Fault, serverVars
  <2> QED BY <2>1, StopKeeps
<1>10. CASE Reboot
  <2>1. UNCHANGED <<server, clock, idx, behind, lost>> /\ faults' \in Nat /\ w' = IdleWriter
    BY <1>1, <1>10 DEF Reboot, Fault, serverVars, history
  <2> QED BY <2>1, StopKeeps
<1>11. CASE Fault /\ UNCHANGED <<serverVars, idx, w, dl, files, history>>
  <2>1. UNCHANGED <<server, clock, idx, w, behind, lost>> /\ faults' \in Nat
    BY <1>1, <1>11 DEF Fault, serverVars, history
  <2> QED BY <2>1, OtherKeeps
<1>12. CASE UNCHANGED vars
  <2>1. UNCHANGED <<server, clock, idx, w, behind, lost, faults>>
    BY <1>12 DEF vars, serverVars, history
  <2> QED BY <1>1, <2>1, OtherKeeps
<1> QED BY <1>2, <1>3, <1>4, <1>5, <1>6, <1>7, <1>8, <1>9, <1>10, <1>11, <1>12 DEF IndexStep

-----------------------------------------------------------------------------
(* The flags and the files. *)

FlagInv == DownloadOk /\ FlagsOk

(* A step of the writer that touches neither the index nor the card: what it gathers
   is unflagged, what it copies is in the index. *)
LEMMA WriterFrame ==
    ASSUME FlagInv, IndexOk, UNCHANGED <<idx, dl, files, excused, behind>>, w'.pc # "rename",
           w'.pc \in {"page", "merge"} => \A row \in w'.rows : ~row.flag,
           \A row \in w'.rows : row.flag => Usable(idx) /\ row \in idx.rows
    PROVE  FlagInv'
<1>1. DownloadOk'
  <2>1. dl.pc = "fetch" => \A row \in w'.rows : Spared(row)'
    BY DEF FlagInv, DownloadOk, Spared
  <2> QED BY <2>1 DEF FlagInv, DownloadOk, Spared, Usable, Rows, RowOf
<1>2. FlagsOk'
  <2>1. \A row \in w'.rows : Stands(row)'
    BY DEF FlagInv, FlagsOk, Stands
  <2>2. Usable(idx) => \A row \in w'.rows, other \in idx.rows :
            row.flag /\ row.path = other.path /\ row.id # other.id =>
                {row.id, other.id} \cap behind # {}
    BY DEF IndexOk, Kept, Apart
  <2> QED BY <2>1, <2>2 DEF FlagInv, FlagsOk, Stands, Usable
<1> QED BY <1>1, <1>2 DEF FlagInv

(* A step that leaves the index, the card, the download and the temp file alone. *)
LEMMA OwnerFrame ==
    ASSUME FlagInv, UNCHANGED <<idx, dl, files, excused, behind>>, w'.rows = w.rows,
           w'.pc = w.pc
    PROVE  FlagInv'
BY DEF FlagInv, DownloadOk, FlagsOk, Spared, Stands, Usable, Rows, RowOf

LEMMA FetchFlags ==
    ASSUME FlagInv, IndexOk, w \in Writers, FetchPage
    PROVE  FlagInv'
<1>1. UNCHANGED <<idx, dl, files, excused, behind>> /\ w.pc = "page"
  BY DEF FetchPage, history
<1>2. \A row \in w.rows : ~row.flag
  BY <1>1 DEF FlagInv, FlagsOk
<1>3. CASE Rest = {} /\ w' = [w EXCEPT !.pc = Listed]
  <2>1. w'.rows = w.rows /\ w'.pc = Listed
    BY <1>3 DEF Writers
  <2> QED BY <1>1, <1>2, <2>1, WriterFrame DEF Listed
<1>4. ASSUME NEW last \in Rest,
             w' = [Take(PageTo(last)) EXCEPT
                     !.cursor = At(last),
                     !.pc = IF PageTo(last) = Rest THEN Listed ELSE "page"]
      PROVE  FlagInv'
  <2> DEFINE new == {Row(i) : i \in {i \in PageTo(last) : server[i].alive}}
             top == Max({w.max} \cup {server[i].at : i \in PageTo(last)})
             pc == IF PageTo(last) = Rest THEN Listed ELSE "page"
  <2>1. \A row \in new : ~row.flag
    BY DEF Row
  <2>2. w' = [w EXCEPT !.max = top, !.remove = w.remove \cup PageTo(last),
                       !.rows = w.rows \cup new, !.cursor = At(last), !.pc = pc]
    BY <1>4 DEF Take, Writers
  <2>3. w'.rows = w.rows \cup new /\ w'.pc = pc
    <3> HIDE DEF new, top, pc
    <3> QED BY <2>2 DEF Writers
  <2>4. w'.pc # "rename"
    BY <2>3 DEF Listed
  <2>5. \A row \in w'.rows : ~row.flag
    <3> HIDE DEF new
    <3> QED BY <1>2, <2>1, <2>3
  <2> HIDE DEF new, top, pc
  <2> QED BY <1>1, <2>4, <2>5, WriterFrame
<1> QED BY <1>3, <1>4 DEF FetchPage

(* What a scan of the old index keeps of it, and what a merge adds to that. *)
LEMMA MergingFlags ==
    ASSUME FlagInv, IndexOk, w \in Writers, UNCHANGED <<idx, dl, files, excused, behind>>,
           Usable(idx), NEW old \in SUBSET idx.rows, w' = Merging(old),
           \A row \in w.rows : ~row.flag
    PROVE  FlagInv'
<1> DEFINE rows == Merge(old, w.remove, w.rows)
           missed == w.missed \cup (behind \ w.remove)
           gone == (lost \cup IdsOf(idx.rows \ old)) \ w.remove
<1>1. w' = [w EXCEPT !.rows = rows, !.missed = missed, !.lost = gone, !.pc = "unlink"]
  BY DEF Merging, Writers
<1>2. w'.rows = rows /\ w'.pc = "unlink"
  <2> HIDE DEF rows, missed, gone
  <2> QED BY <1>1 DEF Writers
<1>3. \A row \in rows : row.flag => Usable(idx) /\ row \in idx.rows
  BY DEF Merge
<1> HIDE DEF rows, missed, gone
<1> QED BY <1>2, <1>3, WriterFrame

LEMMA MergeFlags ==
    ASSUME FlagInv, IndexOk, w \in Writers, MergeDelta
    PROVE  FlagInv'
<1>1. UNCHANGED <<idx, dl, files, excused, behind>> /\ w.pc = "merge"
  BY DEF MergeDelta, history
<1>2. \A row \in w.rows : ~row.flag
  BY <1>1 DEF FlagInv, FlagsOk
<1>3. CASE w' = Fetching(FALSE, 0)
  <2>1. w'.rows = {} /\ w'.pc = "page"
    BY <1>3 DEF Fetching, IdleWriter
  <2> QED BY <1>1, <2>1, WriterFrame
<1>4. CASE w' = MergingNone
  <2>1. w'.rows = w.rows /\ w'.pc = "unlink"
    BY <1>4 DEF MergingNone, Writers
  <2> QED BY <1>1, <1>2, <2>1, WriterFrame
<1>5. ASSUME Usable(idx), NEW old \in SUBSET idx.rows, w' = Merging(old) PROVE FlagInv'
  BY <1>1, <1>2, <1>5, MergingFlags
<1> QED BY <1>3, <1>4, <1>5, FrontIsPart DEF MergeDelta

(* A file that goes takes its book among the excused. *)
LEMMA DeleteEffect ==
    ASSUME FlagInv, NEW path, DeleteFile(path) \/ (UNCHANGED <<files, excused>>), dl' = dl
    PROVE  /\ files' \in [Paths -> Ids \cup {0}] /\ excused \subseteq excused'
           /\ \A row \in Records : Stands(row) => Stands(row)'
           /\ \A row \in Records : Spared(row) => Spared(row)'
           /\ dl.pc \in {"mark", "flip"} /\ dl.id \notin excused' => files'[dl.path] = dl.id
<1>1. CASE UNCHANGED <<files, excused>>
  BY <1>1 DEF FlagInv, DownloadOk, Stands, Spared
<1>2. CASE DeleteFile(path)
  <2>1. files' = [files EXCEPT ![path] = 0] /\ excused' = excused \cup {files[path]}
    BY <1>2 DEF DeleteFile
  <2>2. files \in [Paths -> Ids \cup {0}]
    BY DEF FlagInv, DownloadOk
  <2>3. \A row \in Records : Stands(row) => Stands(row)'
    BY <2>1, <2>2 DEF Stands, Records
  <2>4. \A row \in Records : Spared(row) => Spared(row)'
    BY <2>1 DEF Spared
  <2>5. dl.pc \in {"mark", "flip"} /\ dl.id \notin excused' => files'[dl.path] = dl.id
    BY <2>1, <2>2 DEF FlagInv, DownloadOk
  <2>6. files' \in [Paths -> Ids \cup {0}]
    BY <2>1, <2>2
  <2> QED BY <2>1, <2>3, <2>4, <2>5, <2>6
<1> QED BY <1>1, <1>2

(* The writer stops, or a book is deleted from the card alone. *)
LEMMA DeleteFlags ==
    ASSUME FlagInv, IndexOk, w \in Writers, NEW path,
           DeleteFile(path) \/ (UNCHANGED <<files, excused>>),
           UNCHANGED <<idx, dl, behind>>, w' = w \/ w' = IdleWriter
    PROVE  FlagInv'
<1>1. /\ files' \in [Paths -> Ids \cup {0}] /\ excused \subseteq excused'
      /\ \A row \in Records : Stands(row) => Stands(row)'
      /\ \A row \in Records : Spared(row) => Spared(row)'
      /\ dl.pc \in {"mark", "flip"} /\ dl.id \notin excused' => files'[dl.path] = dl.id
  BY DeleteEffect
<1>2. Usable(idx) => idx.rows \in SUBSET Records
  BY IndexFields DEF Usable
<1>3. w.rows \in SUBSET Records /\ w'.rows \subseteq w.rows /\ (w'.rows # {} => w' = w)
      /\ (w'.pc = w.pc \/ w'.pc = "idle")
  BY DEF Writers, IdleWriter
<1>4. DownloadOk'
  <2>1. Usable(idx) /\ dl.pc = "fetch" => \A row \in idx.rows : Spared(row)'
    BY <1>1, <1>2 DEF FlagInv, DownloadOk
  <2>2. dl.pc = "fetch" => \A row \in w'.rows : Spared(row)'
    BY <1>1, <1>3 DEF FlagInv, DownloadOk
  <2>3. dl.pc # "none" /\ w'.pc = "rename" => dl.id \in excused'
    BY <1>1, <1>3 DEF FlagInv, DownloadOk
  <2>4. dl.pc # "none" /\ Usable(idx) /\ dl.id \notin excused' =>
            Rows(dl.id) = {} \/ RowOf(dl.id).path = dl.path
    BY <1>1 DEF FlagInv, DownloadOk
  <2> QED BY <1>1, <2>1, <2>2, <2>3, <2>4 DEF FlagInv, DownloadOk, Usable, Rows, RowOf
<1>5. FlagsOk'
  <2>1. Usable(idx) => \A row \in idx.rows : Stands(row)'
    BY <1>1, <1>2 DEF FlagInv, FlagsOk
  <2>2. \A row \in w'.rows : Stands(row)'
    BY <1>1, <1>3 DEF FlagInv, FlagsOk
  <2>3. w'.pc = "unlink" => w' = w
    BY DEF IdleWriter
  <2> QED BY <1>3, <2>1, <2>2, <2>3 DEF FlagInv, FlagsOk, Usable
<1> QED BY <1>4, <1>5 DEF FlagInv

LEMMA CopyFlags ==
    ASSUME FlagInv, IndexOk, WriterOk, CopyIndex
    PROVE  FlagInv'
<1>1. UNCHANGED <<idx, dl, behind>> /\ w.pc = "copy"
  BY DEF CopyIndex
<1>2. w \in Writers /\ w.rows = {}
  BY <1>1 DEF WriterOk, Copying
<1>3. CASE w' = IdleWriter /\ DeleteVictim
  <2>1. DeleteFile(w.victim) \/ UNCHANGED <<files, excused>>
    BY <1>3 DEF DeleteVictim
  <2> QED BY <1>1, <1>2, <1>3, <2>1, DeleteFlags
<1>4. ASSUME Usable(idx), NEW old \in SUBSET idx.rows, w' = Merging(old),
             UNCHANGED <<files, excused>>
      PROVE  FlagInv'
  BY <1>1, <1>2, <1>4, MergingFlags
<1> QED BY <1>3, <1>4, FrontIsPart DEF CopyIndex

LEMMA UnlinkFlags ==
    ASSUME FlagInv, w \in Writers, Unlink
    PROVE  FlagInv'
<1>1. /\ idx' = NoFile /\ dl' = [dl EXCEPT !.attached = FALSE] /\ files' = files
      /\ excused' = (IF dl.pc = "none" THEN excused ELSE excused \cup {dl.id})
      /\ w' = [w EXCEPT !.pc = "rename"] /\ w.pc = "unlink"
  BY DEF Unlink
<1>2. dl \in Downloads
  BY DEF FlagInv, DownloadOk
<1>3. /\ dl' \in Downloads /\ dl'.pc = dl.pc /\ dl'.id = dl.id /\ dl'.path = dl.path
      /\ dl'.others = dl.others /\ dl'.attached = FALSE
  BY <1>1, <1>2 DEF Downloads
<1>4. w'.rows = w.rows /\ w'.pc = "rename"
  BY <1>1 DEF Writers
<1>5. ~Usable(idx)' /\ excused \subseteq excused' /\ (dl.pc # "none" => dl.id \in excused')
  BY <1>1 DEF Usable, NoFile
<1>6. DownloadOk'
  <2>1. dl.pc = "fetch" => \A row \in w'.rows : Spared(row)'
    BY <1>3, <1>4, <1>5 DEF FlagInv, DownloadOk, Spared
  <2> QED BY <1>1, <1>3, <1>5, <2>1 DEF FlagInv, DownloadOk
<1>7. FlagsOk'
  BY <1>1, <1>4, <1>5 DEF FlagInv, FlagsOk, Stands
<1> QED BY <1>6, <1>7 DEF FlagInv

LEMMA RenameFlags ==
    ASSUME FlagInv, w \in Writers, idx = NoFile, Rename
    PROVE  FlagInv'
<1>1. /\ w.pc = "rename" /\ idx' = Index(NewMark, w.rows) /\ w' = IdleWriter /\ dl' = dl
      /\ DeleteFile(w.victim) \/ UNCHANGED <<files, excused>>
  BY DEF Rename, DeleteVictim
<1>2. /\ files' \in [Paths -> Ids \cup {0}] /\ excused \subseteq excused'
      /\ \A row \in Records : Stands(row) => Stands(row)'
      /\ \A row \in Records : Spared(row) => Spared(row)'
      /\ dl.pc \in {"mark", "flip"} /\ dl.id \notin excused' => files'[dl.path] = dl.id
  BY <1>1, DeleteEffect
<1>3. idx'.rows = w.rows /\ w'.rows = {} /\ w'.pc = "idle" /\ w.rows \in SUBSET Records
  BY <1>1 DEF Index, IdleWriter, Writers
<1>4. ~dl.attached
  BY DEF FlagInv, DownloadOk, NoFile
<1>5. DownloadOk'
  <2>1. dl.pc = "fetch" => \A row \in idx'.rows : Spared(row)'
    BY <1>2, <1>3 DEF FlagInv, DownloadOk
  <2>2. dl.pc # "none" => dl.id \in excused'
    BY <1>1, <1>2 DEF FlagInv, DownloadOk
  <2> QED BY <1>1, <1>2, <1>3, <1>4, <2>1, <2>2 DEF FlagInv, DownloadOk
<1>6. FlagsOk'
  <2>1. \A row \in idx'.rows : Stands(row)'
    BY <1>2, <1>3 DEF FlagInv, FlagsOk
  <2> QED BY <1>3, <2>1 DEF FlagsOk
<1> QED BY <1>5, <1>6 DEF FlagInv

LEMMA StartDownloadFlags ==
    ASSUME FlagInv, IndexOk, WriterOk, NEW id \in Wanted, StartDownload(id)
    PROVE  FlagInv'
<1> DEFINE row == RowOf(id)
           others == Overwritten(id, row.path)
<1>1. /\ dl' = [NoDownload EXCEPT !.pc = "fetch", !.id = id, !.path = row.path,
                                  !.others = others]
      /\ UNCHANGED <<idx, w, files, excused, behind>>
  BY DEF StartDownload, history
<1>2. Usable(idx) /\ Rows(id) # {}
  BY DEF StartDownload, Known
<1>3. idx.there /\ idx.rows \in SUBSET Records /\ Apart(idx.rows, behind)
  BY <1>2, IndexFields DEF Usable, IndexOk, Kept
<1>4. row \in idx.rows /\ row.id = id
  <2>1. Rows(id) \in SUBSET Records
    BY <1>3 DEF Rows
  <2> QED BY <1>2, <2>1, FirstIs DEF RowOf, Rows
<1>5. id \in Ids /\ id \in Nat /\ row.path \in Paths /\ row.path \in Nat
  <2>1. id \in Ids /\ id \in Nat
    BY WantedAssumption, IdsAssumption
  <2>2. row.path \in Paths
    BY <1>3, <1>4 DEF Records
  <2>3. Paths \subseteq Nat
    BY BoundsAssumption DEF Paths
  <2> HIDE DEF row
  <2> QED BY <2>1, <2>2, <2>3
<1>6. others \in SUBSET Ids
  <2>1. w.rows \in SUBSET Records
    BY DEF WriterOk, Writers
  <2>2. \A r \in idx.rows \cup w.rows : r.id \in Ids
    BY <1>3, <2>1 DEF Records
  <2> QED BY <2>2 DEF Overwritten
<1>7. ASSUME NEW r \in idx.rows \cup w.rows, r.flag, r.path = row.path, r.id # id
      PROVE  r.id \in others
  <2>1. {r.id, id} \cap behind # {}
    <3>1. CASE r \in idx.rows
      BY <1>3, <1>4, <1>7, <3>1 DEF Apart
    <3>2. CASE r \in w.rows
      <4>1. w.pc \in {"idle", "copy"} => w.rows = {}
        BY DEF WriterOk, Copying, IdleWriter
      <4>2. w.pc # "rename" /\ w.pc \in Stages
        BY <1>3 DEF WriterOk, NoFile, Writers
      <4>3. w.pc = "unlink"
        BY <1>7, <3>2, <4>1, <4>2 DEF FlagInv, FlagsOk, Stages
      <4> QED BY <1>2, <1>4, <1>7, <3>2, <4>3 DEF FlagInv, FlagsOk
    <3> QED BY <3>1, <3>2
  <2> QED BY <1>7, <2>1 DEF Overwritten
<1> HIDE DEF row, others
<1>8. /\ dl' \in Downloads /\ dl'.pc = "fetch" /\ dl'.id = id /\ dl'.path = row.path
      /\ dl'.others = others /\ dl'.attached = FALSE
  BY <1>1, <1>5, <1>6 DEF Downloads, NoDownload
<1>9. \A r \in idx.rows \cup w.rows : Spared(r)'
  BY <1>1, <1>7, <1>8 DEF Spared
<1>10. DownloadOk'
  <2>1. w.pc # "rename"
    BY <1>3 DEF WriterOk, NoFile
  <2>2. RowOf(id).path = dl'.path
    BY <1>8 DEF row
  <2> QED BY <1>1, <1>2, <1>5, <1>8, <1>9, <2>1, <2>2
          DEF FlagInv, DownloadOk, Rows, RowOf
<1>11. FlagsOk'
  BY <1>1 DEF FlagInv, FlagsOk, Stands, Usable
<1> QED BY <1>10, <1>11 DEF FlagInv

(* A download that ends without a flag. *)
LEMMA NoDownloadFlags ==
    ASSUME FlagInv, UNCHANGED <<idx, files, excused, behind>>, dl' = NoDownload,
           w' = w \/ w' = IdleWriter
    PROVE  FlagInv'
<1>1. DownloadOk'
  BY DEF FlagInv, DownloadOk, NoDownload, Downloads
<1>2. FlagsOk'
  BY DEF FlagInv, FlagsOk, Stands, IdleWriter, Usable
<1> QED BY <1>1, <1>2 DEF FlagInv

LEMMA LandFlags ==
    ASSUME FlagInv, IndexOk, w \in Writers, Land
    PROVE  FlagInv'
<1>1. UNCHANGED <<idx, w, behind>> /\ dl.pc = "fetch"
  BY DEF Land
<1>2. CASE dl' = NoDownload /\ UNCHANGED <<files, excused>>
  BY <1>1, <1>2, NoDownloadFlags
<1>3. CASE /\ files' = [files EXCEPT ![dl.path] = dl.id]
           /\ excused' = excused \cup dl.others
           /\ dl' = [dl EXCEPT !.pc = "mark"]
  <2>1. /\ dl \in Downloads /\ files \in [Paths -> Ids \cup {0}] /\ dl.id \in Ids
        /\ dl.path \in Paths
    BY <1>1 DEF FlagInv, DownloadOk
  <2>2. /\ dl' \in Downloads /\ dl'.pc = "mark" /\ dl'.id = dl.id /\ dl'.path = dl.path
        /\ dl'.attached = dl.attached
    BY <1>3, <2>1 DEF Downloads
  <2>3. files' \in [Paths -> Ids \cup {0}] /\ files'[dl.path] = dl.id
    BY <1>3, <2>1
  <2>4. ASSUME NEW row \in Records, Stands(row), Spared(row) PROVE Stands(row)'
    <3>1. row.path \in Paths
      BY DEF Records
    <3>2. CASE row.path # dl.path
      BY <1>3, <2>1, <2>4, <3>1, <3>2 DEF Stands
    <3>3. CASE row.path = dl.path
      BY <1>3, <2>3, <2>4, <3>3 DEF Stands, Spared
    <3> QED BY <3>2, <3>3
  <2>5. Usable(idx) => \A row \in idx.rows : Stands(row)'
    BY <1>1, <2>4, IndexFields DEF FlagInv, FlagsOk, DownloadOk, Usable
  <2>6. \A row \in w.rows : Stands(row)'
    BY <1>1, <2>4 DEF FlagInv, FlagsOk, DownloadOk, Writers
  <2>7. FlagsOk'
    BY <1>1, <2>5, <2>6 DEF FlagInv, FlagsOk, Usable
  <2>8. DownloadOk'
    <3>1. dl'.id \notin excused' => dl.id \notin excused
      BY <1>3, <2>2
    <3> QED BY <1>1, <1>3, <2>1, <2>2, <2>3, <3>1 DEF FlagInv, DownloadOk, Usable, Rows, RowOf
  <2> QED BY <2>7, <2>8 DEF FlagInv
<1> QED BY <1>2, <1>3 DEF Land

LEMMA OpenFlags ==
    ASSUME FlagInv, OpenToMark
    PROVE  FlagInv'
<1>1. UNCHANGED <<idx, w, files, excused, behind>> /\ dl.pc = "mark"
  BY DEF OpenToMark, history
<1>2. CASE dl' = NoDownload
  BY <1>1, <1>2, NoDownloadFlags
<1>3. CASE Known(dl.id) /\ dl' = [dl EXCEPT !.pc = "flip", !.attached = TRUE]
  <2>1. dl \in Downloads
    BY DEF FlagInv, DownloadOk
  <2>2. /\ dl' \in Downloads /\ dl'.pc = "flip" /\ dl'.id = dl.id /\ dl'.path = dl.path
    BY <1>3, <2>1 DEF Downloads
  <2>3. idx.there
    BY <1>3 DEF Known, Usable
  <2>4. DownloadOk'
    BY <1>1, <2>2, <2>3 DEF FlagInv, DownloadOk, Usable, Rows, RowOf
  <2>5. FlagsOk'
    BY <1>1 DEF FlagInv, FlagsOk, Stands, Usable
  <2> QED BY <2>4, <2>5 DEF FlagInv
<1> QED BY <1>2, <1>3 DEF OpenToMark

LEMMA FlipFlags ==
    ASSUME FlagInv, IndexOk, w \in Writers, FlipFlag
    PROVE  FlagInv'
<1>1. UNCHANGED <<w, files, excused, behind>> /\ dl.pc = "flip" /\ dl' = NoDownload
  BY DEF FlipFlag, history
<1>2. CASE ~(dl.attached /\ Rows(dl.id) # {})
  BY <1>1, <1>2, NoDownloadFlags DEF FlipFlag
<1>3. CASE dl.attached /\ Rows(dl.id) # {}
  <2> DEFINE row == RowOf(dl.id)
             flagged == [row EXCEPT !.flag = TRUE]
  <2>1. idx.there /\ idx \in Indexes /\ idx.rows \in SUBSET Records /\ Rows(dl.id) # {}
    BY <1>3, IndexFields DEF FlagInv, DownloadOk
  <2>2. row \in idx.rows /\ row.id = dl.id
    <3>1. Rows(dl.id) \in SUBSET Records
      BY <2>1 DEF Rows
    <3> QED BY <2>1, <3>1, FirstIs DEF RowOf, Rows
  <2>3. /\ flagged.id = dl.id /\ flagged.path = row.path
        /\ row.flag => flagged = row
    BY <2>1, <2>2 DEF Records
  <2>4. idx' = [idx EXCEPT !.rows = (idx.rows \ {row}) \cup {flagged}]
    BY <1>3 DEF FlipFlag, Flagged
  <2>5. Usable(idx) /\ dl.id \notin excused => files[row.path] = dl.id
    BY <1>1, <1>3 DEF FlagInv, DownloadOk
  <2> HIDE DEF row, flagged
  <2>6. idx'.rows = (idx.rows \ {row}) \cup {flagged} /\ (Usable(idx)' <=> Usable(idx))
    <3> DEFINE rows == (idx.rows \ {row}) \cup {flagged}
    <3> HIDE DEF rows
    <3>1. idx' = [idx EXCEPT !.rows = rows]
      BY <2>4 DEF rows
    <3>2. idx'.rows = rows /\ idx'.there = idx.there /\ idx'.header = idx.header
      BY <2>1, <3>1 DEF Indexes
    <3> QED BY <3>2 DEF rows, Usable
  <2>7. DownloadOk'
    BY <1>1 DEF FlagInv, DownloadOk, NoDownload, Downloads
  <2>8. FlagsOk'
    <3>1. ASSUME Usable(idx), NEW r \in idx'.rows PROVE Stands(r)'
      <4>1. CASE r \in idx.rows
        BY <1>1, <3>1, <4>1 DEF FlagInv, FlagsOk, Stands
      <4>2. CASE r = flagged
        BY <1>1, <2>3, <2>5, <3>1, <4>2 DEF Stands
      <4> QED BY <2>6, <4>1, <4>2
    <3>2. \A r \in w.rows : Stands(r)'
      BY <1>1 DEF FlagInv, FlagsOk, Stands
    <3>3. \A r \in idx'.rows : \E t \in idx.rows : r.id = t.id /\ r.path = t.path
      BY <2>2, <2>3, <2>6
    <3> QED BY <1>1, <2>6, <3>1, <3>2, <3>3 DEF FlagInv, FlagsOk
  <2> QED BY <2>7, <2>8 DEF FlagInv
<1> QED BY <1>2, <1>3

LEMMA CorruptFlags ==
    ASSUME FlagInv, IndexOk, CardCorrupts
    PROVE  FlagInv'
<1>1. UNCHANGED <<w, dl, files, excused, behind>> /\ idx.there
  BY DEF CardCorrupts, history
<1>2. idx \in Indexes
  BY <1>1, IndexFields
<1>3. idx'.rows = idx.rows /\ idx'.there /\ (Usable(idx)' => Usable(idx))
  BY <1>1, <1>2 DEF CardCorrupts, Indexes, Usable
<1>4. DownloadOk'
  BY <1>1, <1>3 DEF FlagInv, DownloadOk, Rows, RowOf, Spared
<1>5. FlagsOk'
  BY <1>1, <1>3 DEF FlagInv, FlagsOk, Stands
<1> QED BY <1>4, <1>5 DEF FlagInv

(* The record in front of a book's is kept, or none of them. *)
LEMMA FrontKeepsFirst ==
    ASSUME NEW rows \in SUBSET Records, NEW kept \in Fronts(rows), NEW id,
           Of(kept, id) # {}
    PROVE  First(Of(kept, id)).path = First(Of(rows, id)).path
<1>1. kept \subseteq rows /\ \A row \in kept, cut \in rows \ kept : row.path <= cut.path
  BY DEF Fronts
<1>2. Of(kept, id) \in SUBSET Records /\ Of(rows, id) \in SUBSET Records
      /\ Of(rows, id) # {} /\ Of(kept, id) \subseteq Of(rows, id)
  BY <1>1 DEF Of
<1> DEFINE k == First(Of(kept, id))
           f == First(Of(rows, id))
<1>3. k \in Of(kept, id) /\ \A other \in Of(kept, id) : k.path <= other.path
  BY <1>2, FirstIs
<1>4. f \in Of(rows, id) /\ \A other \in Of(rows, id) : f.path <= other.path
  BY <1>2, FirstIs
<1>5. k.path \in Nat /\ f.path \in Nat
  BY <1>2, <1>3, <1>4, BoundsAssumption DEF Records, Paths
<1> HIDE DEF k, f
<1>6. f.path <= k.path
  BY <1>2, <1>3, <1>4
<1>7. k.path <= f.path
  <2>1. CASE f \in kept
    BY <1>3, <1>4, <2>1 DEF Of
  <2>2. CASE f \notin kept
    BY <1>1, <1>3, <1>4, <2>2 DEF Of
  <2> QED BY <2>1, <2>2
<1>8. k.path = f.path
  BY <1>5, <1>6, <1>7
<1> QED BY <1>8 DEF k, f

LEMMA TruncateFlags ==
    ASSUME FlagInv, IndexOk, CardTruncates
    PROVE  FlagInv'
<1>1. UNCHANGED <<w, dl, files, excused, behind>> /\ idx.there
  BY DEF CardTruncates
<1>2. PICK kept \in Fronts(idx.rows), broken \in {FALSE, idx.broken} :
          idx' = [idx EXCEPT !.rows = kept, !.broken = broken]
  BY DEF CardTruncates
<1>3. idx \in Indexes /\ kept \subseteq idx.rows /\ idx.rows \in SUBSET Records
  BY <1>1, FrontIsPart, IndexFields
<1>4. idx'.rows = kept /\ idx'.there /\ (Usable(idx)' => Usable(idx))
  BY <1>2, <1>3 DEF Indexes, Usable
<1>5. Rows(dl.id)' # {} => Rows(dl.id) # {} /\ RowOf(dl.id)'.path = RowOf(dl.id).path
  <2>1. Rows(dl.id) = Of(idx.rows, dl.id) /\ Rows(dl.id)' = Of(kept, dl.id)
    BY <1>1, <1>4 DEF Rows, Of
  <2>2. RowOf(dl.id) = First(Of(idx.rows, dl.id)) /\ RowOf(dl.id)' = First(Of(kept, dl.id))
    BY <1>1, <2>1 DEF RowOf, First
  <2>3. Of(kept, dl.id) \subseteq Of(idx.rows, dl.id)
    BY <1>3 DEF Of
  <2> QED BY <1>3, <2>1, <2>2, <2>3, FrontKeepsFirst
<1>6. DownloadOk'
  BY <1>1, <1>3, <1>4, <1>5 DEF FlagInv, DownloadOk, Spared
<1>7. FlagsOk'
  BY <1>1, <1>3, <1>4 DEF FlagInv, FlagsOk, Stands
<1> QED BY <1>6, <1>7 DEF FlagInv

LEMMA FlagStep == SyncInv /\ FlagInv /\ IndexStep => FlagInv'
<1> SUFFICES ASSUME SyncInv, FlagInv, IndexStep PROVE FlagInv'
  OBVIOUS
<1>1. IndexOk /\ WriterOk /\ w \in Writers
  BY DEF SyncInv, WriterOk
<1>2. CASE SyncStart
  <2>1. UNCHANGED <<idx, dl, files, excused, behind>> /\ w'.rows = {} /\ w'.pc = "page"
    BY <1>2 DEF SyncStart, Fetching, IdleWriter, history
  <2> QED BY <1>1, <2>1, WriterFrame
<1>3. CASE FetchPage \/ MergeDelta \/ Unlink \/ CopyIndex \/ Land \/ OpenToMark \/ FlipFlag
           \/ CardCorrupts \/ CardTruncates
  BY <1>1, <1>3, FetchFlags, MergeFlags, UnlinkFlags, CopyFlags, LandFlags, OpenFlags,
     FlipFlags, CorruptFlags, TruncateFlags
<1>4. CASE Rename
  <2>1. idx = NoFile
    BY <1>1, <1>4 DEF WriterOk, Rename
  <2> QED BY <1>1, <1>4, <2>1, RenameFlags
<1>5. ASSUME NEW id \in Wanted, StartDownload(id) PROVE FlagInv'
  BY <1>1, <1>5, StartDownloadFlags
<1>6. ASSUME NEW id, NEW path, NEW alive, Put(id, path, alive) PROVE FlagInv'
  <2>1. UNCHANGED <<idx, dl, files, excused, behind>> /\ w'.rows = w.rows /\ w'.pc = w.pc
    BY <1>1, <1>6 DEF Put, NoteEdit, history, Writers
  <2> QED BY <2>1, OwnerFrame
<1>7. ASSUME NEW id \in Ids, OwnerWrites(id) \/ OwnerDeletes(id) PROVE FlagInv'
  BY <1>6, <1>7 DEF OwnerWrites, OwnerDeletes
<1>8. ASSUME NEW path \in Paths, ServerDelete(path) PROVE FlagInv'
  <2>1. UNCHANGED <<idx, dl, files, excused, behind>> /\ w'.rows = {} /\ w'.pc = "copy"
    BY <1>8 DEF ServerDelete, IdleWriter, history
  <2> QED BY <1>1, <2>1, WriterFrame
<1>9. ASSUME NEW path \in Paths, LocalDelete(path) PROVE FlagInv'
  <2>1. DeleteFile(path) /\ UNCHANGED <<idx, dl, w, behind>>
    BY <1>9 DEF LocalDelete
  <2> QED BY <1>1, <2>1, DeleteFlags
<1>10. CASE Abort
  <2>1. DeleteFile(w.victim) \/ UNCHANGED <<files, excused>>
    BY <1>10 DEF Abort, DeleteVictim
  <2>2. UNCHANGED <<idx, dl, behind>> /\ w' = IdleWriter
    BY <1>10 DEF Abort
  <2> QED BY <1>1, <2>1, <2>2, DeleteFlags
<1>11. CASE Reboot
  <2>1. UNCHANGED <<idx, files, excused, behind>> /\ dl' = NoDownload /\ w' = IdleWriter
    BY <1>11 DEF Reboot, history
  <2> QED BY <2>1, NoDownloadFlags
<1>12. CASE Fault /\ UNCHANGED <<serverVars, idx, w, dl, files, history>>
  <2>1. UNCHANGED <<idx, dl, files, excused, behind, w>>
    BY <1>12 DEF history
  <2> QED BY <2>1, OwnerFrame
<1>13. CASE UNCHANGED vars
  <2>1. UNCHANGED <<idx, dl, files, excused, behind, w>>
    BY <1>13 DEF vars, history
  <2> QED BY <2>1, OwnerFrame
<1> QED BY <1>2, <1>3, <1>4, <1>5, <1>7, <1>8, <1>9, <1>10, <1>11, <1>12, <1>13 DEF IndexStep

LEMMA InitFlags == Init => FlagInv
<1> SUFFICES ASSUME Init PROVE FlagInv
  OBVIOUS
<1>1. dl = NoDownload /\ w = IdleWriter /\ idx = NoFile /\ files = [p \in Paths |-> 0]
  BY DEF Init
<1>2. DownloadOk
  BY <1>1 DEF DownloadOk, NoDownload, Downloads
<1>3. FlagsOk
  BY <1>1 DEF FlagsOk, IdleWriter, NoFile, Usable
<1> QED BY <1>2, <1>3 DEF FlagInv

-----------------------------------------------------------------------------
(* The theorems. *)

(* What the writer has gathered, copied or put in place, what the download worker is
   about to mark and what the flags stand for, at every step of both, of the owner and of
   the reader, with faults between any two: failures, reboots, corrupt lines, failed reads
   taken for the end of the index and an index without its end. *)
THEOREM ShelfInvariance == ShelfSpec => []IInv
<1>1. ShelfInit => IInv
  BY InitSync, InitFlags DEF ShelfInit, IInv, FlagInv
<1>2. IInv /\ [ShelfNext]_allVars => IInv'
  BY ShelfStep, SyncStep, FlagStep DEF IInv, FlagInv
<1> QED BY <1>1, <1>2, PTL DEF ShelfSpec

(* No change of the library is lost but with a record: the next delta asks for every book
   the index shows otherwise than the server, save those edited behind the cursor and those
   whose record the card has lost, which the code lets pass (SyncManifest.cpp, sync()). *)
THEOREM NoChangeLost == ShelfSpec => []NothingMissed
<1>1. IInv => NothingMissed
  BY DEF IInv, SyncInv, RowsTell, NothingMissed
<1> QED BY <1>1, ShelfInvariance, PTL

(* A flag stands for a file, however the download worker and the writer of the index
   come to lie between each other (SyncManifest.cpp, markDownloaded()). *)
THEOREM FlagsStand == ShelfSpec => []FlagTracksFile
<1>1. IInv => FlagTracksFile
  BY DEF IInv, FlagsOk, FlagTracksFile, Stands, OnDevice, Rows
<1> QED BY <1>1, ShelfInvariance, PTL

(* A step that ends a sync without a fault is the rename, and what it renames has a
   header and records that parse. *)
LEMMA HealStep ==
    ASSUME IInv, IndexStep, w.pc \in {"page", "merge", "unlink", "rename"}, w.victim = 0,
           w'.pc = "idle", faults' = faults
    PROVE  Usable(idx') /\ ~idx'.broken
<1>1. w \in Writers /\ faults \in Nat
  BY DEF IInv, SyncInv, WriterOk, LibraryOk
<1>2. ~(SyncStart \/ CopyIndex \/ Unlink)
  BY <1>1 DEF SyncStart, CopyIndex, Unlink, Writers
<1>3. ~MergeDelta
  <2>1. \A old : Merging(old).pc = "unlink"
    BY <1>1 DEF Merging, Writers
  <2> QED BY <1>1, <2>1 DEF MergeDelta, MergingNone, Fetching, IdleWriter, Writers
<1>4. ~FetchPage
  <2>1. SUFFICES ASSUME FetchPage PROVE FALSE
    OBVIOUS
  <2>2. w' # [w EXCEPT !.pc = Listed]
    BY <1>1 DEF Listed, Writers
  <2>3. ASSUME NEW last \in Rest,
               w' = [Take(PageTo(last)) EXCEPT
                       !.cursor = At(last),
                       !.pc = IF PageTo(last) = Rest THEN Listed ELSE "page"]
        PROVE  FALSE
    <3> DEFINE pc == IF PageTo(last) = Rest THEN Listed ELSE "page"
               taken == Take(PageTo(last))
    <3>1. "pc" \in DOMAIN taken
      BY <1>1 DEF Take, Writers
    <3>2. pc # "idle"
      BY DEF Listed
    <3> HIDE DEF pc, taken
    <3>3. w' = [taken EXCEPT !.cursor = At(last), !.pc = pc]
      BY <2>3 DEF pc, taken
    <3>4. w'.pc = pc
      BY <3>1, <3>3
    <3> QED BY <3>2, <3>4
  <2> QED BY <2>1, <2>2, <2>3 DEF FetchPage
<1>5. w'.pc # w.pc /\ w.pc # "idle" /\ w' # w
  OBVIOUS
<1>6. /\ ~(Land \/ OpenToMark \/ FlipFlag \/ CardTruncates \/ UNCHANGED vars)
      /\ \A id \in Wanted : ~StartDownload(id)
  BY <1>5 DEF Land, OpenToMark, FlipFlag, CardTruncates, StartDownload, vars
<1>7. \A path \in Paths : ~ServerDelete(path) /\ ~LocalDelete(path)
  BY <1>5 DEF ServerDelete, LocalDelete
<1>8. \A id, path, alive : ~Put(id, path, alive)
  BY <1>1, <1>5 DEF Put, NoteEdit, Writers
<1>9. \A id \in Ids : ~OwnerWrites(id) /\ ~OwnerDeletes(id)
  BY <1>8 DEF OwnerWrites, OwnerDeletes
<1>10. ~(Abort \/ CardCorrupts \/ Reboot \/ Fault)
  BY <1>1 DEF Abort, CardCorrupts, Reboot, Fault
<1>11. Rename
  BY <1>2, <1>3, <1>4, <1>6, <1>7, <1>9, <1>10 DEF IndexStep
<1> QED BY <1>11 DEF Rename, Index, Usable

(* A corrupt index never makes a sync fail for good (SyncManifest.cpp, the second try
   of sync() after "corrupt_index"). *)
THEOREM SyncsHeal == ShelfSpec => SyncHeals
<1>1. IInv /\ [ShelfNext]_allVars =>
        [w.pc \in {"page", "merge", "unlink", "rename"} /\ w.victim = 0
           /\ w'.pc = "idle" /\ faults' = faults => Usable(idx') /\ ~idx'.broken]_vars
  BY ShelfStep, HealStep
<1> QED BY <1>1, ShelfInvariance, PTL DEF ShelfSpec, SyncHeals
=============================================================================
