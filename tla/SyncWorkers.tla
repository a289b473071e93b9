---------------------------- MODULE SyncWorkers ----------------------------
(***************************************************************************)
(* The two background workers against each other, at the grain of their     *)
(* locks: the download queue asks, under its mutex, whether the library     *)
(* sync is idle (downloadQueueSafetyCheck in main.cpp), and start() asks,   *)
(* under the library mutex, whether the queue is empty                      *)
(* (librarySyncSafetyCheck).  The loop task and the render task call into   *)
(* both, and the rendering mutex guards every repaint and every save.       *)
(*                                                                          *)
(* What the workers do to their own data is in DownloadQueue and            *)
(* LibrarySync; here a queue is its length and a sync its phase.            *)
(***************************************************************************)
EXTENDS Naturals

CONSTANTS MaxQueue   \* MAX_QUEUE

ASSUME MaxQueueAssumption == MaxQueue \in Nat \ {0}

Tasks == {"loop", "draw", "download", "sync"}
Locks == {"rendering", "queue", "library"}

VARIABLES owner,     \* who holds each mutex
          at,        \* where each task is
          count,     \* books in the queue
          mine,      \* the front is the book the download task works on
          phase,     \* the library sync's published phase
          wifi,      \* is the network up
          latches,   \* which of the once-per-boot attempts were made
          reading,   \* isReaderActivity()
          gap        \* history: the download began while the sync had not announced itself

vars == <<owner, at, count, mine, phase, wifi, latches, reading, gap>>
data == <<count, mine, phase, wifi, latches, reading, gap>>

Init ==
    /\ owner = [l \in Locks |-> "nobody"]
    /\ at = [t \in Tasks |-> IF t = "loop" THEN "free" ELSE "none"]
    /\ count = 0 /\ mine = FALSE
    /\ phase = "Idle" /\ latches = {}
    /\ wifi \in BOOLEAN /\ reading \in BOOLEAN
    /\ gap = FALSE

Free(l) == owner[l] = "nobody"
Goto(t, place) == at' = [at EXCEPT ![t] = place]
\* taskHandle_ # nullptr: the handle is given up in the last critical section.
Alive(t) == at[t] # "none"

HasWorkToDo == IF wifi THEN "sync" \notin latches ELSE "connect" \notin latches

-----------------------------------------------------------------------------
(* The loop task. *)

Enqueue ==
    /\ at["loop"] = "free"
    /\ Free("queue")
    /\ count < MaxQueue
    /\ count' = count + 1
    /\ IF Alive("download") THEN UNCHANGED at ELSE Goto("download", "pick")
    /\ UNCHANGED <<owner, mine, phase, wifi, latches, reading, gap>>

CancelAll ==
    /\ at["loop"] = "free"
    /\ Free("queue")
    /\ count' = 0 /\ mine' = FALSE
    /\ UNCHANGED <<owner, at, phase, wifi, latches, reading, gap>>

\* Mutant: the snapshot is taken with the library mutex held as well.
RebuildSlotsLocksBoth ==
    /\ at["loop"] = "free"
    /\ Free("rendering") /\ Free("library")
    /\ owner' = [owner EXCEPT !["rendering"] = "loop", !["library"] = "loop"]
    /\ Goto("loop", "rebuild")
    /\ UNCHANGED data

\* rebuildSlots() takes a snapshot of the queue under the rendering mutex.
RebuildSlots ==
    /\ at["loop"] = "free"
    /\ Free("rendering")
    /\ owner' = [owner EXCEPT !["rendering"] = "loop"]
    /\ Goto("loop", "rebuild")
    /\ UNCHANGED data

SlotsRebuilt ==
    /\ at["loop"] = "rebuild"
    /\ Free("queue")
    /\ owner' = [owner EXCEPT !["rendering"] = "nobody"]
    /\ Goto("loop", "free")
    /\ UNCHANGED data

\* The current activity is replaced under the rendering mutex.
OpenOrCloseBook ==
    /\ at["loop"] = "free"
    /\ Free("rendering")
    /\ reading' = ~reading
    /\ UNCHANGED <<owner, at, count, mine, phase, wifi, latches, gap>>

\* Sync Now on the Xtreader screen, a request of the loop task itself.
SyncNow ==
    /\ at["loop"] = "free"
    /\ wifi /\ ~reading
    /\ Goto("loop", "syncNow")
    /\ UNCHANGED <<owner, data>>

SyncNowDone ==
    /\ at["loop"] = "syncNow"
    /\ Goto("loop", "free")
    /\ UNCHANGED <<owner, data>>

-----------------------------------------------------------------------------
(* The render task, on the home screen. *)

Render ==
    /\ at["draw"] = "none"
    /\ ~reading
    /\ Free("rendering")
    /\ owner' = [owner EXCEPT !["rendering"] = "draw"]
    /\ Goto("draw", "banner")
    /\ UNCHANGED data

\* status() for the banner, then trySyncLibrary().
DrawBanner ==
    /\ at["draw"] = "banner"
    /\ Free("library")
    /\ Goto("draw", "start")
    /\ UNCHANGED <<owner, data>>

Rendered == /\ Goto("draw", "none")
            /\ owner' = [owner EXCEPT !["rendering"] = "nobody"]

StartRefuses ==
    /\ at["draw"] = "start"
    /\ Free("library")
    /\ Alive("sync") \/ ~HasWorkToDo \/ reading
    /\ Rendered
    /\ UNCHANGED data

\* start() goes on to the safety check with the library mutex held.
StartAsks ==
    /\ at["draw"] = "start"
    /\ Free("library")
    /\ ~Alive("sync") /\ HasWorkToDo /\ ~reading
    /\ owner' = [owner EXCEPT !["library"] = "draw"]
    /\ Goto("draw", "ask")
    /\ UNCHANGED data

\* Mutant: an empty queue is taken for a worker that has left.
StartCountsOnly ==
    /\ at["draw"] = "ask"
    /\ Free("queue")
    /\ owner' = [owner EXCEPT !["library"] = "nobody", !["rendering"] = "nobody"]
    /\ at' = [at EXCEPT !["draw"] = "none",
                        !["sync"] = IF count = 0 THEN "begin" ELSE @]
    /\ UNCHANGED data

StartAnswered ==
    /\ at["draw"] = "ask"
    /\ Free("queue")
    /\ owner' = [owner EXCEPT !["library"] = "nobody", !["rendering"] = "nobody"]
    /\ at' = [at EXCEPT !["draw"] = "none",
                        !["sync"] = IF count = 0 /\ ~Alive("download") THEN "begin" ELSE @]
    /\ UNCHANGED data

-----------------------------------------------------------------------------
(* The download task. *)

PickFront ==
    /\ at["download"] = "pick"
    /\ Free("queue")
    /\ IF count = 0 THEN Goto("download", "none") /\ UNCHANGED owner
       ELSE IF reading THEN Goto("download", "idle") /\ UNCHANGED owner
       ELSE /\ owner' = [owner EXCEPT !["queue"] = "download"]
            /\ Goto("download", "check")
    /\ UNCHANGED data

\* status(), called by the safety check with the queue's mutex held.
CheckSync ==
    /\ at["download"] = "check"
    /\ Free("library")
    /\ owner' = [owner EXCEPT !["queue"] = "nobody"]
    /\ IF phase = "Idle"
       THEN Goto("download", "fetch") /\ mine' = TRUE /\ gap' = Alive("sync")
       ELSE Goto("download", "idle") /\ UNCHANGED <<mine, gap>>
    /\ UNCHANGED <<count, phase, wifi, latches, reading>>

LookAgain ==
    /\ at["download"] = "idle"
    /\ Goto("download", "pick")
    /\ UNCHANGED <<owner, data>>

Downloaded ==
    /\ at["download"] = "fetch"
    /\ Goto("download", "finish")
    /\ UNCHANGED <<owner, data>>

\* After a cancel the front may be the same book again, or another one.
FinishBook ==
    /\ at["download"] = "finish"
    /\ Free("queue")
    /\ count' \in IF mine THEN {count - 1} ELSE IF count = 0 THEN {0} ELSE {count - 1, count}
    /\ mine' = FALSE /\ gap' = FALSE
    /\ Goto("download", "pick")
    /\ UNCHANGED <<owner, phase, wifi, latches, reading>>

-----------------------------------------------------------------------------
(* The library sync's task. *)

\* The network is looked at once, here: what run() does later goes by what it saw.
Begin ==
    /\ at["sync"] = "begin"
    /\ IF ~wifi /\ "connect" \notin latches
       THEN /\ Free("library")
            /\ latches' = latches \cup {"connect"}
            /\ at' \in {[at EXCEPT !["sync"] = p] : p \in {"announceConnect", "save"}}
       ELSE Goto("sync", IF wifi THEN "gate" ELSE "finish") /\ UNCHANGED latches
    /\ UNCHANGED <<owner, count, mine, phase, wifi, reading, gap>>

SetPhase(p) == Free("library") /\ phase' = p

AnnounceConnect ==
    /\ at["sync"] = "announceConnect"
    /\ SetPhase("ConnectingWifi")
    /\ Goto("sync", "connect")
    /\ UNCHANGED <<owner, count, mine, wifi, latches, reading, gap>>

\* The credentials are read under the rendering mutex, then the search.
Connect ==
    /\ at["sync"] = "connect"
    /\ Free("rendering")
    /\ wifi' \in {wifi, TRUE}
    /\ Goto("sync", IF wifi' THEN "gate" ELSE "save")
    /\ UNCHANGED <<owner, count, mine, phase, latches, reading, gap>>

\* Only reached with a network seen or brought up.
Gate ==
    /\ at["sync"] = "gate"
    /\ IF "sync" \notin latches
       THEN /\ Free("library")
            /\ latches' = latches \cup {"sync"}
            /\ Goto("sync", "announceSync")
       ELSE Goto("sync", "finish") /\ UNCHANGED latches
    /\ UNCHANGED <<owner, count, mine, phase, wifi, reading, gap>>

AnnounceSync ==
    /\ at["sync"] = "announceSync"
    /\ SetPhase("Syncing")
    /\ Goto("sync", "fetch")
    /\ UNCHANGED <<owner, count, mine, wifi, latches, reading, gap>>

Fetched ==
    /\ at["sync"] = "fetch"
    /\ at' \in {[at EXCEPT !["sync"] = p] : p \in {"save", "finish"}}
    /\ UNCHANGED <<owner, data>>

\* saveBackoffState(): an SD write under the rendering mutex, no other held.
SaveBackoffState ==
    /\ at["sync"] = "save"
    /\ Free("rendering")
    /\ Goto("sync", "finish")
    /\ UNCHANGED <<owner, data>>

FinishSync ==
    /\ at["sync"] = "finish"
    /\ SetPhase("Idle")
    /\ Goto("sync", "none")
    /\ UNCHANGED <<owner, count, mine, wifi, latches, reading, gap>>

WifiChanges ==
    /\ wifi' = ~wifi
    /\ UNCHANGED <<owner, at, count, mine, phase, latches, reading, gap>>

Reboot ==
    /\ owner' = [l \in Locks |-> "nobody"]
    /\ at' = [t \in Tasks |-> IF t = "loop" THEN "free" ELSE "none"]
    /\ count' = 0 /\ mine' = FALSE /\ gap' = FALSE
    /\ phase' = "Idle" /\ latches' = {} /\ wifi' = FALSE
    /\ reading' \in BOOLEAN

LoopStep == \/ Enqueue \/ CancelAll \/ RebuildSlots \/ SlotsRebuilt
            \/ OpenOrCloseBook \/ SyncNow \/ SyncNowDone
DrawStep == Render \/ DrawBanner \/ StartRefuses \/ StartAsks \/ StartAnswered
DownloadStep == PickFront \/ CheckSync \/ LookAgain \/ Downloaded \/ FinishBook
SyncStep == \/ Begin \/ AnnounceConnect \/ Connect \/ Gate \/ AnnounceSync
            \/ Fetched \/ SaveBackoffState \/ FinishSync

Next == LoopStep \/ DrawStep \/ DownloadStep \/ SyncStep \/ WifiChanges \/ Reboot

Spec == Init /\ [][Next]_vars
-----------------------------------------------------------------------------
(* Properties. *)

\* The mutex the next step of a task that holds another one has to take.
Wants == [loop |-> IF at["loop"] = "rebuild" THEN "queue" ELSE "none",
          draw |-> CASE at["draw"] \in {"banner", "start"} -> "library"
                     [] at["draw"] = "ask" -> "queue"
                     [] OTHER -> "none",
          download |-> IF at["download"] = "check" THEN "library" ELSE "none",
          sync |-> "none"]

WaitsFor(t, u) == Wants[t] # "none" /\ owner[Wants[t]] = u

CircularWait(S) == S # {} /\ \A t \in S : \E u \in S : WaitsFor(t, u)

(* The two safety checks are the only place where tasks can wait for each other in a
   circle: the rendering mutex and the loop task never take part in one. *)
OnlyTheChecksCollide ==
    \A S \in SUBSET Tasks :
        CircularWait(S) => S = {"draw", "download"} /\ at["draw"] = "ask"

\* A request to the server is going on: a TLS session is open.
Talking(t) == at[t] = IF t = "loop" THEN "syncNow" ELSE "fetch"

(* Apart from the gap between the creation of the sync's task and its first phase,
   the two checks do keep a download and a library fetch apart. *)
OverlapOnlyInTheGap ==
    Talking("download") /\ Talking("sync") => gap

-----------------------------------------------------------------------------
(* What comments of the code say, and it does not do. *)

(* LibrarySync.h on start(): "Never blocks the caller". *)
StartNeverBlocks == \A S \in SUBSET Tasks : "draw" \in S => ~CircularWait(S)
=============================================================================
