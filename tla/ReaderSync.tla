----------------------------- MODULE ReaderSync -----------------------------
(***************************************************************************)
(* The reading position between this device, the card and the sync server:  *)
(* the background check when a book opens (src/sync/RemoteProgressCheck),   *)
(* the reader's question and its two markers on the card (pollRemote-       *)
(* Progress(), RemoteProgressMarker.h, SyncedPositionMarker.h) and the      *)
(* upload on the way into deep sleep (enterDeepSleep() and                  *)
(* SleepProgressSync), with the other device that reads the same books.     *)
(*                                                                          *)
(* A position is a chapter; a row of another device may name none this one  *)
(* can read, and may have no stamp.  The device stays paired and so keeps    *)
(* its credentials; whether a Wi-Fi search is made, and its back-off, is     *)
(* left open here: see HomeSync.                                            *)
(***************************************************************************)
EXTENDS Integers

CONSTANTS Books,      \* the books there are on the card
          Shared,     \* those that are read on the other device too
          None,       \* a model value: no book, no position, no row
          MaxPos,     \* the chapters are 1..MaxPos
          MaxRows,    \* bound on the positions the server takes, in all
          MaxFaults   \* bound on odd rows, writes and captures that fail, and power cuts

ASSUME SharedAssumption == Shared \subseteq Books
ASSUME NoneAssumption == None \notin Books \cup Nat
ASSUME BoundsAssumption == MaxPos \in Nat \ {0} /\ MaxRows \in Nat /\ MaxFaults \in Nat

VARIABLES server,   \* the row of each book: position, who wrote it, its stamp
          rows,     \* how many rows the server has taken; the last stamp
          card,     \* per book: progress.bin, synced.bin and remote.bin
          reader,   \* EpubReaderActivity, and its dialog
          chk,      \* Checker: its slot, its answer and its task's locals
          wifi,     \* off: no radio; up: on and not connected; on: connected
          lent,     \* somebody else has raised the radio too
          sleep,    \* enterDeepSleep(): its step and what it captured
          faults,
          acked,    \* history: the positions of a book that were acknowledged
          answered, \* history: the last stamp a dialog was answered for, and recorded
          owed      \* history: "Stay here" to a row with a stamp, nothing acknowledged since

serverVars == <<server, rows>>
history == <<acked, answered, owed>>
vars == <<serverVars, card, reader, chk, wifi, lent, sleep, faults, history>>

Positions == 1..MaxPos
Unknown == 0    \* UNKNOWN_CHAPTER
Unstamped == 0  \* a row whose server has left the stamp out
NoReader == [book |-> None]
NoCheck == [busy |-> FALSE, requested |-> None, ready |-> FALSE, row |-> None, aborted |-> FALSE,
            pc |-> "none", hash |-> None, raised |-> FALSE, asked |-> FALSE, fetched |-> None]
Awake == [at |-> "awake", pending |-> FALSE, book |-> None, pos |-> None]

Init ==
    /\ server = [b \in Books |-> None]
    /\ rows = 0
    /\ card = [b \in Books |-> [pos |-> 1, synced |-> None, resolved |-> 0]]
    /\ reader = NoReader
    /\ chk = NoCheck
    /\ wifi = "off" /\ lent = FALSE
    /\ sleep = Awake
    /\ faults = 0
    /\ acked = [b \in Books |-> {}]
    /\ answered = [b \in Books |-> 0]
    /\ owed = [b \in Books |-> FALSE]

-----------------------------------------------------------------------------
(* The other device, and the server it shares with this one: external. *)

Stored(b, pos, by, at) == [server EXCEPT ![b] = [book |-> b, pos |-> pos, by |-> by, at |-> at]]

\* Only a check's request and an upload look at the server: what the other device does
\* before one of them commutes with all that comes in between, and is left until then.
Observed == chk.pc = "request" \/ sleep.at = "upload"

\* A row without a chapter, a stamp or either counts as a fault, so that they are few.
OtherReads(b) ==
    /\ Observed
    /\ rows < MaxRows
    /\ \/ /\ \E pos \in Positions : server' = Stored(b, pos, "other", rows + 1)
          /\ UNCHANGED faults
       \/ /\ \E pos \in Positions \cup {Unknown}, at \in {Unstamped, rows + 1} :
                server' = Stored(b, pos, "other", at)
          /\ faults < MaxFaults /\ faults' = faults + 1
    /\ rows' = rows + 1
    /\ UNCHANGED <<card, reader, chk, wifi, lent, sleep, history>>

-----------------------------------------------------------------------------
(* remote_progress: start(), consume(), discard() *)

\* Mutant: a check is started whatever is running.
StartAlways(b) ==
    [chk EXCEPT !.busy = TRUE, !.requested = b, !.ready = FALSE, !.row = None,
                !.aborted = FALSE, !.pc = IF @ = "none" THEN "begin" ELSE @]

\* One at a time: while one runs, a start is ignored.
Start(b) ==
    IF chk.busy THEN chk
    ELSE [chk EXCEPT !.busy = TRUE, !.requested = b, !.ready = FALSE, !.row = None,
                     !.aborted = FALSE, !.pc = "begin"]

\* The flag is for a task that runs; a start resets it.
Discard == [chk EXCEPT !.aborted = chk.busy, !.ready = FALSE, !.row = None, !.requested = None]

(* Its task. *)

\* Aborted, too little memory, or on to the radio: who raises it is decided here.
CheckBegin ==
    /\ chk.pc = "begin"
    /\ \/ chk' = [chk EXCEPT !.pc = "end"]
       \/ /\ ~chk.aborted
          /\ chk' = [chk EXCEPT !.pc = "search", !.hash = chk.requested, !.raised = (wifi # "on")]
    /\ UNCHANGED <<serverVars, card, reader, wifi, lent, sleep, faults, history>>

\* Backed off, whatever the radio has become meanwhile; or connectToSavedWifi(), which
\* leaves the radio up when it fails.
CheckSearch ==
    /\ chk.pc = "search"
    /\ \/ /\ chk.raised
          /\ chk' = [chk EXCEPT !.pc = "release"]
          /\ UNCHANGED wifi
       \/ /\ wifi # "on"
          /\ chk' = [chk EXCEPT !.pc = "release"]
          /\ wifi' = "up"
       \/ /\ wifi' = "on"
          /\ chk' = [chk EXCEPT !.pc = IF chk.aborted THEN "release" ELSE "request"]
    /\ UNCHANGED <<serverVars, card, reader, lent, sleep, faults, history>>

\* getProgress(): the row there is, if there is one, or nothing after an error.
CheckRequest ==
    /\ chk.pc = "request"
    /\ \E row \in {None} \cup (IF wifi = "on" THEN {server[chk.hash]} ELSE {}) :
          chk' = [chk EXCEPT !.pc = "release", !.asked = TRUE, !.fetched = row]
    /\ UNCHANGED <<serverVars, card, reader, wifi, lent, sleep, faults, history>>

\* Mutant: a close is not told from a power-off.
CheckReleaseNot ==
    /\ chk.pc = "release"
    /\ chk' = [chk EXCEPT !.pc = IF chk.raised /\ ~chk.aborted THEN "tear" ELSE "end"]
    /\ UNCHANGED <<serverVars, card, reader, wifi, lent, sleep, faults, history>>

\* releaseRadio() looks at sleepPending(), and tears down after its unlock.
CheckRelease ==
    /\ chk.pc = "release"
    /\ chk' = [chk EXCEPT !.pc = IF chk.raised /\ ~sleep.pending THEN "tear" ELSE "end"]
    /\ UNCHANGED <<serverVars, card, reader, wifi, lent, sleep, faults, history>>

CheckTear ==
    /\ chk.pc = "tear"
    /\ wifi' = "off"
    /\ chk' = [chk EXCEPT !.pc = "end"]
    /\ UNCHANGED <<serverVars, card, reader, lent, sleep, faults, history>>

\* Mutant: a check that was discarded keeps its slot.
CheckEndKeeps ==
    /\ chk.pc = "end"
    /\ chk' = IF chk.asked /\ ~chk.aborted
              THEN [NoCheck EXCEPT !.requested = chk.requested, !.ready = TRUE, !.row = chk.fetched]
              ELSE [NoCheck EXCEPT !.busy = chk.aborted]
    /\ UNCHANGED <<serverVars, card, reader, wifi, lent, sleep, faults, history>>

\* The slot is free again, and the answer there, unless it was discarded or never asked for.
CheckEnd ==
    /\ chk.pc = "end"
    /\ chk' = IF chk.asked /\ ~chk.aborted
              THEN [NoCheck EXCEPT !.requested = chk.requested, !.ready = TRUE, !.row = chk.fetched]
              ELSE NoCheck
    /\ UNCHANGED <<serverVars, card, reader, wifi, lent, sleep, faults, history>>

CheckStep == CheckBegin \/ CheckSearch \/ CheckRequest \/ CheckRelease \/ CheckTear \/ CheckEnd

-----------------------------------------------------------------------------
(* EpubReaderActivity, on the loop task *)

Reading == sleep.at = "awake" /\ reader.book # None
Turning == Reading /\ reader.dialog = None

\* Mutant: the baseline is where the book resumes.
BaselineHere(b) == card[b].pos

\* baselineFor(): the last acknowledged position, or where the book resumes.
Baseline(b) == IF card[b].synced # None THEN card[b].synced ELSE card[b].pos

\* loadBook()
OpenBook(b) ==
    /\ sleep.at = "awake" /\ reader.book = None
    /\ reader' = [book |-> b, pos |-> card[b].pos, baseline |-> Baseline(b),
                  prompted |-> FALSE, dialog |-> None, declined |-> FALSE]
    /\ chk' = Start(b)
    /\ UNCHANGED <<serverVars, card, wifi, lent, sleep, faults, history>>

\* A page turn into another chapter, and saveProgress() with its render.
Turn(pos) ==
    /\ Turning
    /\ pos # reader.pos
    /\ reader' = [reader EXCEPT !.pos = pos]
    /\ card' = [card EXCEPT ![reader.book].pos = pos]
    /\ UNCHANGED <<serverVars, chk, wifi, lent, sleep, faults, history>>

\* ~EpubReaderActivity()
CloseBook ==
    /\ Turning
    /\ reader' = NoReader
    /\ chk' = Discard
    /\ UNCHANGED <<serverVars, card, wifi, lent, sleep, faults, history>>

\* decide(): another device's row, not answered yet, for another chapter; one without a
\* stamp is never answered, and one without a chapter is for another.
Prompts(row) ==
    /\ row # None
    /\ row.by # "me"
    /\ row.at = Unstamped \/ row.at > card[reader.book].resolved
    /\ row.pos # reader.pos

\* pollRemoteProgress(): one answer, one decision; consume() gives it out once.
PollRemoteProgress ==
    /\ Turning
    /\ ~reader.prompted
    /\ chk.ready /\ chk.requested = reader.book
    /\ chk' = NoCheck
    /\ reader' = [reader EXCEPT !.prompted = TRUE,
                                !.dialog = IF Prompts(chk.row) THEN chk.row ELSE None]
    /\ UNCHANGED <<serverVars, card, wifi, lent, sleep, faults, history>>

\* A marker file is truncated and written: it holds the new value, or after a
\* failure the old one or none.
Saved(old, new, none) ==
    IF faults < MaxFaults THEN {<<new, 0>>, <<old, 1>>, <<none, 1>>} ELSE {<<new, 0>>}

\* RemoteProgressMarker::save() keeps nothing of a row without a stamp.
Recorded(old, at) == IF at = Unstamped THEN {<<old, 0>>} ELSE Saved(old, at, 0)

\* jumpToRemotePosition(), which goes by the percentage where there is no chapter.
Landing(jump) ==
    IF ~jump THEN {reader.pos}
    ELSE IF reader.dialog.pos = Unknown THEN Positions ELSE {reader.dialog.pos}

NowAnswered(before, at, failed) ==
    IF at = Unstamped THEN before ELSE IF failed = 0 THEN at ELSE 0

\* Mutant: only a jump is recorded.
AnswerJumpOnly(jump) ==
    /\ Reading /\ reader.dialog # None
    /\ LET b == reader.book
           at == reader.dialog.at
       IN \E save \in Recorded(card[b].resolved, at), pos \in Landing(jump) :
            /\ card' = [card EXCEPT ![b].resolved = IF jump THEN save[1] ELSE @, ![b].pos = pos]
            /\ faults' = faults + save[2]
            /\ answered' = [answered EXCEPT ![b] = NowAnswered(@, at, save[2])]
            /\ reader' = [reader EXCEPT !.dialog = None, !.pos = pos,
                                        !.declined = @ \/ ~jump]
            /\ owed' = [owed EXCEPT ![b] = ~jump /\ at # Unstamped]
    /\ UNCHANGED <<serverVars, chk, wifi, lent, sleep, acked>>

\* The dialog's answer: "Go there" or "Stay here", which back means too.
Answer(jump) ==
    /\ Reading /\ reader.dialog # None
    /\ LET b == reader.book
           at == reader.dialog.at
       IN \E save \in Recorded(card[b].resolved, at), pos \in Landing(jump) :
            /\ card' = [card EXCEPT ![b].resolved = save[1], ![b].pos = pos]
            /\ faults' = faults + save[2]
            /\ answered' = [answered EXCEPT ![b] = NowAnswered(@, at, save[2])]
            /\ reader' = [reader EXCEPT !.dialog = None, !.pos = pos,
                                        !.declined = @ \/ ~jump]
            /\ owed' = [owed EXCEPT ![b] = ~jump /\ at # Unstamped]
    /\ UNCHANGED <<serverVars, chk, wifi, lent, sleep, acked>>

ReaderStep ==
    \/ \E b \in Books : OpenBook(b)
    \/ \E pos \in Positions : Turn(pos)
    \/ CloseBook
    \/ PollRemoteProgress
    \/ \E jump \in BOOLEAN : Answer(jump)

\* Whoever else raises the radio, beside a check too: the library sync's worker, which
\* leaves it up; a screen that takes it down restarts the device.  It makes a difference
\* to a check that has not connected yet only, and is left until there is one.
LendRadio ==
    /\ sleep.at = "awake" /\ ~lent
    /\ chk.pc \in {"begin", "search"}
    /\ lent' = TRUE
    /\ wifi' = "on"
    /\ UNCHANGED <<serverVars, card, reader, chk, sleep, faults, history>>

-----------------------------------------------------------------------------
(* enterDeepSleep() *)

Leaving(book, pos) == [at |-> "leave", pending |-> TRUE, book |-> book, pos |-> pos]

\* What was captured is of no more use.
Down == [Awake EXCEPT !.at = "down", !.pending = TRUE]

HasUnsyncedProgress == reader.declined \/ reader.pos # reader.baseline

\* What there is to send is captured while the reader lives, and setSleepPending(); the
\* capture gives up on a book it cannot read for its hash.
EnterSleep ==
    /\ sleep.at = "awake"
    /\ IF reader.book # None /\ HasUnsyncedProgress
       THEN \/ sleep' = Leaving(reader.book, reader.pos) /\ UNCHANGED faults
            \/ /\ sleep' = Leaving(None, None)
               /\ faults < MaxFaults /\ faults' = faults + 1
       ELSE sleep' = Leaving(None, None) /\ UNCHANGED faults
    /\ UNCHANGED <<serverVars, card, reader, chk, wifi, lent, history>>

\* goToSleep() destroys the reader.
GoToSleep ==
    /\ sleep.at = "leave"
    /\ reader' = NoReader
    /\ chk' = IF reader.book = None THEN chk ELSE Discard
    /\ sleep' = [sleep EXCEPT !.at = IF sleep.book = None THEN "down" ELSE "search"]
    /\ UNCHANGED <<serverVars, card, wifi, lent, faults, history>>

\* trySyncBeforeSleep(): backed off, cancelled, no network, or on to the upload.
SleepSearch ==
    /\ sleep.at = "search"
    /\ \/ /\ sleep' = Down
          /\ wifi' \in {wifi, IF wifi = "on" THEN "on" ELSE "up"}
       \/ /\ sleep' = [sleep EXCEPT !.at = "upload"]
          /\ wifi' = "on"
    /\ UNCHANGED <<serverVars, card, reader, chk, lent, faults, history>>

\* Mutant: the marker is written whatever became of the upload.
UploadStampsAlways ==
    /\ sleep.at = "upload"
    /\ \/ /\ sleep' = [sleep EXCEPT !.at = "stamp"]
          /\ UNCHANGED <<serverVars, acked, owed>>
       \/ /\ wifi = "on" /\ rows < MaxRows
          /\ server' = Stored(sleep.book, sleep.pos, "me", rows + 1)
          /\ rows' = rows + 1
          /\ \/ /\ sleep' = Down
                /\ UNCHANGED <<acked, owed>>
             \/ /\ sleep' = [sleep EXCEPT !.at = "stamp"]
                /\ acked' = [acked EXCEPT ![sleep.book] = @ \cup {sleep.pos}]
                /\ owed' = [owed EXCEPT ![sleep.book] = FALSE]
    /\ UNCHANGED <<card, reader, chk, wifi, lent, faults, answered>>

\* The server never hears of it; or it stores the row and its answer is lost; or
\* it is heard, and only then the marker is to be written.
Upload ==
    /\ sleep.at = "upload"
    /\ \/ /\ sleep' = Down
          /\ UNCHANGED <<serverVars, acked, owed>>
       \/ /\ wifi = "on" /\ rows < MaxRows
          /\ server' = Stored(sleep.book, sleep.pos, "me", rows + 1)
          /\ rows' = rows + 1
          /\ \/ /\ sleep' = Down
                /\ UNCHANGED <<acked, owed>>
             \/ /\ sleep' = [sleep EXCEPT !.at = "stamp"]
                /\ acked' = [acked EXCEPT ![sleep.book] = @ \cup {sleep.pos}]
                /\ owed' = [owed EXCEPT ![sleep.book] = FALSE]
    /\ UNCHANGED <<card, reader, chk, wifi, lent, faults, answered>>

\* SyncedPositionMarker::save()
Stamp ==
    /\ sleep.at = "stamp"
    /\ \E save \in Saved(card[sleep.book].synced, sleep.pos, None) :
          /\ card' = [card EXCEPT ![sleep.book].synced = save[1]]
          /\ faults' = faults + save[2]
    /\ sleep' = Down
    /\ UNCHANGED <<serverVars, reader, chk, wifi, lent, history>>

\* The radio is torn down and the chip is off: nothing but the card stays.
Off == /\ reader' = NoReader /\ chk' = NoCheck /\ sleep' = Awake
       /\ wifi' = "off" /\ lent' = FALSE

\* startDeepSleep(), and the reset that the wake-up is.
SleepAndWake ==
    /\ sleep.at = "down"
    /\ Off
    /\ UNCHANGED <<serverVars, card, faults, history>>

\* The battery runs out, or the firmware crashes, at any moment.
PowerCut ==
    /\ faults < MaxFaults
    /\ faults' = faults + 1
    /\ Off
    /\ UNCHANGED <<serverVars, card, history>>

SleepStep == GoToSleep \/ SleepSearch \/ Upload \/ Stamp \/ SleepAndWake

Next ==
    \/ \E b \in Shared : OtherReads(b)
    \/ CheckStep \/ ReaderStep \/ LendRadio \/ EnterSleep \/ SleepStep \/ PowerCut

Spec == Init /\ [][Next]_vars

\* The check's task is scheduled and every stage of it is bounded by a timeout.
FairSpec == Spec /\ WF_vars(CheckStep)
-----------------------------------------------------------------------------
(* Properties. *)

ServerRows == [book : Books, pos : Positions \cup {Unknown}, by : {"me", "other"},
               at : {Unstamped} \cup 1..MaxRows]
Cards == [pos : Positions, synced : Positions \cup {None}, resolved : 0..MaxRows]
Readers == [book : Books, pos : Positions, baseline : Positions, prompted : BOOLEAN,
            dialog : ServerRows \cup {None}, declined : BOOLEAN]
Checks == [busy : BOOLEAN, requested : Books \cup {None}, ready : BOOLEAN,
           row : ServerRows \cup {None}, aborted : BOOLEAN,
           pc : {"none", "begin", "search", "request", "release", "tear", "end"},
           hash : Books \cup {None}, raised : BOOLEAN, asked : BOOLEAN,
           fetched : ServerRows \cup {None}]
Sleeps == [at : {"awake", "leave", "search", "upload", "stamp", "down"}, pending : BOOLEAN,
           book : Books \cup {None}, pos : Positions \cup {None}]

TypeOK ==
    /\ server \in [Books -> ServerRows \cup {None}] /\ rows \in 0..MaxRows
    /\ card \in [Books -> Cards]
    /\ reader \in Readers \cup {NoReader}
    /\ chk \in Checks
    /\ wifi \in {"off", "up", "on"} /\ lent \in BOOLEAN
    /\ sleep \in Sleeps
    /\ faults \in 0..MaxFaults
    /\ acked \in [Books -> SUBSET Positions]
    /\ answered \in [Books -> 0..MaxRows]
    /\ owed \in [Books -> BOOLEAN]

(* A book never gets another book's answer, however late it comes and however fast
   books are opened and closed meanwhile. *)
AnswerFitsBook ==
    reader.book # None => reader.dialog = None \/ reader.dialog.book = reader.book

(* The check's slot always comes back, whatever the check ran into and whenever it was
   discarded: no discarded check keeps every later book from asking. *)
SlotComesBack == []<>~chk.busy

(* The radio a check has raised does not stay on through the reading session: once its
   task is done, only a loan or the way into sleep keeps it up. *)
RadioGivenBack == wifi # "off" => chk.busy \/ lent \/ sleep.pending

(* The marker on the card never says more than the server has acknowledged, after any
   failed uploads, lost answers, power cuts and failed writes. *)
MarkerIsAcknowledged ==
    \A b \in Books : card[b].synced # None => card[b].synced \in acked[b]

(* A position the server has not acknowledged goes up with the next sleep from the book,
   in this boot or a later one, for every book with a marker that can be read. *)
UnsentIsRetried ==
    [][sleep.at = "awake" /\ sleep'.at = "leave" /\ reader.book # None /\ UNCHANGED faults =>
         LET b == reader.book
         IN card[b].synced \notin {None, reader.pos} => sleep'.book = b]_vars

(* A row the reader was asked about, and whose answer reached the card, is not asked
   about again, in any later boot; one without a stamp leaves no answer to keep. *)
NotAskedTwice ==
    [][reader.book # None /\ reader'.book # None /\ reader'.dialog # None /\ reader.dialog = None
         => reader'.dialog.at = Unstamped \/ reader'.dialog.at > answered[reader.book]]_vars

-----------------------------------------------------------------------------
(* What a comment of the code says, and it does not do. *)

(* EpubReaderActivity.h: "Stay here" forces "the before-sleep push so the decision
   reaches the server once". *)
DeclineReachesServer ==
    [][sleep.at = "awake" /\ sleep'.at = "leave" /\ reader.book # None /\ UNCHANGED faults =>
         (owed[reader.book] => sleep'.book = reader.book)]_vars
=============================================================================
