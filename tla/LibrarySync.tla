---------------------------- MODULE LibrarySync ----------------------------
(***************************************************************************)
(* The automatic library sync of src/sync/LibrarySync.cpp: start(), called  *)
(* on every repaint of the home screen, and the worker task it creates,     *)
(* which brings Wi-Fi up, fetches the manifest and sends a heartbeat, behind *)
(* two once-per-boot latches and a back-off kept on the card.               *)
(*                                                                          *)
(* One action is one critical section of Worker::mutex_, one blocking call  *)
(* or one save.  A reboot (every sleep ends in one) keeps what is on the    *)
(* card and nothing else.                                                   *)
(***************************************************************************)
EXTENDS SyncPolicy

CONSTANTS Revisions,      \* fingerprints a heartbeat can bring, none of them 0
          MaxGeneration   \* bound on the status changes of one boot

ASSUME RevisionsAssumption == Revisions \subseteq Nat \ {0}
ASSUME MaxGenerationAssumption == MaxGeneration \in Nat

VARIABLES handle,         \* taskHandle_ # nullptr
          status,         \* status_
          connectTried,   \* wifiConnectAttemptedThisBoot_
          syncTried,      \* manifestSyncAttemptedThisBoot_
          pc,             \* where the worker task is
          run,            \* the local variables of run()
          wifi,           \* WiFi.status() == WL_CONNECTED
          paired,         \* SYNC_STORE.isPaired()
          backoff,        \* APP_STATE's back-off, on the card
          connects,       \* history: Wi-Fi searches since boot
          fetches         \* history: manifest fetches since boot

workerVars == <<handle, status, connectTried, syncTried, pc, run>>
radioVars == <<wifi, paired>>
tally == <<connects, fetches>>
libVars == <<workerVars, radioVars, backoff, tally>>

Phases == {"Idle", "ConnectingWifi", "Syncing"}
Errors == {"none", "fetch_failed", "other"}
Places == {"none", "begin", "skip", "announceConnect", "connect", "saveFailure", "gate",
           "announceSync", "fetch", "saveOutcome", "heartbeat", "finish", "finishSync"}

Idle == [phase |-> "Idle", generation |-> 0, ran |-> FALSE, ok |-> FALSE, revision |-> 0]
NoRun == [paired |-> FALSE, wifi |-> FALSE, brought |-> FALSE,
          saved |-> NoBackoff, error |-> "none"]

LibInit ==
    /\ handle = FALSE
    /\ status = Idle
    /\ connectTried = FALSE
    /\ syncTried = FALSE
    /\ pc = "none"
    /\ run = NoRun
    /\ wifi = FALSE
    /\ paired \in BOOLEAN
    /\ backoff = NoBackoff
    /\ connects = 0 /\ fetches = 0

-----------------------------------------------------------------------------
(* start(), on the render task. *)

HasWorkToDo ==
    \/ ShouldAttemptLibraryWifiConnect(paired, wifi, connectTried)
    \/ ShouldAutoSync(paired, wifi, syncTried)

\* It may also refuse, because the safety check says no or the task cannot be
\* created: then nothing changes.
Start ==
    /\ ~handle
    /\ HasWorkToDo
    /\ status.generation < MaxGeneration
    /\ handle' = TRUE
    /\ pc' = "begin"
    /\ UNCHANGED <<status, connectTried, syncTried, run, radioVars, backoff, tally>>

-----------------------------------------------------------------------------
(* run(), on the worker task. *)

SetPhase(phase) == status' = [status EXCEPT !.phase = phase, !.generation = @ + 1]

\* Wi-Fi and the pairing are read once, into locals; the latch is set before
\* the back-off is consulted, so that a skipped search is this boot's search.
Begin ==
    /\ pc = "begin"
    /\ IF ShouldAttemptLibraryWifiConnect(paired, wifi, connectTried)
       THEN /\ connectTried' = TRUE
            /\ run' = [run EXCEPT !.paired = paired, !.wifi = wifi, !.saved = backoff]
            /\ pc' = IF ShouldAttempt(backoff) THEN "announceConnect" ELSE "skip"
       ELSE /\ run' = [run EXCEPT !.paired = paired, !.wifi = wifi]
            /\ pc' = "gate"
            /\ UNCHANGED connectTried
    /\ UNCHANGED <<handle, status, syncTried, radioVars, backoff, tally>>

Skip ==
    /\ pc = "skip"
    /\ backoff' = AfterSkippedAttempt(run.saved)
    /\ pc' = "finish"
    /\ UNCHANGED <<handle, status, connectTried, syncTried, run, radioVars, tally>>

AnnounceConnect ==
    /\ pc = "announceConnect"
    /\ SetPhase("ConnectingWifi")
    /\ pc' = "connect"
    /\ UNCHANGED <<handle, connectTried, syncTried, run, radioVars, backoff, tally>>

\* connectToSavedWifi(): nothing in range, or a network is joined.
Connect ==
    /\ pc = "connect"
    /\ connects' = connects + 1
    /\ \/ /\ wifi' = TRUE
          /\ run' = [run EXCEPT !.wifi = TRUE, !.brought = TRUE]
          /\ pc' = "gate"
       \/ /\ ~wifi
          /\ pc' = "saveFailure"
          /\ UNCHANGED <<wifi, run>>
    /\ UNCHANGED <<handle, status, connectTried, syncTried, paired, backoff, fetches>>

SaveFailure ==
    /\ pc = "saveFailure"
    /\ backoff' = AfterAttempt(run.saved, FALSE)
    /\ pc' = "finish"
    /\ UNCHANGED <<handle, status, connectTried, syncTried, run, radioVars, tally>>

\* Mutant: the sync of this boot is not latched.
GateUnlatched ==
    /\ pc = "gate"
    /\ pc' = IF ShouldAutoSync(run.paired, run.wifi, syncTried) THEN "announceSync" ELSE "finish"
    /\ UNCHANGED <<handle, status, connectTried, syncTried, run, radioVars, backoff, tally>>

Gate ==
    /\ pc = "gate"
    /\ IF ShouldAutoSync(run.paired, run.wifi, syncTried)
       THEN syncTried' = TRUE /\ pc' = "announceSync"
       ELSE pc' = "finish" /\ UNCHANGED syncTried
    /\ UNCHANGED <<handle, status, connectTried, run, radioVars, backoff, tally>>

AnnounceSync ==
    /\ pc = "announceSync"
    /\ SetPhase("Syncing")
    /\ pc' = "fetch"
    /\ UNCHANGED <<handle, connectTried, syncTried, run, radioVars, backoff, tally>>

\* sync_manifest::sync(): the index is replaced, the server is not reached, or the sync
\* fails elsewhere.  Without Wi-Fi it may do so before the first request: the device is no
\* longer paired, or the card takes no temp file.
Fetch ==
    /\ pc = "fetch"
    /\ fetches' = fetches + 1
    /\ \E error \in IF wifi THEN Errors ELSE Errors \ {"none"} :
          run' = [run EXCEPT !.error = error]
    /\ pc' = IF run.brought THEN "saveOutcome" ELSE "heartbeat"
    /\ UNCHANGED <<handle, status, connectTried, syncTried, radioVars, backoff, connects>>

SaveOutcome ==
    /\ pc = "saveOutcome"
    /\ backoff' = AfterAttempt(run.saved, run.error # "fetch_failed")
    /\ pc' = "heartbeat"
    /\ UNCHANGED <<handle, status, connectTried, syncTried, run, radioVars, tally>>

\* The heartbeat brings the wallpaper fingerprint, or 0 when it fails.
Heartbeat ==
    /\ pc = "heartbeat"
    /\ \E revision \in {0} \cup (IF wifi THEN Revisions ELSE {}) :
          status' = [status EXCEPT !.revision = revision]
    /\ pc' = "finishSync"
    /\ UNCHANGED <<handle, connectTried, syncTried, run, radioVars, backoff, tally>>

\* Mutant: the handle is forgotten on the early return.
FinishKeepsHandle ==
    /\ pc \in {"finish", "finishSync"}
    /\ status' = IF pc = "finish"
                 THEN [status EXCEPT !.phase = "Idle", !.generation = @ + 1]
                 ELSE [status EXCEPT !.phase = "Idle", !.generation = @ + 1,
                                     !.ran = TRUE, !.ok = (run.error = "none")]
    /\ handle' = (pc = "finish")
    /\ pc' = "none"
    /\ run' = NoRun
    /\ UNCHANGED <<connectTried, syncTried, radioVars, backoff, tally>>

\* finish(): the handle goes with the phase, and the task then deletes itself.
Finish ==
    /\ pc \in {"finish", "finishSync"}
    /\ status' = IF pc = "finish"
                 THEN [status EXCEPT !.phase = "Idle", !.generation = @ + 1]
                 ELSE [status EXCEPT !.phase = "Idle", !.generation = @ + 1,
                                     !.ran = TRUE, !.ok = (run.error = "none")]
    /\ handle' = FALSE
    /\ pc' = "none"
    /\ run' = NoRun
    /\ UNCHANGED <<connectTried, syncTried, radioVars, backoff, tally>>

-----------------------------------------------------------------------------
(* What else touches the radio, the pairing and the back-off. *)

\* Another activity connects, or disconnects when it is left.
WifiChanges ==
    /\ wifi' = ~wifi
    /\ UNCHANGED <<workerVars, paired, backoff, tally>>

PairingChanges ==
    /\ paired' = ~paired
    /\ UNCHANGED <<workerVars, wifi, backoff, tally>>

\* The other users of the back-off: the reader's progress check, the attempt
\* before sleep and a Sync Now that went well each store what they computed.
OthersSaveBackoff ==
    /\ backoff' \in {NoBackoff, AfterSkippedAttempt(backoff), AfterAttempt(backoff, FALSE)}
    /\ UNCHANGED <<workerVars, radioVars, tally>>

\* Deep sleep, or a power loss between two steps.
LibReboot ==
    /\ handle' = FALSE
    /\ status' = Idle
    /\ connectTried' = FALSE
    /\ syncTried' = FALSE
    /\ pc' = "none"
    /\ run' = NoRun
    /\ wifi' = FALSE
    /\ connects' = 0 /\ fetches' = 0
    /\ UNCHANGED <<paired, backoff>>

LibWorkerStep ==
    \/ Begin \/ Skip \/ AnnounceConnect \/ Connect \/ SaveFailure \/ Gate
    \/ AnnounceSync \/ Fetch \/ SaveOutcome \/ Heartbeat \/ Finish

LibAround == WifiChanges \/ PairingChanges \/ OthersSaveBackoff

LibNext == Start \/ LibWorkerStep \/ LibAround \/ LibReboot

LibSpec == LibInit /\ [][LibNext]_libVars

-----------------------------------------------------------------------------
(* Properties. *)

Statuses == [phase : Phases, generation : Nat, ran : BOOLEAN, ok : BOOLEAN,
             revision : {0} \cup Revisions]
Runs == [paired : BOOLEAN, wifi : BOOLEAN, brought : BOOLEAN, saved : Backoffs, error : Errors]

LibTypeOK ==
    /\ handle \in BOOLEAN
    /\ status \in Statuses
    /\ connectTried \in BOOLEAN /\ syncTried \in BOOLEAN
    /\ pc \in Places
    /\ run \in Runs
    /\ wifi \in BOOLEAN /\ paired \in BOOLEAN
    /\ backoff \in Backoffs
    /\ connects \in Nat /\ fetches \in Nat

(* One search and one fetch per boot, however often Home repaints, the radio
   comes and goes, and workers end and are started again. *)
OncePerBoot == connects <= 1 /\ fetches <= 1

(* A worker always ends and gives its handle back, so that start() can run again and
   the download queue's check opens. *)
WorkerEnds == handle ~> ~handle
=============================================================================
