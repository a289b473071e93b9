--------------------------- MODULE HomeSyncProofs ---------------------------
(***************************************************************************)
(* The library worker on its own, and under the home screen that starts it. *)
(* For any back-off bound and any fingerprints, and with the pairing, the   *)
(* radio and the stored back-off changing at any moment: one search and one *)
(* fetch per boot, and a back-off that stays in its range although several  *)
(* writers store it over each other.  The home screen's steps are steps of  *)
(* the worker's specification, so that all of this holds under it too; and  *)
(* for any bound on the boots, one discovery per boot and a banner that is  *)
(* never left standing.                                                     *)
(***************************************************************************)
EXTENDS HomeSync, TLAPS

-----------------------------------------------------------------------------
(* LibrarySync. *)

\* The latch is set before the attempt, and an attempt under way is the first one.
ConnectLatch ==
    /\ connects \in {0, 1}
    /\ connects = 1 => connectTried
    /\ pc \in {"skip", "announceConnect", "connect"} => connectTried /\ connects = 0

FetchLatch ==
    /\ fetches \in {0, 1}
    /\ fetches = 1 => syncTried
    /\ pc \in {"announceSync", "fetch"} => syncTried /\ fetches = 0

LibInv == LibTypeOK /\ ConnectLatch /\ FetchLatch

-----------------------------------------------------------------------------
(* What the back-off policy computes is a back-off. *)
LEMMA BackoffType ==
    /\ NoBackoff \in Backoffs
    /\ \A b \in Backoffs : AfterSkippedAttempt(b) \in Backoffs
    /\ \A b \in Backoffs : \A reached \in BOOLEAN : AfterAttempt(b, reached) \in Backoffs
<1>1. NoBackoff \in Backoffs
  BY MaxSkipAssumption DEF NoBackoff, Backoffs
<1>2. ASSUME NEW b \in Backoffs PROVE AfterSkippedAttempt(b) \in Backoffs
  BY <1>2, MaxSkipAssumption DEF AfterSkippedAttempt, Backoffs
<1>3. ASSUME NEW b \in Backoffs, NEW reached \in BOOLEAN
      PROVE  AfterAttempt(b, reached) \in Backoffs
  <2> DEFINE fails == IF b.fails < MaxSkip THEN b.fails + 1 ELSE b.fails
  <2>1. fails \in 0..MaxSkip
    BY <1>3, MaxSkipAssumption DEF Backoffs
  <2>2. AfterAttempt(b, reached) = IF reached THEN NoBackoff ELSE [fails |-> fails, skips |-> fails]
    BY DEF AfterAttempt
  <2> HIDE DEF fails
  <2> QED BY <1>1, <2>1, <2>2 DEF Backoffs
<1> QED BY <1>1, <1>2, <1>3

(* The record of a boot that has just begun, and of a worker that has. *)
LEMMA FreshTypes == Idle \in Statuses /\ NoRun \in Runs
BY BackoffType DEF Idle, NoRun, Statuses, Runs, Phases, Errors

(* The status a phase change or a result leaves. *)
LEMMA StatusFields ==
    ASSUME NEW s \in Statuses, NEW phase \in Phases, NEW g \in Nat, NEW ok \in BOOLEAN
    PROVE  /\ [s EXCEPT !.phase = phase, !.generation = g] \in Statuses
           /\ [s EXCEPT !.phase = phase, !.generation = g, !.ran = TRUE, !.ok = ok] \in Statuses
BY DEF Statuses

LEMMA StatusTypes ==
    ASSUME NEW s \in Statuses, NEW phase \in Phases, NEW ok \in BOOLEAN
    PROVE  /\ [s EXCEPT !.phase = phase, !.generation = @ + 1] \in Statuses
           /\ [s EXCEPT !.phase = phase, !.generation = @ + 1, !.ran = TRUE, !.ok = ok]
                \in Statuses
<1>1. s.generation + 1 \in Nat
  BY DEF Statuses
<1> QED BY <1>1, StatusFields

LEMMA LibInitInv == LibInit => LibInv
<1> SUFFICES ASSUME LibInit PROVE LibInv
  OBVIOUS
<1>1. LibTypeOK
  BY FreshTypes, BackoffType DEF LibInit, LibTypeOK, Places
<1>2. ConnectLatch /\ FetchLatch
  BY DEF LibInit, ConnectLatch, FetchLatch
<1> QED BY <1>1, <1>2 DEF LibInv

LEMMA LibTypeStep == LibTypeOK /\ [LibNext]_libVars => LibTypeOK'
<1> SUFFICES ASSUME LibTypeOK, [LibNext]_libVars PROVE LibTypeOK'
  OBVIOUS
<1> USE DEF LibTypeOK, Places, workerVars, radioVars, tally
<1>1. CASE Start
  BY <1>1 DEF Start
<1>2. CASE Begin
  <2>1. run' \in Runs
    BY <1>2 DEF Begin, Runs
  <2> QED BY <1>2, <2>1 DEF Begin
<1>3. CASE Skip \/ SaveFailure
  <2>1. run.saved \in Backoffs
    BY DEF Runs
  <2> QED BY <1>3, <2>1, BackoffType DEF Skip, SaveFailure
<1>4. CASE AnnounceConnect \/ AnnounceSync
  <2>1. \A phase \in Phases : [status EXCEPT !.phase = phase, !.generation = @ + 1] \in Statuses
    BY StatusTypes
  <2>2. "ConnectingWifi" \in Phases /\ "Syncing" \in Phases
    BY DEF Phases
  <2>3. status' \in Statuses
    BY <1>4, <2>1, <2>2 DEF AnnounceConnect, AnnounceSync, SetPhase
  <2> QED BY <1>4, <2>3 DEF AnnounceConnect, AnnounceSync
<1>5. CASE Connect
  <2>1. [run EXCEPT !.wifi = TRUE, !.brought = TRUE] \in Runs
    BY DEF Runs
  <2>2. run' \in Runs /\ wifi' \in BOOLEAN /\ pc' \in {"gate", "saveFailure"}
    BY <1>5, <2>1 DEF Connect
  <2>3. /\ connects' = connects + 1
        /\ UNCHANGED <<handle, status, connectTried, syncTried, paired, backoff, fetches>>
    BY <1>5 DEF Connect
  <2>4. connects' \in Nat
    BY <2>3
  <2> QED BY <2>2, <2>3, <2>4
<1>6. CASE Gate
  BY <1>6 DEF Gate
<1>7. CASE Fetch
  <2>1. \A error \in Errors : [run EXCEPT !.error = error] \in Runs
    BY DEF Runs
  <2>2. (IF wifi THEN Errors ELSE Errors \ {"none"}) \subseteq Errors
    BY DEF Errors
  <2>3. run' \in Runs
    BY <1>7, <2>1, <2>2 DEF Fetch
  <2> QED BY <1>7, <2>3 DEF Fetch
<1>8. CASE SaveOutcome
  <2>1. run.saved \in Backoffs /\ (run.error # "fetch_failed") \in BOOLEAN
    BY DEF Runs
  <2>2. backoff' \in Backoffs
    BY <1>8, <2>1, BackoffType DEF SaveOutcome
  <2> QED BY <1>8, <2>2 DEF SaveOutcome
<1>9. CASE Heartbeat
  <2>1. status' \in Statuses
    BY <1>9 DEF Heartbeat, Statuses
  <2> QED BY <1>9, <2>1 DEF Heartbeat
<1>10. CASE Finish
  <2>1. status' \in Statuses
    <3>1. "Idle" \in Phases /\ (run.error = "none") \in BOOLEAN
      BY DEF Phases
    <3>2. /\ [status EXCEPT !.phase = "Idle", !.generation = @ + 1] \in Statuses
          /\ [status EXCEPT !.phase = "Idle", !.generation = @ + 1, !.ran = TRUE,
                            !.ok = (run.error = "none")] \in Statuses
      BY <3>1, StatusTypes
    <3> QED BY <1>10, <3>2 DEF Finish
  <2>2. /\ UNCHANGED <<connectTried, syncTried, wifi, paired, backoff, connects, fetches>>
        /\ handle' = FALSE /\ pc' = "none" /\ run' = NoRun
    BY <1>10 DEF Finish
  <2>3. run' \in Runs
    BY <2>2, FreshTypes
  <2>4. pc' \in Places /\ handle' \in BOOLEAN
    BY <2>2
  <2>5. backoff' \in Backoffs /\ connects' \in Nat /\ fetches' \in Nat
    BY <2>2
  <2>6. connectTried' \in BOOLEAN /\ syncTried' \in BOOLEAN /\ wifi' \in BOOLEAN /\ paired' \in BOOLEAN
    BY <2>2
  <2> QED BY ONLY <2>1, <2>3, <2>4, <2>5, <2>6
<1>11. CASE LibAround
  <2>1. CASE WifiChanges
    BY <2>1 DEF WifiChanges
  <2>2. CASE PairingChanges
    BY <2>2 DEF PairingChanges
  <2>3. CASE OthersSaveBackoff
    <3>1. backoff' \in Backoffs
      BY <2>3, BackoffType DEF OthersSaveBackoff
    <3> QED BY <2>3, <3>1 DEF OthersSaveBackoff
  <2> QED BY <1>11, <2>1, <2>2, <2>3 DEF LibAround
<1>12. CASE LibReboot
  BY <1>12, FreshTypes DEF LibReboot
<1>13. CASE UNCHANGED libVars
  BY <1>13 DEF libVars
<1> QED
  BY <1>1, <1>2, <1>3, <1>4, <1>5, <1>6, <1>7, <1>8, <1>9, <1>10, <1>11, <1>12, <1>13
     DEF LibNext, LibWorkerStep

(* Each action keeps both latches ahead of what they guard. *)
LEMMA LibStepInv == LibInv /\ [LibNext]_libVars => LibInv'
<1> SUFFICES ASSUME LibInv, [LibNext]_libVars PROVE LibInv'
  OBVIOUS
<1>1. LibTypeOK'
  BY LibTypeStep DEF LibInv
<1> SUFFICES (ConnectLatch /\ FetchLatch)'
  BY <1>1 DEF LibInv
<1> USE DEF LibInv, ConnectLatch, FetchLatch, workerVars, radioVars, tally
<1>2. CASE Start
  BY <1>2 DEF Start
<1>3. CASE Begin
  BY <1>3 DEF Begin, ShouldAttemptLibraryWifiConnect
<1>4. CASE Connect
  BY <1>4 DEF Connect
<1>5. CASE Gate
  BY <1>5 DEF Gate, ShouldAutoSync
<1>6. CASE Fetch
  BY <1>6 DEF Fetch
<1>7. CASE Skip \/ AnnounceConnect \/ SaveFailure \/ AnnounceSync \/ SaveOutcome \/ Heartbeat \/ Finish
  BY <1>7 DEF Skip, AnnounceConnect, SaveFailure, AnnounceSync, SaveOutcome, Heartbeat, Finish
<1>8. CASE LibAround
  BY <1>8 DEF LibAround, WifiChanges, PairingChanges, OthersSaveBackoff
<1>9. CASE LibReboot
  BY <1>9 DEF LibReboot
<1>10. CASE UNCHANGED libVars
  BY <1>10 DEF libVars
<1> QED
  BY <1>2, <1>3, <1>4, <1>5, <1>6, <1>7, <1>8, <1>9, <1>10 DEF LibNext, LibWorkerStep

-----------------------------------------------------------------------------
(* The theorems. *)

(* The invariant holds in every reachable state. *)
THEOREM LibInvariance == LibSpec => []LibInv
<1>1. LibInit => LibInv
  BY LibInitInv
<1>2. LibInv /\ [LibNext]_libVars => LibInv'
  BY LibStepInv
<1> QED BY <1>1, <1>2, PTL DEF LibSpec

(* The state keeps its types; above all, the stored back-off never leaves its range. *)
THEOREM LibTypeCorrect == LibSpec => []LibTypeOK
<1>1. LibInv => LibTypeOK
  BY DEF LibInv
<1> QED BY <1>1, LibInvariance, PTL

(* One search and one fetch per boot. *)
THEOREM AttemptsOnce == LibSpec => []OncePerBoot
<1>1. LibInv => OncePerBoot
  BY DEF LibInv, ConnectLatch, FetchLatch, OncePerBoot
<1> QED BY <1>1, LibInvariance, PTL

-----------------------------------------------------------------------------
(* HomeSync: what relates the home screen's variables to the worker's. *)

HomeTypeOK ==
    /\ home \in BOOLEAN /\ dirty \in BOOLEAN
    /\ shown \in Phases /\ seen \in Nat
    /\ tail \in {"none", "start", "deliver", "wallpapers", "sync"}
    /\ handled \in BOOLEAN /\ checked \in BOOLEAN
    /\ boots \in 0..MaxBoots
    /\ synced \in {0} \cup Revisions /\ used \in {0} \cup Revisions
    /\ told \in Nat

\* The hand-over latch is set with the discovery, and nothing but a reboot clears it.
ToldLatch == told \in {0, 1} /\ (told = 1 => handled)

\* The generation is counted up with each change of the phase, so that one the
\* screen has seen is never met again.
SeenBound == seen <= status.generation

\* The tail of a render pass belongs to the activity, and the wallpaper sync to the
\* check of this boot.
TailBelongs == (tail # "none" => home) /\ (tail = "sync" => checked)

HomeInv ==
    /\ LibInv /\ HomeTypeOK
    /\ ToldLatch /\ SeenBound /\ TailBelongs /\ BannerIsCurrent

(* The generation never falls, and a step that leaves it as it is leaves the phase
   as it is, but for a reboot. *)
LEMMA GenerationMoves ==
    ASSUME LibTypeOK, LibWorkerStep \/ UNCHANGED status
    PROVE  /\ status'.generation >= status.generation
           /\ status'.generation = status.generation => status'.phase = status.phase
<1>1. status.generation \in Nat
  BY DEF LibTypeOK, Statuses
<1>2. CASE AnnounceConnect \/ AnnounceSync
  <2>1. PICK phase \in Phases :
           status' = [status EXCEPT !.phase = phase, !.generation = @ + 1]
    BY <1>2 DEF AnnounceConnect, AnnounceSync, SetPhase, Phases
  <2>2. status'.generation = status.generation + 1
    BY <2>1 DEF LibTypeOK, Statuses
  <2> QED BY <1>1, <2>2
<1>3. CASE Finish
  <2>1. status'.generation = status.generation + 1
    BY <1>3 DEF Finish, LibTypeOK, Statuses
  <2> QED BY <1>1, <2>1
<1>4. CASE Heartbeat
  <2>1. PICK revision : status' = [status EXCEPT !.revision = revision]
    BY <1>4 DEF Heartbeat
  <2>2. status'.generation = status.generation /\ status'.phase = status.phase
    BY <2>1 DEF LibTypeOK, Statuses
  <2> QED BY <1>1, <2>2
<1>5. CASE Begin \/ Skip \/ Connect \/ SaveFailure \/ Gate \/ Fetch \/ SaveOutcome
               \/ UNCHANGED status
  <2>1. UNCHANGED status
    BY <1>5 DEF Begin, Skip, Connect, SaveFailure, Gate, Fetch, SaveOutcome
  <2> QED BY <1>1, <2>1
<1> QED BY <1>2, <1>3, <1>4, <1>5 DEF LibWorkerStep

(* Every step of the home screen is a step of LibrarySync or leaves it alone. *)
LEMMA HomeStepIsLibStep == [HomeNext]_allVars => [LibNext]_libVars
<1> SUFFICES ASSUME [HomeNext]_allVars PROVE [LibNext]_libVars
  OBVIOUS
<1>1. CASE EnterHome \/ LeaveHome \/ WantRepaint \/ PollLibrarySync
  BY <1>1 DEF EnterHome, LeaveHome, WantRepaint, PollLibrarySync
<1>2. CASE RenderStep
  <2>1. CASE TrySyncLibrary
    BY <2>1 DEF TrySyncLibrary, LibNext
  <2>2. CASE \E more \in BOOLEAN : WallpapersSynced(more)
    BY <2>2 DEF WallpapersSynced
  <2>3. CASE Repaint \/ TryDeliverPendingBookFinished \/ TrySyncWallpapers
               \/ WallpaperSyncFails
    BY <2>3 DEF Repaint, TryDeliverPendingBookFinished, TrySyncWallpapers, WallpaperSyncFails
  <2> QED BY <1>2, <2>1, <2>2, <2>3 DEF RenderStep
<1>3. CASE Background
  BY <1>3 DEF Background, LibNext, LibAround
<1>4. CASE HomeReboot
  BY <1>4 DEF HomeReboot, LibNext
<1>5. CASE UNCHANGED allVars
  BY <1>5 DEF allVars
<1> QED BY <1>1, <1>2, <1>3, <1>4, <1>5 DEF HomeNext

LEMMA HomeInitInv == HomeInit => HomeInv
<1> SUFFICES ASSUME HomeInit PROVE HomeInv
  OBVIOUS
<1>1. LibInv
  BY LibInitInv DEF HomeInit
<1>2. HomeTypeOK
  <2>1. boots \in 0..MaxBoots /\ seen \in Nat /\ told \in Nat
    BY MaxBootsAssumption DEF HomeInit
  <2>2. shown \in Phases /\ synced \in {0} \cup Revisions /\ used \in {0} \cup Revisions
    BY DEF HomeInit, Phases
  <2> QED BY <2>1, <2>2 DEF HomeInit, HomeTypeOK
<1>3. status.generation = 0
  BY DEF HomeInit, LibInit, Idle
<1>4. ToldLatch /\ SeenBound /\ TailBelongs /\ BannerIsCurrent
  BY <1>3 DEF HomeInit, ToldLatch, SeenBound, TailBelongs, BannerIsCurrent
<1> QED BY <1>1, <1>2, <1>4 DEF HomeInv

LEMMA HomeTypeStep == LibInv /\ HomeTypeOK /\ [HomeNext]_allVars => HomeTypeOK'
<1> SUFFICES ASSUME LibInv, HomeTypeOK, [HomeNext]_allVars PROVE HomeTypeOK'
  OBVIOUS
<1> USE DEF HomeTypeOK, screenVars, latchVars, wallVars
<1>1. status.phase \in Phases /\ status.generation \in Nat
        /\ status.revision \in {0} \cup Revisions
  BY DEF LibInv, LibTypeOK, Statuses
<1>2. CASE EnterHome \/ LeaveHome \/ WantRepaint
  <2>1. seen' \in Nat /\ shown' \in Phases
    BY <1>1, <1>2 DEF EnterHome, LeaveHome, WantRepaint, Phases
  <2>2. home' \in BOOLEAN /\ dirty' \in BOOLEAN
    BY <1>2 DEF EnterHome, LeaveHome, WantRepaint
  <2>3. UNCHANGED <<tail, latchVars, wallVars>>
    BY <1>2 DEF EnterHome, LeaveHome, WantRepaint
  <2> QED BY <2>1, <2>2, <2>3
<1>3. CASE Repaint \/ TrySyncLibrary \/ TryDeliverPendingBookFinished \/ WallpaperSyncFails
  BY <1>1, <1>3 DEF Repaint, TrySyncLibrary, TryDeliverPendingBookFinished, WallpaperSyncFails
<1>4. CASE TrySyncWallpapers
  <2>1. CASE checked
    BY <1>4, <2>1 DEF TrySyncWallpapers
  <2>2. CASE ~checked /\ WallpapersDue
    BY <1>1, <1>4, <2>2 DEF TrySyncWallpapers
  <2>3. CASE ~checked /\ ~WallpapersDue
    <3>1. boots' \in 0..MaxBoots
      <4>1. CASE paired /\ boots < MaxBoots
        <5>1. boots + 1 \in 0..MaxBoots /\ (boots + 1) % (MaxBoots + 1) = boots + 1
          BY <4>1, MaxBootsAssumption
        <5> QED BY <1>4, <2>3, <4>1, <5>1 DEF TrySyncWallpapers, CountBoot
      <4>2. CASE ~(paired /\ boots < MaxBoots)
        BY <1>4, <2>3, <4>2 DEF TrySyncWallpapers, CountBoot
      <4> QED BY <4>1, <4>2
    <3> QED BY <1>4, <2>3, <3>1 DEF TrySyncWallpapers
  <2> QED BY <2>1, <2>2, <2>3
<1>5. ASSUME NEW more \in BOOLEAN, WallpapersSynced(more) PROVE HomeTypeOK'
  BY <1>5, MaxBootsAssumption, BootIntervalAssumption DEF WallpapersSynced
<1>6. CASE PollLibrarySync
  BY <1>1, <1>6 DEF PollLibrarySync
<1>7. CASE Background
  BY <1>7 DEF Background, homeVars
<1>8. CASE HomeReboot
  BY <1>8 DEF HomeReboot, Phases
<1>9. CASE UNCHANGED allVars
  BY <1>9 DEF allVars, homeVars
<1> QED
  BY <1>2, <1>3, <1>4, <1>5, <1>6, <1>7, <1>8, <1>9 DEF HomeNext, RenderStep

(* The latches and the banner, action by action. *)
LEMMA HomeStepInv == HomeInv /\ [HomeNext]_allVars => HomeInv'
<1> SUFFICES ASSUME HomeInv, [HomeNext]_allVars PROVE HomeInv'
  OBVIOUS
<1>1. LibInv'
  BY HomeStepIsLibStep, LibStepInv DEF HomeInv
<1>2. HomeTypeOK'
  BY HomeTypeStep DEF HomeInv
<1>3. status.generation \in Nat /\ seen \in Nat /\ status'.generation \in Nat
  BY <1>1 DEF HomeInv, LibInv, LibTypeOK, HomeTypeOK, Statuses
<1> SUFFICES (ToldLatch /\ SeenBound /\ TailBelongs /\ BannerIsCurrent)'
  BY <1>1, <1>2 DEF HomeInv
<1>b. told \in Nat /\ handled \in BOOLEAN /\ dirty \in BOOLEAN
  BY DEF HomeInv, HomeTypeOK
<1> USE DEF ToldLatch, SeenBound, TailBelongs, BannerIsCurrent, screenVars, latchVars, wallVars
<1>4. CASE EnterHome \/ LeaveHome \/ WantRepaint
  <2>1. UNCHANGED status
    BY <1>4 DEF EnterHome, LeaveHome, WantRepaint, libVars, workerVars
  <2> QED BY <1>3, <1>4, <2>1 DEF HomeInv, EnterHome, LeaveHome, WantRepaint
<1>5. CASE Repaint \/ TryDeliverPendingBookFinished \/ TrySyncWallpapers \/ WallpaperSyncFails
  <2>1. UNCHANGED status
    BY <1>5 DEF Repaint, TryDeliverPendingBookFinished, TrySyncWallpapers, WallpaperSyncFails,
                libVars, workerVars
  <2> QED
    BY <1>3, <1>5, <2>1 DEF HomeInv, Repaint, TryDeliverPendingBookFinished, TrySyncWallpapers,
                            WallpaperSyncFails
<1>6. CASE TrySyncLibrary
  <2>1. UNCHANGED status
    BY <1>6 DEF TrySyncLibrary, Start, libVars, workerVars
  <2> QED BY <1>3, <1>6, <2>1 DEF HomeInv, TrySyncLibrary
<1>7. ASSUME NEW more \in BOOLEAN, WallpapersSynced(more)
      PROVE  (ToldLatch /\ SeenBound /\ TailBelongs /\ BannerIsCurrent)'
  <2>1. UNCHANGED status
    BY <1>7 DEF WallpapersSynced, libVars, workerVars
  <2> QED BY <1>3, <1>7, <2>1 DEF HomeInv, WallpapersSynced
<1>8. CASE PollLibrarySync
  <2>1. UNCHANGED <<status, home, shown, tail, checked>> /\ seen' = status.generation
    BY <1>8 DEF PollLibrarySync, libVars, workerVars
  <2>2. told' \in {0, 1} /\ (told' = 1 => handled')
    <3>1. CASE ~handled /\ status.phase = "Idle" /\ status.ran
      <4>1. told = 0
        BY <3>1 DEF HomeInv
      <4>2. handled' = TRUE /\ told' = IF status.ok THEN told + 1 ELSE told
        BY <1>8, <3>1 DEF PollLibrarySync
      <4> QED BY <4>1, <4>2
    <3>2. CASE ~(~handled /\ status.phase = "Idle" /\ status.ran)
      <4>1. told' = told /\ (handled => handled')
        BY <1>8, <3>2 DEF PollLibrarySync
      <4> QED BY <4>1 DEF HomeInv
    <3> QED BY <3>1, <3>2
  <2>3. dirty' = FALSE => dirty = FALSE /\ seen = status.generation
    BY <1>8, <1>b DEF PollLibrarySync
  <2> QED BY <1>3, <2>1, <2>2, <2>3 DEF HomeInv
<1>9. CASE Background
  <2>1. LibWorkerStep \/ UNCHANGED status
    BY <1>9 DEF Background, WifiChanges, PairingChanges, workerVars
  <2>2. /\ status'.generation >= status.generation
        /\ status'.generation = status.generation => status'.phase = status.phase
    BY <2>1, GenerationMoves DEF HomeInv, LibInv
  <2>3. UNCHANGED <<home, dirty, shown, seen, tail, handled, checked, told>>
    BY <1>9 DEF Background, homeVars
  <2>4. (home /\ ~dirty /\ seen = status.generation => shown = status.phase)'
    BY <1>3, <2>2, <2>3 DEF HomeInv
  <2> QED BY <1>3, <2>2, <2>3, <2>4 DEF HomeInv
<1>10. CASE HomeReboot
  BY <1>3, <1>10 DEF HomeReboot
<1>11. CASE UNCHANGED allVars
  BY <1>3, <1>11 DEF HomeInv, allVars, homeVars, libVars, workerVars
<1> QED
  BY <1>4, <1>5, <1>6, <1>7, <1>8, <1>9, <1>10, <1>11 DEF HomeNext, RenderStep

-----------------------------------------------------------------------------
(* The theorems about the home screen. *)

(* The invariant holds in every reachable state. *)
THEOREM HomeInvariance == HomeSpec => []HomeInv
<1>1. HomeInit => HomeInv
  BY HomeInitInv
<1>2. HomeInv /\ [HomeNext]_allVars => HomeInv'
  BY HomeStepInv
<1> QED BY <1>1, <1>2, PTL DEF HomeSpec

(* The home screen's steps, and those of its render pass, implement LibrarySync: what
   is proved of the worker holds however the screen starts it. *)
THEOREM HomeImplementsLibrarySync == HomeSpec => LibSpec
<1>1. HomeInit => LibInit
  BY DEF HomeInit
<1>2. [HomeNext]_allVars => [LibNext]_libVars
  BY HomeStepIsLibStep
<1> QED BY <1>1, <1>2, PTL DEF HomeSpec, LibSpec

(* One search and one fetch per boot, although every repaint asks for them. *)
THEOREM HomeAttemptsOnce == HomeSpec => []OncePerBoot
BY HomeImplementsLibrarySync, AttemptsOnce, PTL

(* The counters on the card and the latches keep their types. *)
THEOREM HomeTypeCorrect == HomeSpec => [](LibTypeOK /\ HomeTypeOK)
<1>1. HomeInv => LibTypeOK /\ HomeTypeOK
  BY DEF HomeInv, LibInv
<1> QED BY <1>1, HomeInvariance, PTL

(* The count of boots is kept in sixteen bits, over thousands of boots: in no order of
   boots, checks and failed syncs does it fall below the interval before a sync of the
   wallpapers has succeeded. *)
THEOREM WallpapersStayDue == HomeSpec => DueUntilSynced
<1>1. ASSUME HomeInv, [HomeNext]_allVars
      PROVE  [WallpaperCountKept]_allVars
  <2> SUFFICES ASSUME ~UNCHANGED allVars PROVE WallpaperCountKept
    OBVIOUS
  <2>t. boots \in 0..MaxBoots
    BY <1>1 DEF HomeInv, HomeTypeOK
  <2>1. CASE EnterHome \/ LeaveHome \/ WantRepaint \/ PollLibrarySync
    BY <2>1 DEF EnterHome, LeaveHome, WantRepaint, PollLibrarySync, wallVars, WallpaperCountKept
  <2>2. CASE RenderStep
    <3>1. CASE Repaint \/ TrySyncLibrary \/ TryDeliverPendingBookFinished \/ WallpaperSyncFails
      BY <3>1 DEF Repaint, TrySyncLibrary, TryDeliverPendingBookFinished, WallpaperSyncFails,
                  wallVars, WallpaperCountKept
    <3>2. CASE TrySyncWallpapers
      <4>1. CASE checked \/ WallpapersDue
        BY <3>2, <4>1 DEF TrySyncWallpapers, wallVars, WallpaperCountKept
      <4>2. CASE ~checked /\ ~WallpapersDue
        <5>1. CountBoot
          BY <3>2, <4>2 DEF TrySyncWallpapers
        <5>2. CASE paired /\ boots < MaxBoots
          <6>1. (boots + 1) % (MaxBoots + 1) = boots + 1
            BY <2>t, <5>2, MaxBootsAssumption
          <6>2. boots' = boots + 1
            BY <5>1, <5>2, <6>1 DEF CountBoot
          <6> QED BY <2>t, <6>2, BootIntervalAssumption DEF WallpaperCountKept
        <5>3. CASE ~(paired /\ boots < MaxBoots)
          BY <5>1, <5>3 DEF CountBoot, WallpaperCountKept
        <5> QED BY <5>2, <5>3
      <4> QED BY <4>1, <4>2
    <3>3. ASSUME NEW more \in BOOLEAN, WallpapersSynced(more) PROVE WallpaperCountKept
      BY <3>3 DEF WallpapersSynced, WallpaperCountKept
    <3> QED BY <2>2, <3>1, <3>2, <3>3 DEF RenderStep
  <2>3. CASE Background
    BY <2>3 DEF Background, homeVars, wallVars, WallpaperCountKept
  <2>4. CASE HomeReboot
    BY <2>4 DEF HomeReboot, WallpaperCountKept
  <2> QED BY <1>1, <2>1, <2>2, <2>3, <2>4 DEF HomeNext
<1> QED BY <1>1, HomeInvariance, PTL DEF HomeSpec, DueUntilSynced

(* The discovery of new books runs at most once per boot. *)
THEOREM HomeDiscoversOnce == HomeSpec => []DiscoveredOnce
<1>1. HomeInv => DiscoveredOnce
  BY DEF HomeInv, ToldLatch, DiscoveredOnce
<1> QED BY <1>1, HomeInvariance, PTL

(* With nothing to poll and no repaint due, the banner shows the sync's phase. *)
THEOREM BannerStaysCurrent == HomeSpec => []BannerIsCurrent
<1>1. HomeInv => BannerIsCurrent
  BY DEF HomeInv
<1> QED BY <1>1, HomeInvariance, PTL

=============================================================================
