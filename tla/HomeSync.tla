------------------------------ MODULE HomeSync ------------------------------
(***************************************************************************)
(* The home screen's side of the automatic syncs (HomeActivity): the tail   *)
(* of render(), on the render task, which starts the library sync, delivers *)
(* a pending book-finished event and runs the wallpaper sync; and the poll, *)
(* on the loop task, which shows the library sync's phase and hands its     *)
(* result over to the discovery of new books, once per boot.                *)
(*                                                                          *)
(* The library worker of LibrarySync runs between any two of these steps.   *)
(***************************************************************************)
EXTENDS LibrarySync

CONSTANTS MaxBoots   \* UINT16_MAX, the boot counter's last value

ASSUME MaxBootsAssumption == MaxBoots \in Nat /\ MaxBoots >= BootInterval

VARIABLES home,      \* is a HomeActivity the current one
          dirty,     \* a repaint is requested
          shown,     \* the phase the banner shows
          seen,      \* lastLibrarySyncGeneration
          tail,      \* how far the tail of a render pass is
          handled,   \* librarySyncCompletionHandled
          checked,   \* wallpaperSyncCheckedThisBoot
          boots,     \* bootsSinceWallpaperSync, on the card
          synced,    \* lastSyncedWallpaperRevision, on the card
          used,      \* heartbeatWallpaperRevision, the local of trySyncWallpapers()
          told       \* history: discoveries run since boot

screenVars == <<home, dirty, shown, seen, tail>>
latchVars == <<handled, checked, told>>
wallVars == <<boots, synced, used>>
homeVars == <<screenVars, latchVars, wallVars>>
allVars == <<libVars, homeVars>>

HomeInit ==
    /\ LibInit
    /\ home = FALSE /\ dirty = FALSE /\ shown = "Idle" /\ seen = 0 /\ tail = "none"
    /\ handled = FALSE /\ checked = FALSE
    /\ boots = MaxBoots /\ synced = 0 /\ used = 0
    /\ told = 0

\* Mutant: the hand-over latch is a member, built again with the screen.
EnterHomeAnew ==
    /\ ~home
    /\ home' = TRUE
    /\ dirty' = TRUE
    /\ seen' = status.generation
    /\ handled' = FALSE
    /\ UNCHANGED <<libVars, shown, tail, checked, told, wallVars>>

EnterHome ==
    /\ ~home
    /\ home' = TRUE
    /\ dirty' = TRUE
    /\ seen' = status.generation
    /\ UNCHANGED <<libVars, shown, tail, latchVars, wallVars>>

\* The current activity is only replaced between two render passes; its members
\* and its picture go with it.
LeaveHome ==
    /\ home
    /\ tail = "none"
    /\ home' = FALSE
    /\ dirty' = FALSE /\ shown' = "Idle" /\ seen' = 0
    /\ UNCHANGED <<libVars, tail, latchVars, wallVars>>

\* A button, or the download queue's poll.
WantRepaint ==
    /\ home
    /\ ~dirty
    /\ dirty' = TRUE
    /\ UNCHANGED <<libVars, home, shown, seen, tail, latchVars, wallVars>>

-----------------------------------------------------------------------------
(* render() *)

\* The banner is drawn first; the first passes of a visit go to the covers and
\* have no tail.
Repaint ==
    /\ home
    /\ dirty
    /\ tail = "none"
    /\ dirty' = FALSE
    /\ shown' = status.phase
    /\ tail' \in {"none", "start"}
    /\ UNCHANGED <<libVars, home, seen, latchVars, wallVars>>

TrySyncLibrary ==
    /\ tail = "start"
    /\ Start \/ UNCHANGED libVars
    /\ tail' = "deliver"
    /\ UNCHANGED <<home, dirty, shown, seen, latchVars, wallVars>>

\* A blocking request at most; what it delivers is not this module's.
TryDeliverPendingBookFinished ==
    /\ tail = "deliver"
    /\ tail' = "wallpapers"
    /\ UNCHANGED <<libVars, home, dirty, shown, seen, latchVars, wallVars>>

WallpapersDue == ShouldSyncWallpapers(paired, wifi, boots, status.revision, synced)

CountBoot == boots' = IF paired /\ boots < MaxBoots THEN (boots + 1) % (MaxBoots + 1) ELSE boots

TrySyncWallpapers ==
    /\ tail = "wallpapers"
    /\ IF checked
       THEN tail' = "none" /\ UNCHANGED <<checked, wallVars>>
       ELSE /\ checked' = TRUE
            /\ UNCHANGED synced
            /\ IF WallpapersDue
               THEN tail' = "sync" /\ used' = status.revision /\ UNCHANGED boots
               ELSE tail' = "none" /\ CountBoot /\ UNCHANGED used
    /\ UNCHANGED <<libVars, home, dirty, shown, seen, handled, told>>

\* wallpaper_sync::sync() returns, and a repaint wipes its popup.
WallpaperSyncFails ==
    /\ tail = "sync"
    /\ tail' = "none"
    /\ dirty' = TRUE
    /\ used' = 0
    /\ UNCHANGED <<libVars, home, shown, seen, latchVars, boots, synced>>

WallpapersSynced(moreWorkPending) ==
    /\ tail = "sync"
    /\ boots' = IF moreWorkPending THEN BootInterval ELSE 0
    /\ synced' = used /\ used' = 0
    /\ tail' = "none"
    /\ dirty' = TRUE
    /\ UNCHANGED <<libVars, home, shown, seen, latchVars>>

-----------------------------------------------------------------------------
(* loop() *)

\* Mutant: a phase change is noted and not painted.
PollPaintsResults ==
    /\ home
    /\ LET moved == status.generation # seen
           done == ~handled /\ status.phase = "Idle" /\ status.ran
       IN /\ moved \/ done
          /\ seen' = status.generation
          /\ handled' = (handled \/ done)
          /\ told' = IF done /\ status.ok THEN told + 1 ELSE told
          /\ dirty' = (dirty \/ (done /\ status.ok))
    /\ UNCHANGED <<libVars, home, shown, tail, checked, wallVars>>

\* Mutant: nothing is handed over unless the generation moved.
PollOnChange ==
    /\ home
    /\ LET moved == status.generation # seen
           done == ~handled /\ status.phase = "Idle" /\ status.ran
       IN /\ moved
          /\ seen' = status.generation
          /\ handled' = (handled \/ done)
          /\ told' = IF done /\ status.ok THEN told + 1 ELSE told
          /\ dirty' = TRUE
    /\ UNCHANGED <<libVars, home, shown, tail, checked, wallVars>>

PollLibrarySync ==
    /\ home
    /\ LET moved == status.generation # seen
           done == ~handled /\ status.phase = "Idle" /\ status.ran
       IN /\ moved \/ done
          /\ seen' = status.generation
          /\ handled' = (handled \/ done)
          /\ told' = IF done /\ status.ok THEN told + 1 ELSE told
          /\ dirty' = (dirty \/ moved \/ (done /\ status.ok))
    /\ UNCHANGED <<libVars, home, shown, tail, checked, wallVars>>

\* The back-off is not touched by others here: it only decides whether the
\* worker's one search is skipped.
Background ==
    /\ LibWorkerStep \/ WifiChanges \/ PairingChanges
    /\ UNCHANGED homeVars

HomeReboot ==
    /\ LibReboot
    /\ home' = FALSE /\ dirty' = FALSE /\ shown' = "Idle" /\ seen' = 0 /\ tail' = "none"
    /\ handled' = FALSE /\ checked' = FALSE /\ used' = 0 /\ told' = 0
    /\ UNCHANGED <<boots, synced>>

RenderStep ==
    \/ Repaint \/ TrySyncLibrary \/ TryDeliverPendingBookFinished \/ TrySyncWallpapers
    \/ WallpaperSyncFails \/ \E more \in BOOLEAN : WallpapersSynced(more)

HomeNext ==
    \/ EnterHome \/ LeaveHome \/ WantRepaint
    \/ RenderStep \/ PollLibrarySync \/ Background \/ HomeReboot

HomeSpec == HomeInit /\ [][HomeNext]_allVars

(* Both tasks run whenever they have something to do; the worker as in LibrarySync. *)
HomeFairness ==
    /\ WF_allVars(RenderStep)
    /\ WF_allVars(PollLibrarySync)
    /\ WF_allVars(LibWorkerStep /\ UNCHANGED homeVars)
HomeFairSpec == HomeSpec /\ HomeFairness
-----------------------------------------------------------------------------
(* Properties. *)

(* The discovery of new books runs at most once per boot, although HomeActivity is
   destroyed and built again at any moment of the sync. *)
DiscoveredOnce == told <= 1

(* With nothing left to poll and no repaint due, the banner shows the sync's phase:
   no interleaving of worker, poll and repaint leaves an old one standing. *)
BannerIsCurrent == home /\ ~dirty /\ seen = status.generation => shown = status.phase

(* A wallpaper sync that has come due by the count of boots stays due, over reboots, failed
   attempts, unpairing and boots without Wi-Fi, until one succeeds: only its receipt, which
   is the fingerprint read before the sync began, brings the count back. *)
WallpaperCountKept ==
    boots >= BootInterval =>
        \/ boots' >= BootInterval
        \/ tail = "sync" /\ tail' = "none" /\ synced' = used
DueUntilSynced == [][WallpaperCountKept]_allVars

(* A sync that succeeded is handed to the discovery, if the reader stays on Home,
   although another worker may be started in between and hide the idle phase. *)
SyncIsHandedOver ==
    (status.ran /\ home) ~> (handled \/ ~home \/ ~status.ran)

=============================================================================
