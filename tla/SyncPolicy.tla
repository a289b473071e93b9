----------------------------- MODULE SyncPolicy -----------------------------
(***************************************************************************)
(* The pure decisions of lib/SyncManifest: when an automatic sync may run   *)
(* (SyncTriggerPolicy) and when a Wi-Fi search is skipped because earlier   *)
(* ones found nothing (SleepWifiBackoffPolicy).                             *)
(***************************************************************************)
EXTENDS Naturals

CONSTANTS MaxSkip,       \* MAX_SKIP
          BootInterval   \* WALLPAPER_SYNC_BOOT_INTERVAL

ASSUME MaxSkipAssumption == MaxSkip \in Nat \ {0}
ASSUME BootIntervalAssumption == BootInterval \in Nat \ {0}

ShouldAutoSync(paired, wifi, tried) == paired /\ wifi /\ ~tried

ShouldAttemptLibraryWifiConnect(paired, wifi, tried) == paired /\ ~wifi /\ ~tried

\* Revision 0 is "unknown": it never gives a reason to sync.
ShouldSyncWallpapers(paired, wifi, boots, revision, synced) ==
    /\ paired /\ wifi
    /\ boots >= BootInterval \/ (revision # 0 /\ revision # synced)

Backoffs == [fails : 0..MaxSkip, skips : 0..MaxSkip]
NoBackoff == [fails |-> 0, skips |-> 0]

ShouldAttempt(b) == b.skips = 0

AfterSkippedAttempt(b) == IF b.skips > 0 THEN [b EXCEPT !.skips = @ - 1] ELSE b

AfterAttempt(b, reached) ==
    IF reached THEN NoBackoff
    ELSE LET fails == IF b.fails < MaxSkip THEN b.fails + 1 ELSE b.fails
         IN [fails |-> fails, skips |-> fails]
=============================================================================
