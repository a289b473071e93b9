-------------------------- MODULE SyncWorkersProofs --------------------------
(***************************************************************************)
(* For a queue of any length: who holds which mutex is decided by where the *)
(* tasks are, so the two safety checks are the only circle of waits there   *)
(* can be, and a download and a library fetch overlap in the one gap only.  *)
(***************************************************************************)
EXTENDS SyncWorkers, TLAPS

Places == {"none", "free", "rebuild", "syncNow", "banner", "start", "ask", "pick", "idle",
           "check", "fetch", "finish", "begin", "announceConnect", "connect", "gate",
           "announceSync", "save"}

LocksOk ==
    /\ owner \in [Locks -> Tasks \cup {"nobody"}]
    /\ at \in [Tasks -> Places]

\* The holder of a mutex is where it holds it.
HolderInv ==
    /\ owner["rendering"] = "loop" <=> at["loop"] = "rebuild"
    /\ owner["rendering"] = "draw" <=> at["draw"] \in {"banner", "start", "ask"}
    /\ owner["rendering"] \in {"loop", "draw", "nobody"}
    /\ owner["library"] = IF at["draw"] = "ask" THEN "draw" ELSE "nobody"
    /\ owner["queue"] = IF at["download"] = "check" THEN "download" ELSE "nobody"

\* A download that began beside no library sync keeps new ones from starting.
GapInv == at["download"] = "fetch" /\ at["sync"] # "none" => gap

IInv == LocksOk /\ HolderInv /\ GapInv

-----------------------------------------------------------------------------
LEMMA InitInv == Init => IInv
BY DEF Init, IInv, LocksOk, HolderInv, GapInv, Tasks, Locks, Places

LEMMA LoopKeeps == IInv /\ LoopStep => IInv'
<1> SUFFICES ASSUME IInv, LoopStep PROVE IInv'
  OBVIOUS
<1> USE DEF IInv, LocksOk, HolderInv, GapInv, Tasks, Locks, Places, Free, Goto, Alive, data
<1>1. CASE Enqueue
  BY <1>1 DEF Enqueue
<1>2. CASE CancelAll
  BY <1>2 DEF CancelAll
<1>3. CASE RebuildSlots
  BY <1>3 DEF RebuildSlots
<1>4. CASE SlotsRebuilt
  BY <1>4 DEF SlotsRebuilt
<1>5. CASE OpenOrCloseBook
  BY <1>5 DEF OpenOrCloseBook
<1>6. CASE SyncNow \/ SyncNowDone
  BY <1>6 DEF SyncNow, SyncNowDone
<1> QED BY <1>1, <1>2, <1>3, <1>4, <1>5, <1>6 DEF LoopStep

LEMMA DrawKeeps == IInv /\ DrawStep => IInv'
<1> SUFFICES ASSUME IInv, DrawStep PROVE IInv'
  OBVIOUS
<1> USE DEF IInv, LocksOk, HolderInv, GapInv, Tasks, Locks, Places, Free, Goto, Alive, data, Rendered
<1>1. CASE Render
  BY <1>1 DEF Render
<1>2. CASE DrawBanner
  BY <1>2 DEF DrawBanner
<1>3. CASE StartRefuses
  BY <1>3 DEF StartRefuses
<1>4. CASE StartAsks
  BY <1>4 DEF StartAsks
<1>5. CASE StartAnswered
  BY <1>5 DEF StartAnswered
<1> QED BY <1>1, <1>2, <1>3, <1>4, <1>5 DEF DrawStep

LEMMA DownloadKeeps == IInv /\ DownloadStep => IInv'
<1> SUFFICES ASSUME IInv, DownloadStep PROVE IInv'
  OBVIOUS
<1> USE DEF IInv, LocksOk, HolderInv, GapInv, Tasks, Locks, Places, Free, Goto, Alive, data
<1>1. CASE PickFront
  <2>1. CASE UNCHANGED owner
    BY <1>1, <2>1 DEF PickFront
  <2>2. CASE owner' = [owner EXCEPT !["queue"] = "download"] /\ Goto("download", "check")
    BY <1>1, <2>2 DEF PickFront
  <2>3. UNCHANGED owner \/ (owner' = [owner EXCEPT !["queue"] = "download"]
                             /\ Goto("download", "check"))
    BY <1>1 DEF PickFront
  <2> HIDE DEF IInv, LocksOk, HolderInv, GapInv, Tasks, Locks, Places, Free, Goto, Alive, data
  <2> QED BY <2>1, <2>2, <2>3
<1>2. CASE CheckSync
  <2>1. at["download"] = "check" /\ owner' = [owner EXCEPT !["queue"] = "nobody"]
    BY <1>2 DEF CheckSync
  <2>2. \/ at' = [at EXCEPT !["download"] = "fetch"] /\ gap' = (at["sync"] # "none")
        \/ at' = [at EXCEPT !["download"] = "idle"]
    BY <1>2 DEF CheckSync
  <2>3. LocksOk'
    BY <2>1, <2>2
  <2>4. HolderInv'
    BY <2>1, <2>2
  <2>5. GapInv'
    BY <2>1, <2>2
  <2> QED BY <2>3, <2>4, <2>5
<1>3. CASE LookAgain \/ Downloaded
  BY <1>3 DEF LookAgain, Downloaded
<1>4. CASE FinishBook
  BY <1>4 DEF FinishBook
<1> QED BY <1>1, <1>2, <1>3, <1>4 DEF DownloadStep

LEMMA SyncKeeps == IInv /\ SyncStep => IInv'
<1> SUFFICES ASSUME IInv, SyncStep PROVE IInv'
  OBVIOUS
<1> USE DEF IInv, LocksOk, HolderInv, GapInv, Tasks, Locks, Places, Free, Goto, Alive, SetPhase, data
<1>1. CASE Begin
  <2>1. /\ UNCHANGED <<owner, gap>> /\ at["sync"] # "none"
        /\ \/ at' = [at EXCEPT !["sync"] = "announceConnect"]
           \/ at' = [at EXCEPT !["sync"] = "save"]
           \/ at' = [at EXCEPT !["sync"] = "gate"]
           \/ at' = [at EXCEPT !["sync"] = "finish"]
    BY <1>1 DEF Begin
  <2> QED BY <2>1
<1>2. CASE AnnounceConnect
  BY <1>2 DEF AnnounceConnect
<1>3. CASE Connect
  <2>1. /\ UNCHANGED <<owner, gap>> /\ at["sync"] # "none"
        /\ \/ at' = [at EXCEPT !["sync"] = "gate"]
           \/ at' = [at EXCEPT !["sync"] = "save"]
    BY <1>3 DEF Connect
  <2> QED BY <2>1
<1>4. CASE Gate
  BY <1>4 DEF Gate
<1>5. CASE AnnounceSync
  BY <1>5 DEF AnnounceSync
<1>6. CASE Fetched
  <2>1. /\ UNCHANGED <<owner, gap>> /\ at["sync"] # "none"
        /\ \/ at' = [at EXCEPT !["sync"] = "save"]
           \/ at' = [at EXCEPT !["sync"] = "finish"]
    BY <1>6 DEF Fetched
  <2> QED BY <2>1
<1>7. CASE SaveBackoffState
  BY <1>7 DEF SaveBackoffState
<1>8. CASE FinishSync
  BY <1>8 DEF FinishSync
<1> QED BY <1>1, <1>2, <1>3, <1>4, <1>5, <1>6, <1>7, <1>8 DEF SyncStep

LEMMA Invariance == Spec => []IInv
<1>1. IInv /\ WifiChanges => IInv'
  BY DEF WifiChanges, IInv, LocksOk, HolderInv, GapInv
<1>0. IInv /\ Reboot => IInv'
  BY DEF Reboot, IInv, LocksOk, HolderInv, GapInv, Tasks, Locks, Places
<1>2. IInv /\ UNCHANGED vars => IInv'
  BY DEF vars, IInv, LocksOk, HolderInv, GapInv
<1>3. IInv /\ [Next]_vars => IInv'
  BY <1>0, <1>1, <1>2, LoopKeeps, DrawKeeps, DownloadKeeps, SyncKeeps DEF Next
<1> QED BY InitInv, <1>3, PTL DEF Spec

-----------------------------------------------------------------------------
(* The circle of the two safety checks is the only deadlock there can be, and the
   rendering mutex is held in it by the task that asks. *)
THEOREM OneCircle == Spec => []OnlyTheChecksCollide
<1>1. IInv => OnlyTheChecksCollide
  <2> SUFFICES ASSUME IInv, NEW S \in SUBSET Tasks, CircularWait(S)
               PROVE  S = {"draw", "download"} /\ at["draw"] = "ask"
    BY DEF OnlyTheChecksCollide
  <2> USE DEF IInv, LocksOk, HolderInv, Tasks, Locks, Places
  <2>1. \A t \in Tasks, u \in Tasks : WaitsFor(t, u) =>
           \/ t = "loop" /\ u = "download" /\ at["loop"] = "rebuild"
           \/ t = "draw" /\ u = "download" /\ at["draw"] = "ask"
           \/ t = "download" /\ u = "draw" /\ at["draw"] = "ask"
    <3> SUFFICES ASSUME NEW t \in Tasks, NEW u \in Tasks, WaitsFor(t, u)
                 PROVE  \/ t = "loop" /\ u = "download" /\ at["loop"] = "rebuild"
                        \/ t = "draw" /\ u = "download" /\ at["draw"] = "ask"
                        \/ t = "download" /\ u = "draw" /\ at["draw"] = "ask"
      OBVIOUS
    <3>1. CASE t = "loop"
      BY <3>1 DEF WaitsFor, Wants
    <3>2. CASE t = "draw"
      BY <3>2 DEF WaitsFor, Wants
    <3>3. CASE t = "download"
      BY <3>3 DEF WaitsFor, Wants
    <3>4. CASE t = "sync"
      BY <3>4 DEF WaitsFor, Wants
    <3> QED BY <3>1, <3>2, <3>3, <3>4
  <2>2. S # {} /\ \A t \in S : \E u \in S : WaitsFor(t, u)
    BY DEF CircularWait
  <2>3. "draw" \in S /\ "download" \in S /\ at["draw"] = "ask"
    <3>1. PICK t \in S : TRUE
      BY <2>2
    <3>2. PICK u \in S : WaitsFor(t, u)
      BY <2>2
    <3>3. "download" \in S \/ "draw" \in S
      BY <2>1, <3>2
    <3>4. "download" \in S => "draw" \in S /\ at["draw"] = "ask"
      <4> SUFFICES ASSUME "download" \in S PROVE "draw" \in S /\ at["draw"] = "ask"
        OBVIOUS
      <4>1. PICK v \in S : WaitsFor("download", v)
        BY <2>2
      <4> QED BY <2>1, <4>1
    <3>5. "draw" \in S => "download" \in S
      <4> SUFFICES ASSUME "draw" \in S PROVE "download" \in S
        OBVIOUS
      <4>1. PICK v \in S : WaitsFor("draw", v)
        BY <2>2
      <4> QED BY <2>1, <4>1
    <3> QED BY <3>3, <3>4, <3>5
  <2>4. "loop" \notin S
    BY <2>1, <2>2, <2>3
  <2>5. "sync" \notin S
    BY <2>1, <2>2
  <2> QED BY <2>3, <2>4, <2>5
<1> QED BY Invariance, <1>1, PTL

(* A download and a library fetch run at once only if the download began before the
   sync's task had announced itself. *)
THEOREM ChecksKeepApart == Spec => []OverlapOnlyInTheGap
<1>1. IInv => OverlapOnlyInTheGap
  BY DEF IInv, GapInv, OverlapOnlyInTheGap, Talking
<1> QED BY Invariance, <1>1, PTL
=============================================================================
