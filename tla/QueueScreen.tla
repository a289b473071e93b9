---------------------------- MODULE QueueScreen ----------------------------
(***************************************************************************)
(* A screen that shows each book's download status: the queue calls nobody  *)
(* back, so FileBrowserActivity builds its rows once when it is entered and *)
(* then polls pulse() on every pass of the loop task, rebuilding when one   *)
(* of the two counters moved.  HomeActivity follows the same steps.         *)
(*                                                                          *)
(* The screen runs on the loop task, which is also the one that enqueues    *)
(* and cancels; the worker task runs between any two of its steps.          *)
(***************************************************************************)
EXTENDS DownloadQueue

VARIABLES scr,     \* where the screen is: "off", "list", "snap", "seed" or "live"
          rows,    \* what it shows: the files listed and the queue's entries
          seen,    \* lastPulseGeneration and lastPulseCompletions
          polled   \* history: what polls have rebuilt: "nothing", "rows" or "files"

screenVars == <<scr, rows, seen, polled>>
allVars == <<vars, screenVars>>

Pulse == <<q.generation, q.completions>>
NoRows == [files |-> {}, queue |-> <<>>]
OnCard == {id \in Ids : book[id] = "complete"}

ScreenInit == Init /\ scr = "off" /\ rows = NoRows /\ seen = <<0, 0>> /\ polled = "nothing"

\* onEnter(): loadFiles() lists the folder and then, in rebuildRowItems(), the
\* queue; the counters are read after that.
Enter ==
    /\ scr = "off"
    /\ ui = NoId
    /\ scr' = "list"
    /\ polled' = "nothing"
    /\ UNCHANGED <<vars, rows, seen>>

LoadFiles ==
    /\ scr = "list"
    /\ rows' = [rows EXCEPT !.files = OnCard]
    /\ scr' = "snap"
    /\ UNCHANGED <<vars, seen, polled>>

\* Mutant: every rebuild reads the counters again once the rows are built.
RebuildThenSeed ==
    /\ scr = "snap"
    /\ rows' = [rows EXCEPT !.queue = View(q)]
    /\ scr' = "seed"
    /\ UNCHANGED <<vars, seen, polled>>

RebuildRowItems ==
    /\ scr = "snap"
    /\ rows' = [rows EXCEPT !.queue = View(q)]
    /\ scr' = IF polled = "nothing" THEN "seed" ELSE "live"
    /\ UNCHANGED <<vars, seen, polled>>

SeedPulse ==
    /\ scr = "seed"
    /\ seen' = Pulse
    /\ scr' = "live"
    /\ UNCHANGED <<vars, rows, polled>>

\* Mutant: a completion rebuilds the rows without listing the folder.
PollIgnoresCompletions ==
    /\ scr = "live"
    /\ ui = NoId
    /\ Pulse # seen
    /\ seen' = Pulse
    /\ scr' = "snap"
    /\ polled' = IF Pulse[2] # seen[2] THEN "files"
                 ELSE IF polled = "nothing" THEN "rows" ELSE polled
    /\ UNCHANGED <<vars, rows>>

PollDownloadQueue ==
    /\ scr = "live"
    /\ ui = NoId
    /\ Pulse # seen
    /\ seen' = Pulse
    /\ scr' = IF Pulse[2] # seen[2] THEN "list" ELSE "snap"
    /\ polled' = IF Pulse[2] # seen[2] THEN "files"
                 ELSE IF polled = "nothing" THEN "rows" ELSE polled
    /\ UNCHANGED <<vars, rows>>

Leave ==
    /\ scr = "live"
    /\ ui = NoId
    /\ scr' = "off"
    /\ rows' = NoRows
    /\ UNCHANGED <<vars, seen, polled>>

\* The loop task does one thing at a time.
LoopTaskFree == scr \in {"off", "live"}

QueueStep ==
    /\ \/ UiStep /\ LoopTaskFree
       \/ (\E t \in Tasks : WorkerStep(t)) \/ SafetyFlips
    /\ UNCHANGED screenVars

ScreenReboot ==
    /\ Reboot
    /\ scr' = "off" /\ rows' = NoRows /\ seen' = <<0, 0>> /\ polled' = "nothing"

ScreenNext ==
    \/ Enter \/ LoadFiles \/ RebuildRowItems \/ SeedPulse \/ PollDownloadQueue \/ Leave
    \/ QueueStep \/ ScreenReboot

ScreenSpec == ScreenInit /\ [][ScreenNext]_allVars
-----------------------------------------------------------------------------
Settled == scr = "live" /\ seen = Pulse

(* A screen that has polled once and has nothing left to poll shows the queue as it
   is, although the queue moved while the rows were being built.  Before its first poll
   it may not: onEnter() reads the counters after the rows. *)
PolledRowsAreCurrent == Settled /\ polled # "nothing" => rows.queue = View(q)

(* And one that a completion has made list the folder again shows every book on the
   card, save those finish() did not report: none lands unnoticed from then on. *)
PolledFilesAreCurrent ==
    Settled /\ polled = "files" =>
        \A id \in OnCard \ silent :
            id \in rows.files \/ \E t \in Tasks : pc[t] \in Busy /\ job[t].id = id

=============================================================================
