-------------------------- MODULE ActivityManager --------------------------
(***************************************************************************)
(* The screens of src/activities/ActivityManager.cpp: a current activity, a *)
(* stack below it, one pending navigation, and two tasks: the loop task     *)
(* runs the activity and carries out the navigation, the render task paints *)
(* whatever is current when it is notified.  Both change or use the current *)
(* activity under the rendering mutex only.                                 *)
(*                                                                          *)
(* One action of the loop task is what it does between two releases of that *)
(* mutex, or one callback of an activity (loop, onEnter, a result handler), *)
(* which asks for at most one thing.                                        *)
(***************************************************************************)
EXTENDS Naturals, Sequences

CONSTANTS MaxDepth   \* bound on the activities stacked under the current one

ASSUME MaxDepthAssumption == MaxDepth \in Nat

VARIABLES cur,        \* currentActivity
          stack,      \* stackActivities, the last one on top
          pending,    \* pendingAction and pendingActivity
          requested,  \* requestedUpdate
          notified,   \* the render task's notification count is not zero
          waiter,     \* waitingTaskHandle is set (only the loop task ever waits)
          woken,      \* the loop task's own notification count is not zero
          loop,       \* where the loop task is
          render,     \* where the render task is; "paint" and "empty" hold the mutex
          asleep,     \* enterDeepSleep() called goToSleep()
          screen,     \* what is on the panel: an activity's id
          wanted      \* history: an update asked for and not painted since

vars == <<cur, stack, pending, requested, notified, waiter, woken, loop, render,
          asleep, screen, wanted>>
activities == <<cur, stack, pending>>
signals == <<requested, notified, waiter, woken>>

\* A kind is home, app, panel, usb or sleep.
Ids == 1..(MaxDepth + 4)

\* asked: it was started for a result; handler: it waits for one.
New(id, kind, asked) == [id |-> id, kind |-> kind, asked |-> asked, handler |-> FALSE]
NoActivity == [id |-> 0, kind |-> "none", asked |-> FALSE, handler |-> FALSE]

NoPending == [action |-> "None", activity |-> NoActivity]

InUse == {cur.id, pending.activity.id, screen} \cup {stack[i].id : i \in DOMAIN stack}
FreshId == CHOOSE id \in Ids : id \notin InUse

Init ==
    /\ cur = New(1, "home", FALSE)
    /\ stack = <<>>
    /\ pending = NoPending
    /\ requested = TRUE /\ notified = FALSE /\ waiter = FALSE /\ woken = FALSE
    /\ loop = "top" /\ render = "wait" /\ asleep = FALSE
    /\ screen = 0 /\ wanted = TRUE

MutexFree == render \notin {"paint", "empty"}

-----------------------------------------------------------------------------
(* What a callback may ask for. *)

RequestUpdate == requested' = TRUE /\ wanted' = TRUE /\ UNCHANGED <<activities, notified>>
RequestUpdateNow == notified' = TRUE /\ wanted' = TRUE /\ UNCHANGED <<activities, requested>>
AskNothing == UNCHANGED <<activities, requested, notified, wanted>>

\* replaceActivity() with a current activity, pushActivity() and popActivity():
\* the last request wins, and an activity still pending is dropped.
Pend(action, activity) ==
    /\ pending' = [action |-> action, activity |-> activity]
    /\ UNCHANGED stack

Replace(kind) == Pend("Replace", New(FreshId, kind, FALSE)) /\ UNCHANGED cur

StartActivityForResult ==
    /\ Len(stack) < MaxDepth
    /\ cur' = [cur EXCEPT !.handler = TRUE]
    /\ Pend("Push", New(FreshId, "app", TRUE))

Finish == Pend("Pop", NoActivity) /\ UNCHANGED cur

Navigation ==
    Replace("home") \/ Replace("app") \/ Replace("usb") \/ StartActivityForResult \/ Finish

Ask == \/ RequestUpdate \/ RequestUpdateNow \/ AskNothing
       \/ Navigation /\ UNCHANGED <<requested, notified, wanted>>

-----------------------------------------------------------------------------
(* The loop task. *)

\* A release that must not count: the whole pass is skipped.
SuppressedRelease ==
    /\ loop = "top"
    /\ loop' = IF asleep THEN "off" ELSE "top"
    /\ UNCHANGED <<activities, signals, render, asleep, screen, wanted>>

\* One touch is one gesture: the pass that follows it runs the activity.
HomeGesture ==
    /\ loop = "top"
    /\ pending.action = "None" \/ asleep
    /\ cur.kind \notin {"home", "usb"}
    /\ \/ Replace("home") /\ UNCHANGED <<requested, notified, wanted>>
       \/ RequestUpdate   \* handleHomeGesture() took it
    /\ loop' = IF asleep THEN "off" ELSE "top"
    /\ UNCHANGED <<waiter, woken, render, asleep, screen>>

PanelGesture ==
    /\ loop = "top"
    /\ pending.action = "None" \/ asleep
    /\ cur.kind \notin {"panel", "usb"}
    /\ Len(stack) < MaxDepth
    /\ Pend("Push", New(FreshId, "panel", FALSE))
    /\ loop' = IF asleep THEN "off" ELSE "top"
    /\ UNCHANGED <<cur, signals, render, asleep, screen, wanted>>

\* currentActivity->loop().
ActivityLoop ==
    /\ loop = "top"
    /\ cur.kind # "usb"
    /\ Ask
    /\ loop' = "pending"
    /\ UNCHANGED <<waiter, woken, render, asleep, screen>>

\* The USB drive owns the card: its loop() runs, no navigation is carried out.
ExclusiveLoop ==
    /\ loop = "top"
    /\ cur.kind = "usb"
    /\ RequestUpdate \/ AskNothing
    /\ loop' = "flush"
    /\ UNCHANGED <<waiter, woken, render, asleep, screen>>

\* loop() asks for a render and blocks.
RequestUpdateAndWait ==
    /\ loop = "top"
    /\ cur.kind # "usb"
    /\ waiter' = TRUE
    /\ loop' = "ask"
    /\ UNCHANGED <<activities, requested, notified, woken, render, asleep, screen, wanted>>

\* Mutant: the request is left to the end of the pass, which never comes.
RequestAndWait ==
    /\ loop = "ask"
    /\ requested' = TRUE
    /\ wanted' = TRUE
    /\ loop' = "waiting"
    /\ UNCHANGED <<activities, notified, waiter, woken, render, asleep, screen>>

NotifyAndWait ==
    /\ loop = "ask"
    /\ notified' = TRUE
    /\ wanted' = TRUE
    /\ loop' = "waiting"
    /\ UNCHANGED <<activities, requested, waiter, woken, render, asleep, screen>>

Woken ==
    /\ loop = "waiting"
    /\ woken
    /\ woken' = FALSE
    /\ loop' = "pending"
    /\ UNCHANGED <<activities, requested, notified, waiter, render, asleep, screen, wanted>>

\* goHome() once the mutex is released, with no current activity.
PopLast ==
    /\ loop = "pending"
    /\ pending.action = "Pop"
    /\ stack = <<>>
    /\ MutexFree
    /\ cur' = NoActivity
    /\ pending' = NoPending
    /\ loop' = "launch"
    /\ UNCHANGED <<stack, signals, render, asleep, screen, wanted>>

LaunchHome ==
    /\ loop = "launch"
    /\ cur' = New(FreshId, "home", FALSE)
    /\ loop' = "enter"
    /\ UNCHANGED <<stack, pending, signals, render, asleep, screen, wanted>>

\* Mutant: the result handler is called and kept.
PopKeepsHandler ==
    /\ loop = "pending"
    /\ pending.action = "Pop"
    /\ stack # <<>>
    /\ MutexFree
    /\ LET below == stack[Len(stack)] IN
         /\ cur' = below
         /\ stack' = SubSeq(stack, 1, Len(stack) - 1)
         /\ loop' = IF below.handler THEN "handler" ELSE "popped"
    /\ pending' = NoPending
    /\ UNCHANGED <<signals, render, asleep, screen, wanted>>

Pop ==
    /\ loop = "pending"
    /\ pending.action = "Pop"
    /\ stack # <<>>
    /\ MutexFree
    /\ LET below == stack[Len(stack)] IN
         /\ cur' = [below EXCEPT !.handler = FALSE]
         /\ stack' = SubSeq(stack, 1, Len(stack) - 1)
         /\ loop' = IF below.handler THEN "handler" ELSE "popped"
    /\ pending' = NoPending
    /\ UNCHANGED <<signals, render, asleep, screen, wanted>>

ResultHandler ==
    /\ loop = "handler"
    /\ Ask
    /\ loop' = "popped"
    /\ UNCHANGED <<waiter, woken, render, asleep, screen>>

\* Mutant: the activity below is not painted again.
PoppedUnpainted ==
    /\ loop = "popped"
    /\ AskNothing
    /\ loop' = "pending"
    /\ UNCHANGED <<waiter, woken, render, asleep, screen>>

Popped ==
    /\ loop = "popped"
    /\ IF pending.action = "None" THEN RequestUpdate
       ELSE AskNothing
    /\ loop' = "pending"
    /\ UNCHANGED <<waiter, woken, render, asleep, screen>>

ReplaceOrPush ==
    /\ loop = "pending"
    /\ pending.action \in {"Replace", "Push"}
    /\ MutexFree
    /\ stack' = IF pending.action = "Push" THEN Append(stack, cur) ELSE <<>>
    /\ cur' = pending.activity
    /\ pending' = NoPending
    /\ loop' = "enter"
    /\ UNCHANGED <<signals, render, asleep, screen, wanted>>

\* onEnter(), with the mutex released: every activity asks for an update,
\* the sleep screen paints itself; it may ask for a navigation too.
OnEnter ==
    /\ loop = "enter"
    /\ IF cur.kind = "sleep"
       THEN /\ MutexFree
            /\ screen' = cur.id
            /\ AskNothing
       ELSE /\ requested' = TRUE
            /\ wanted' = TRUE
            /\ UNCHANGED activities \/ (cur.kind = "app" /\ Navigation)
            /\ UNCHANGED <<notified, screen>>
    /\ loop' = "pending"
    /\ UNCHANGED <<waiter, woken, render, asleep>>

NothingPending ==
    /\ loop = "pending"
    /\ pending.action = "None"
    /\ loop' = "flush"
    /\ UNCHANGED <<activities, signals, render, asleep, screen, wanted>>

\* Mutant: a notification sent during a repaint is lost.
FlushWhenIdle ==
    /\ loop = "flush"
    /\ notified' = (notified \/ (requested /\ render = "wait"))
    /\ requested' = FALSE
    /\ loop' = IF asleep THEN "off" ELSE "top"
    /\ UNCHANGED <<activities, waiter, woken, render, asleep, screen, wanted>>

Flush ==
    /\ loop = "flush"
    /\ notified' = (notified \/ requested)
    /\ requested' = FALSE
    /\ loop' = IF asleep THEN "off" ELSE "top"
    /\ UNCHANGED <<activities, waiter, woken, render, asleep, screen, wanted>>

\* enterDeepSleep(): goToSleep() replaces the activity and runs loop() itself.
GoToSleep ==
    /\ loop = "top"
    /\ ~asleep
    /\ cur.kind # "usb"
    /\ asleep' = TRUE
    /\ Replace("sleep")
    /\ UNCHANGED <<signals, loop, render, screen, wanted>>

-----------------------------------------------------------------------------
(* The render task. *)

TakeNotification ==
    /\ render = "wait"
    /\ notified
    /\ notified' = FALSE
    /\ render' = "lock"
    /\ UNCHANGED <<activities, requested, waiter, woken, loop, asleep, screen, wanted>>

\* The current activity is read with the mutex held; with none, the mutex is
\* kept until the waiter has been signalled.
BeginRender ==
    /\ render = "lock"
    /\ render' = IF cur = NoActivity THEN "empty" ELSE "paint"
    /\ wanted' = FALSE
    /\ UNCHANGED <<activities, signals, loop, asleep, screen>>

\* render() may itself ask for another update.
EndRender ==
    /\ render = "paint"
    /\ screen' = cur.id
    /\ \/ requested' = TRUE /\ wanted' = TRUE
       \/ UNCHANGED <<requested, wanted>>
    /\ render' = "signal"
    /\ UNCHANGED <<activities, notified, waiter, woken, loop, asleep>>

\* Mutant: the waiter's handle is not taken back.
SignalKeepsWaiter ==
    /\ render \in {"signal", "empty"}
    /\ woken' = (woken \/ waiter)
    /\ render' = "wait"
    /\ UNCHANGED <<activities, requested, notified, waiter, loop, asleep, screen, wanted>>

SignalWaiter ==
    /\ render \in {"signal", "empty"}
    /\ waiter' = FALSE
    /\ woken' = (woken \/ waiter)
    /\ render' = "wait"
    /\ UNCHANGED <<activities, requested, notified, loop, asleep, screen, wanted>>

\* Power is cut, or a USB drive session ends in a restart.
PowerOff ==
    /\ loop = "off" \/ cur.kind = "usb"
    /\ cur' = New(FreshId, "home", FALSE)
    /\ stack' = <<>> /\ pending' = NoPending
    /\ requested' = TRUE /\ notified' = FALSE /\ waiter' = FALSE /\ woken' = FALSE
    /\ loop' = "top" /\ render' = "wait" /\ asleep' = FALSE
    /\ screen' = 0 /\ wanted' = TRUE

Navigate == \/ PopLast \/ LaunchHome \/ Pop \/ ResultHandler \/ Popped
            \/ ReplaceOrPush \/ OnEnter \/ NothingPending \/ Flush
Wait == NotifyAndWait \/ Woken
RenderStep == TakeNotification \/ BeginRender \/ EndRender \/ SignalWaiter

Next == \/ SuppressedRelease \/ HomeGesture \/ PanelGesture \/ ActivityLoop \/ ExclusiveLoop
        \/ RequestUpdateAndWait \/ Wait \/ Navigate \/ GoToSleep \/ RenderStep \/ PowerOff

Spec == Init /\ [][Next]_vars

(* Both tasks are scheduled again and again; not every pass of the loop task meets a
   gesture or a suppressed release, and not every onEnter() navigates on. *)
Fairness ==
    /\ WF_vars(RenderStep)
    /\ WF_vars(Wait \/ Navigate) /\ SF_vars(OnEnter /\ UNCHANGED pending)
    /\ SF_vars(ActivityLoop) /\ SF_vars(ExclusiveLoop) /\ WF_vars(PowerOff /\ loop = "off")
FairSpec == Spec /\ Fairness
-----------------------------------------------------------------------------
(* Properties. *)

(* When both tasks have nothing left to do, the panel shows the current activity in
   its latest state: no order of navigation, request and repaint leaves a dead screen
   standing or loses a request. *)
SettledPanelIsCurrent ==
    loop = "top" /\ ~requested /\ ~notified /\ render = "wait" =>
        screen = cur.id /\ ~wanted

(* A result reaches the activity that asked for it and no other: an activity below
   waits for a result exactly when the one above it was started for one. *)
ResultsReachTheAsker ==
    /\ \A i \in DOMAIN stack :
          stack[i].handler = IF i < Len(stack) THEN stack[i + 1].asked ELSE cur.asked
    /\ cur.handler => pending.activity.asked

(* A wake-up is neither lost nor left over: the loop task is blocked only while its
   handle is registered or its notification is there, and none outlives the wait. *)
WakeupsPair ==
    /\ loop = "waiting" => waiter \/ woken
    /\ loop \notin {"ask", "waiting"} => ~waiter /\ ~woken

(* Every requested update is painted as long as the device is not restarted over and over:
   a request made with requestUpdate() by a callback is not left to the next touch. *)
UpdatesAreShown == <>[][~PowerOff]_vars => (wanted ~> ~wanted)

(* requestUpdateAndWait() does not hang: the loop task always gets to go on. *)
WaitEnds == (loop = "waiting") ~> (loop # "waiting")
=============================================================================
