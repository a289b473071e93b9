----------------------- MODULE ActivityManagerProofs -----------------------
(***************************************************************************)
(* For a stack of any depth: every activity that is there has an identity   *)
(* of its own, the activity under the painter is not replaced, a result     *)
(* reaches the one that asked for it, the two tasks' wake-ups pair, and the *)
(* panel never settles on a screen that is gone.                            *)
(***************************************************************************)
EXTENDS ActivityManager, FiniteSetTheorems, SequenceTheorems, TLAPS

Kinds == {"none", "home", "app", "panel", "usb", "sleep"}
Activities == [id : {0} \cup Ids, kind : Kinds, asked : BOOLEAN, handler : BOOLEAN]
Pendings == [action : {"None", "Replace", "Push", "Pop"}, activity : Activities]
LoopPlaces == {"top", "ask", "waiting", "pending", "launch", "enter", "handler",
               "popped", "flush", "off"}

TypeOK ==
    /\ cur \in Activities
    /\ stack \in Seq(Activities)
    /\ pending \in Pendings
    /\ requested \in BOOLEAN /\ notified \in BOOLEAN
    /\ waiter \in BOOLEAN /\ woken \in BOOLEAN
    /\ loop \in LoopPlaces
    /\ render \in {"wait", "lock", "paint", "empty", "signal"}
    /\ asleep \in BOOLEAN
    /\ screen \in {0} \cup Ids
    /\ wanted \in BOOLEAN

\* What is pending has an activity exactly when it needs one, and fits on the stack.
PendingFits ==
    /\ pending.action \in {"None", "Pop"} => pending.activity = NoActivity
    /\ pending.action \in {"Replace", "Push"} =>
          pending.activity.kind # "none" /\ ~pending.activity.handler
    /\ pending.activity.asked => pending.action = "Push"
    /\ Len(stack) <= MaxDepth
    /\ pending.action = "Push" => Len(stack) < MaxDepth
    /\ loop \in {"launch", "enter", "handler", "flush"} => pending = NoPending

\* Only goHome() runs without a current activity, and never under the painter; the
\* USB drive is alone, with nothing above it and no navigation to leave it.
AlwaysCurrent ==
    /\ cur.kind = "none" <=> loop = "launch"
    /\ cur.kind = "none" => cur = NoActivity /\ stack = <<>> /\ render # "paint"
    /\ cur.kind = "usb" => pending = NoPending /\ loop # "handler"
    /\ \A i \in DOMAIN stack : stack[i].kind \notin {"none", "usb"}

Shape == TypeOK /\ PendingFits /\ AlwaysCurrent

\* The handler of the current activity waits exactly for what is pending, and those
\* below wait for what is above them.
Handlers ==
    /\ cur.handler = pending.activity.asked
    /\ cur.handler => loop \in {"pending", "popped"}
    /\ \A i \in DOMAIN stack :
          stack[i].handler = IF i < Len(stack) THEN stack[i + 1].asked ELSE cur.asked

\* From the registration to the end of the wait, exactly one of the two flags is up.
Wakeups ==
    /\ waiter => ~woken
    /\ loop \in {"ask", "waiting"} <=> waiter \/ woken

\* A request not painted yet is on its way to the painter; a screen that is not the
\* current activity's will be repainted, or is about to be left.
Underway ==
    /\ wanted => requested \/ notified \/ render = "lock"
    /\ \/ screen = cur.id
       \/ requested \/ notified \/ render \in {"lock", "paint"}
       \/ loop \in {"launch", "enter", "handler", "popped"}
       \/ loop = "pending" /\ pending.action # "None"

\* No two activities share an identity, so that "screen = cur.id" says which is shown.
OwnIdentities ==
    /\ loop # "launch" => cur.id \in Ids
    /\ pending.action \in {"Replace", "Push"} =>
          /\ pending.activity.id \in Ids \ {cur.id}
          /\ \A i \in DOMAIN stack : stack[i].id # pending.activity.id
    /\ \A i \in DOMAIN stack :
          /\ stack[i].id \in Ids \ {cur.id}
          /\ \A j \in DOMAIN stack : stack[i].id = stack[j].id => i = j

IInv == Shape /\ Handlers /\ Wakeups /\ Underway /\ OwnIdentities

-----------------------------------------------------------------------------
(* The identities suffice: at most MaxDepth + 3 of the MaxDepth + 4 are in use. *)
LEMMA FreshIsNew ==
    ASSUME TypeOK, Len(stack) <= MaxDepth
    PROVE  FreshId \in Ids /\ FreshId \notin InUse
<1> DEFINE below == {stack[i].id : i \in 1..Len(stack)}
           others == {cur.id, pending.activity.id, screen}
<1>1. DOMAIN stack = 1..Len(stack) /\ Len(stack) \in Nat
  BY DEF TypeOK
<1>2. InUse = others \cup below
  BY <1>1 DEF InUse
<1>3. IsFiniteSet(below) /\ Cardinality(below) <= Len(stack)
  <2>1. IsFiniteSet(1..Len(stack)) /\ Cardinality(1..Len(stack)) = Len(stack)
    <3>1. 1 \in Int /\ Len(stack) \in Int
      BY <1>1
    <3>2. Cardinality(1..Len(stack)) = IF 1 > Len(stack) THEN 0 ELSE Len(stack) - 1 + 1
      BY <3>1, FS_Interval
    <3>3. IsFiniteSet(1..Len(stack))
      BY <3>1, FS_Interval
    <3>4. Cardinality(1..Len(stack)) = Len(stack)
      BY <1>1, <3>2
    <3> QED BY <3>3, <3>4
  <2> DEFINE f == [i \in 1..Len(stack) |-> stack[i].id]
  <2>2. f \in [1..Len(stack) -> below]
    OBVIOUS
  <2>3. f \in Surjection(1..Len(stack), below)
    <3>1. ASSUME NEW id \in below PROVE \E i \in 1..Len(stack) : f[i] = id
      OBVIOUS
    <3> QED BY <2>2, <3>1 DEF Surjection
  <2> QED BY <2>1, <2>3, FS_Surjection
<1>4. IsFiniteSet(others) /\ Cardinality(others) <= 3
  <2>1. IsFiniteSet({}) /\ Cardinality({}) = 0
    BY FS_EmptySet
  <2>2. IsFiniteSet({screen}) /\ Cardinality({screen}) = 1
    BY FS_Singleton
  <2> DEFINE two == {screen} \cup {cur.id}
  <2>3. IsFiniteSet(two) /\ Cardinality(two) \in {1, 2}
    BY <2>2, FS_AddElement
  <2>4. others = two \cup {pending.activity.id}
    OBVIOUS
  <2> HIDE DEF two
  <2>5. /\ IsFiniteSet(two \cup {pending.activity.id})
        /\ Cardinality(two \cup {pending.activity.id}) \in {1, 2, 3}
    <3>1. Cardinality(two \cup {pending.activity.id}) \in {Cardinality(two), Cardinality(two) + 1}
      BY <2>3, FS_AddElement
    <3>2. IsFiniteSet(two \cup {pending.activity.id})
      BY <2>3, FS_AddElement
    <3> QED BY <2>3, <3>1, <3>2
  <2> HIDE DEF others
  <2> QED BY <2>4, <2>5
<1>5. IsFiniteSet(InUse) /\ Cardinality(InUse) <= MaxDepth + 3
  <2>1. /\ IsFiniteSet(others \cup below)
        /\ Cardinality(others \cup below)
             = Cardinality(others) + Cardinality(below) - Cardinality(others \cap below)
    BY <1>3, <1>4, FS_Union
  <2>2. /\ Cardinality(others) \in Nat /\ Cardinality(below) \in Nat
        /\ Cardinality(others \cap below) \in Nat
    BY <1>3, <1>4, FS_CardinalityType, FS_Intersection
  <2> QED BY <1>1, <1>2, <1>3, <1>4, <2>1, <2>2, MaxDepthAssumption
<1>6. IsFiniteSet(Ids) /\ Cardinality(Ids) = MaxDepth + 4
  <2>1. 1 \in Int /\ MaxDepth + 4 \in Int /\ ~(1 > MaxDepth + 4)
    BY MaxDepthAssumption
  <2> QED BY <2>1, FS_Interval, MaxDepthAssumption DEF Ids
<1>7. ~(Ids \subseteq InUse)
  <2> SUFFICES ASSUME Ids \subseteq InUse PROVE FALSE
    OBVIOUS
  <2>1. Cardinality(Ids) <= Cardinality(InUse)
    BY <1>5, FS_Subset
  <2>2. Cardinality(InUse) \in Nat
    BY <1>5, FS_CardinalityType
  <2> QED BY <1>5, <1>6, <2>1, <2>2, MaxDepthAssumption
<1> QED BY <1>7 DEF FreshId

-----------------------------------------------------------------------------
(* What a callback can do: ask for a repaint, or for one navigation. *)

\* A navigation leaves the current activity as it is, but for the handler.
LEMMA NavigationEffect ==
    ASSUME TypeOK, Len(stack) <= MaxDepth, Navigation
    PROVE  /\ stack' = stack
           /\ cur' = cur \/ cur' = [cur EXCEPT !.handler = TRUE]
           /\ cur' \in Activities /\ pending' \in Pendings
           /\ \/ /\ pending'.action = "Replace" /\ cur' = cur
                 /\ \E kind \in {"home", "app", "usb"} :
                       pending'.activity = New(FreshId, kind, FALSE)
              \/ /\ pending'.action = "Push" /\ Len(stack) < MaxDepth
                 /\ cur' = [cur EXCEPT !.handler = TRUE]
                 /\ pending'.activity = New(FreshId, "app", TRUE)
              \/ /\ pending'.action = "Pop" /\ cur' = cur
                 /\ pending'.activity = NoActivity
<1>1. FreshId \in Ids
  BY FreshIsNew
<1>2. ASSUME NEW kind \in Kinds, NEW asked \in BOOLEAN
      PROVE  New(FreshId, kind, asked) \in Activities
  BY <1>1 DEF New, Activities
<1>3. NoActivity \in Activities
  BY DEF NoActivity, Activities, Kinds
<1>4. ASSUME NEW kind \in {"home", "app", "usb"}, Replace(kind)
      PROVE  /\ stack' = stack /\ cur' = cur /\ pending' \in Pendings
             /\ pending'.action = "Replace"
             /\ pending'.activity = New(FreshId, kind, FALSE)
  <2>1. New(FreshId, kind, FALSE) \in Activities
    BY <1>2 DEF Kinds
  <2> QED BY <1>4, <2>1 DEF Replace, Pend, Pendings
<1>5. CASE StartActivityForResult
  <2>1. New(FreshId, "app", TRUE) \in Activities
    BY <1>2 DEF Kinds
  <2>2. [cur EXCEPT !.handler = TRUE] \in Activities
    BY DEF TypeOK, Activities
  <2> QED BY <1>5, <2>1, <2>2 DEF StartActivityForResult, Pend, Pendings
<1>6. CASE Finish
  BY <1>3, <1>6 DEF Finish, Pend, Pendings, TypeOK
<1>7. cur \in Activities
  BY DEF TypeOK
<1> QED BY <1>4, <1>5, <1>6, <1>7 DEF Navigation

LEMMA RequestEffect ==
    ASSUME TypeOK, RequestUpdate \/ RequestUpdateNow \/ AskNothing
    PROVE  /\ UNCHANGED <<cur, stack, pending>>
           /\ requested' \in BOOLEAN /\ notified' \in BOOLEAN /\ wanted' \in BOOLEAN
           /\ requested => requested'
           /\ notified => notified'
           /\ wanted' => wanted \/ requested' \/ notified'
<1>1. /\ requested \in BOOLEAN /\ notified \in BOOLEAN /\ wanted \in BOOLEAN
      /\ UNCHANGED <<cur, stack, pending>>
  BY DEF TypeOK, RequestUpdate, RequestUpdateNow, AskNothing, activities
<1>2. CASE RequestUpdate
  BY <1>1, <1>2 DEF RequestUpdate
<1>3. CASE RequestUpdateNow
  BY <1>1, <1>3 DEF RequestUpdateNow
<1>4. CASE AskNothing
  BY <1>1, <1>4 DEF AskNothing
<1> QED BY <1>2, <1>3, <1>4

LEMMA InitShape == Init => Shape
<1> SUFFICES ASSUME Init PROVE Shape
  OBVIOUS
<1>1. 1 \in Ids
  BY MaxDepthAssumption DEF Ids
<1>2. cur \in Activities
  BY <1>1 DEF Init, New, Activities, Kinds
<1>3. pending \in Pendings
  BY DEF Init, NoPending, NoActivity, Pendings, Activities, Kinds
<1>4. TypeOK
  <2>1. stack \in Seq(Activities) /\ screen \in {0} \cup Ids
    BY DEF Init
  <2> QED BY <1>2, <1>3, <2>1 DEF Init, TypeOK, LoopPlaces
<1>5. PendingFits
  BY MaxDepthAssumption DEF Init, PendingFits, NoPending, NoActivity
<1>6. AlwaysCurrent
  BY DEF Init, AlwaysCurrent, New
<1> QED BY <1>4, <1>5, <1>6 DEF Shape

\* The steps that leave the current activity, the stack and the navigation alone.
QuietLoop == SuppressedRelease \/ RequestUpdateAndWait \/ NotifyAndWait \/ Woken
                \/ NothingPending \/ Flush

LEMMA QuietShape == Shape /\ (QuietLoop \/ RenderStep \/ UNCHANGED vars) => Shape'
<1> SUFFICES ASSUME Shape, QuietLoop \/ RenderStep \/ UNCHANGED vars PROVE Shape'
  OBVIOUS
<1> USE DEF Shape, QuietLoop, RenderStep, activities, signals
<1>1. UNCHANGED <<cur, stack, pending>>
  BY DEF SuppressedRelease, RequestUpdateAndWait, NotifyAndWait, Woken, NothingPending, Flush,
         TakeNotification, BeginRender, EndRender, SignalWaiter, vars
<1>2. TypeOK'
  <2>1. loop' \in LoopPlaces
    BY DEF TypeOK, LoopPlaces, SuppressedRelease, RequestUpdateAndWait, NotifyAndWait, Woken,
           NothingPending, Flush, TakeNotification, BeginRender, EndRender, SignalWaiter, vars
  <2>2. screen' \in {0} \cup Ids
    BY DEF TypeOK, Activities, SuppressedRelease, RequestUpdateAndWait, NotifyAndWait, Woken,
           NothingPending, Flush, TakeNotification, BeginRender, EndRender, SignalWaiter, vars
  <2>3. render' \in {"wait", "lock", "paint", "empty", "signal"}
    BY DEF TypeOK, SuppressedRelease, RequestUpdateAndWait, NotifyAndWait, Woken,
           NothingPending, Flush, TakeNotification, BeginRender, EndRender, SignalWaiter, vars
  <2>4. /\ requested' \in BOOLEAN /\ notified' \in BOOLEAN /\ wanted' \in BOOLEAN
        /\ waiter' \in BOOLEAN /\ woken' \in BOOLEAN /\ asleep' \in BOOLEAN
    BY DEF TypeOK, SuppressedRelease, RequestUpdateAndWait, NotifyAndWait, Woken,
           NothingPending, Flush, TakeNotification, BeginRender, EndRender, SignalWaiter, vars
  <2> QED BY <1>1, <2>1, <2>2, <2>3, <2>4 DEF TypeOK
<1>3. loop' \in {"launch", "enter", "handler", "flush"} => pending = NoPending
  <2>1. CASE NothingPending
    <3>1. pending.action = "None" /\ pending.activity = NoActivity
      BY <2>1 DEF NothingPending, PendingFits
    <3> QED BY <3>1 DEF TypeOK, Pendings, NoPending
  <2>2. CASE SuppressedRelease \/ RequestUpdateAndWait \/ NotifyAndWait \/ Woken \/ Flush
    BY <2>2 DEF SuppressedRelease, RequestUpdateAndWait, NotifyAndWait, Woken, Flush
  <2>3. CASE RenderStep \/ UNCHANGED vars
    BY <2>3 DEF TakeNotification, BeginRender, EndRender, SignalWaiter, vars, PendingFits
  <2> QED BY <2>1, <2>2, <2>3
<1>4. PendingFits'
  BY <1>1, <1>3 DEF PendingFits
<1>5. (loop' = "launch" <=> loop = "launch") /\ (loop' = "handler" => loop = "handler")
  BY DEF SuppressedRelease, RequestUpdateAndWait, NotifyAndWait, Woken, NothingPending, Flush,
         TakeNotification, BeginRender, EndRender, SignalWaiter, vars
<1>6. render' = "paint" => render = "paint" \/ cur # NoActivity
  BY DEF SuppressedRelease, RequestUpdateAndWait, NotifyAndWait, Woken, NothingPending, Flush,
         TakeNotification, BeginRender, EndRender, SignalWaiter, vars
<1>7. AlwaysCurrent'
  BY <1>1, <1>5, <1>6 DEF AlwaysCurrent
<1> QED BY <1>2, <1>4, <1>7

\* The steps that can only ask for a navigation.
AskingLoop == HomeGesture \/ PanelGesture \/ ActivityLoop \/ ExclusiveLoop \/ ResultHandler
                \/ Popped \/ OnEnter \/ GoToSleep

\* What an asking step does to the activities, all of it.
LEMMA AskingEffect ==
    ASSUME Shape, AskingLoop
    PROVE  /\ stack' = stack /\ render' = render
           /\ \/ cur' = cur /\ pending' = pending
              \/ /\ pending'.action = "Replace" /\ cur' = cur
                 /\ \E kind \in {"home", "app", "usb", "sleep"} :
                       pending'.activity = New(FreshId, kind, FALSE)
              \/ /\ pending'.action = "Push" /\ Len(stack) < MaxDepth
                 /\ cur' = [cur EXCEPT !.handler = TRUE]
                 /\ pending'.activity = New(FreshId, "app", TRUE)
                 /\ loop' \in {"pending", "popped"}
              \/ /\ pending'.action = "Push" /\ Len(stack) < MaxDepth /\ cur' = cur
                 /\ pending'.activity = New(FreshId, "panel", FALSE)
              \/ /\ pending'.action = "Pop" /\ cur' = cur
                 /\ pending'.activity = NoActivity
           /\ cur' \in Activities /\ pending' \in Pendings
           /\ loop \notin {"launch", "flush"} /\ loop' # "launch"
           /\ loop' \in {"flush"} => pending' = pending /\ cur.kind = "usb" /\ loop = "top"
           /\ loop' \notin {"enter", "handler"}
<1> USE DEF Shape, AskingLoop
<1>1. FreshId \in Ids
  BY FreshIsNew DEF PendingFits
<1>2. ASSUME NEW kind \in Kinds
      PROVE  New(FreshId, kind, FALSE) \in Activities
  BY <1>1 DEF New, Activities
<1>3. cur \in Activities /\ pending \in Pendings
  BY DEF TypeOK
<1>4. CASE HomeGesture
  <2>1. CASE Replace("home")
    <3>1. New(FreshId, "home", FALSE) \in Activities
      BY <1>2 DEF Kinds
    <3> QED BY <1>3, <1>4, <2>1, <3>1 DEF HomeGesture, Replace, Pend, Pendings
  <2>2. CASE RequestUpdate
    BY <1>3, <1>4, <2>2 DEF HomeGesture, RequestUpdate, activities
  <2> QED BY <1>4, <2>1, <2>2 DEF HomeGesture
<1>5. CASE PanelGesture
  <2>1. New(FreshId, "panel", FALSE) \in Activities
    BY <1>2 DEF Kinds
  <2> QED BY <1>3, <1>5, <2>1 DEF PanelGesture, Pend, Pendings
<1>6. CASE Navigation /\ (ActivityLoop \/ ResultHandler \/ OnEnter)
  BY <1>6, NavigationEffect DEF PendingFits, ActivityLoop, ResultHandler, OnEnter
<1>7. CASE (ActivityLoop \/ ResultHandler) /\ (RequestUpdate \/ RequestUpdateNow \/ AskNothing)
  BY <1>3, <1>7, RequestEffect DEF ActivityLoop, ResultHandler
<1>8. CASE OnEnter /\ ~Navigation
  BY <1>3, <1>8 DEF OnEnter, AskNothing, activities
<1>9. CASE ExclusiveLoop \/ Popped
  BY <1>3, <1>9, RequestEffect DEF ExclusiveLoop, Popped
<1>10. CASE GoToSleep
  <2>1. New(FreshId, "sleep", FALSE) \in Activities
    BY <1>2 DEF Kinds
  <2> QED BY <1>3, <1>10, <2>1 DEF GoToSleep, Replace, Pend, Pendings
<1> QED
  BY <1>4, <1>5, <1>6, <1>7, <1>8, <1>9, <1>10 DEF ActivityLoop, ResultHandler, Ask

LEMMA AskingShape == Shape /\ AskingLoop => Shape'
<1> SUFFICES ASSUME Shape, AskingLoop PROVE Shape'
  OBVIOUS
<1> USE DEF Shape
<1>1. /\ stack' = stack /\ render' = render
      /\ cur' \in Activities /\ pending' \in Pendings
      /\ loop # "launch" /\ loop' # "launch"
  BY AskingEffect
<1>2. cur'.kind = cur.kind
  BY AskingEffect DEF TypeOK, Activities
<1>3. cur.kind = "usb" => pending' = pending /\ loop' # "handler"
  BY DEF AskingLoop, HomeGesture, PanelGesture, ActivityLoop, ExclusiveLoop, ResultHandler, Popped,
         OnEnter, GoToSleep, RequestUpdate, AskNothing, activities, AlwaysCurrent, PendingFits,
         NoPending
<1>4. TypeOK'
  <2>1. loop' \in LoopPlaces /\ asleep' \in BOOLEAN
    BY DEF TypeOK, LoopPlaces, AskingLoop, HomeGesture, PanelGesture, ActivityLoop, ExclusiveLoop,
           ResultHandler, Popped, OnEnter, GoToSleep
  <2>2. waiter' \in BOOLEAN /\ woken' \in BOOLEAN /\ screen' \in {0} \cup Ids
    BY DEF TypeOK, Activities, AskingLoop, HomeGesture, PanelGesture, ActivityLoop, ExclusiveLoop,
           ResultHandler, Popped, OnEnter, GoToSleep, signals
  <2>3. requested' \in BOOLEAN /\ notified' \in BOOLEAN /\ wanted' \in BOOLEAN
    <3>1. CASE RequestUpdate \/ RequestUpdateNow \/ AskNothing
      BY <3>1, RequestEffect
    <3>2. CASE UNCHANGED <<requested, notified, wanted>>
      BY <3>2 DEF TypeOK
    <3>3. CASE requested' = TRUE /\ wanted' = TRUE /\ notified' = notified
      BY <3>3 DEF TypeOK
    <3> QED
      BY <3>1, <3>2, <3>3 DEF AskingLoop, HomeGesture, PanelGesture, ActivityLoop, ExclusiveLoop,
         ResultHandler, Popped, OnEnter, GoToSleep, Ask, signals
  <2> QED BY <1>1, <2>1, <2>2, <2>3 DEF TypeOK
<1>5. PendingFits'
  <2>1. loop' \in {"launch", "enter", "handler", "flush"} => pending' = NoPending
    <3>1. loop' \notin {"launch", "enter", "handler"}
      BY AskingEffect
    <3>2. loop' = "flush" => cur.kind = "usb" /\ pending' = pending
      BY AskingEffect
    <3> QED BY <3>1, <3>2 DEF AlwaysCurrent
  <2>2. CASE cur' = cur /\ pending' = pending
    BY <1>1, <2>1, <2>2 DEF PendingFits
  <2>3. CASE pending' # pending \/ cur' # cur
    BY <1>1, <2>1, <2>3, AskingEffect DEF PendingFits, New, NoActivity
  <2> QED BY <2>2, <2>3
<1>6. AlwaysCurrent'
  BY <1>1, <1>2, <1>3 DEF AlwaysCurrent
<1> QED BY <1>4, <1>5, <1>6

-----------------------------------------------------------------------------
\* The steps that change the current activity.
Moves == PopLast \/ LaunchHome \/ Pop \/ ReplaceOrPush \/ PowerOff

\* The top of the stack becomes the current activity again, its handler taken.
LEMMA PopEffect ==
    ASSUME Shape, Pop
    PROVE  /\ Len(stack) \in Nat \ {0} /\ DOMAIN stack = 1..Len(stack)
           /\ stack[Len(stack)] \in Activities /\ Len(stack) \in DOMAIN stack
           /\ stack' \in Seq(Activities) /\ Len(stack') = Len(stack) - 1
           /\ DOMAIN stack' = 1..(Len(stack) - 1)
           /\ \A i \in 1..(Len(stack) - 1) : stack'[i] = stack[i] /\ i \in DOMAIN stack
           /\ cur' \in Activities /\ cur' = [stack[Len(stack)] EXCEPT !.handler = FALSE]
           /\ cur'.id = stack[Len(stack)].id /\ cur'.kind = stack[Len(stack)].kind
           /\ cur'.asked = stack[Len(stack)].asked
           /\ cur'.handler = FALSE
           /\ loop' \in {"handler", "popped"} /\ pending' = NoPending
           /\ UNCHANGED <<requested, notified, waiter, woken, render, asleep, screen, wanted>>
<1>1. stack \in Seq(Activities) /\ Len(stack) \in Nat /\ DOMAIN stack = 1..Len(stack)
  BY DEF Shape, TypeOK
<1>2. Len(stack) # 0
  BY <1>1 DEF Pop
<1>3. Len(stack) \in 1..Len(stack) /\ stack[Len(stack)] \in Activities
  BY <1>1, <1>2
<1>4. [stack[Len(stack)] EXCEPT !.handler = FALSE] \in Activities
  <2> DEFINE below == stack[Len(stack)]
  <2>1. below \in Activities
    BY <1>3
  <2> HIDE DEF below
  <2>2. [below EXCEPT !.handler = FALSE] \in Activities
    BY <2>1 DEF Activities
  <2> QED BY <2>2 DEF below
<1>5. /\ cur' = [stack[Len(stack)] EXCEPT !.handler = FALSE]
      /\ stack' = SubSeq(stack, 1, Len(stack) - 1)
      /\ loop' \in {"handler", "popped"}
  BY DEF Pop
<1>6. /\ pending' = NoPending
      /\ UNCHANGED <<requested, notified, waiter, woken, render, asleep, screen, wanted>>
  BY DEF Pop, signals
<1> DEFINE n == Len(stack) - 1
<1>7. n \in Nat /\ 1 \in Int /\ n \in Int /\ \A i \in 1..n : i \in DOMAIN stack
  BY <1>1, <1>2
<1>8. \A i \in 1..n : stack[i] \in Activities
  BY <1>1, <1>7
<1> HIDE DEF n
<1>9. (IF 1 <= n THEN n - 1 + 1 ELSE 0) = n /\ n - 1 + 1 = n /\ \A i \in 1..n : 1 + i - 1 = i
  BY <1>7
<1>10. /\ SubSeq(stack, 1, n) \in Seq(Activities)
       /\ Len(SubSeq(stack, 1, n)) = IF 1 <= n THEN n - 1 + 1 ELSE 0
       /\ \A i \in 1..(n - 1 + 1) : SubSeq(stack, 1, n)[i] = stack[1 + i - 1]
  BY <1>7, <1>8, SubSeqProperties
<1>11. /\ SubSeq(stack, 1, n) \in Seq(Activities)
       /\ Len(SubSeq(stack, 1, n)) = n
       /\ \A i \in 1..n : SubSeq(stack, 1, n)[i] = stack[i]
  BY <1>9, <1>10
<1>12. /\ stack' \in Seq(Activities) /\ Len(stack') = Len(stack) - 1
       /\ DOMAIN stack' = 1..(Len(stack) - 1)
       /\ \A i \in 1..(Len(stack) - 1) : stack'[i] = stack[i] /\ i \in DOMAIN stack
  <2>1. stack' = SubSeq(stack, 1, n) /\ n = Len(stack) - 1
    BY <1>5 DEF n
  <2>2. DOMAIN stack' = 1..Len(stack')
    BY <1>11, <2>1
  <2> QED BY <1>7, <1>11, <2>1, <2>2
<1>13. /\ cur'.id = stack[Len(stack)].id /\ cur'.kind = stack[Len(stack)].kind
       /\ cur'.asked = stack[Len(stack)].asked /\ cur'.handler = FALSE
  <2> DEFINE below == stack[Len(stack)]
  <2>1. below \in Activities /\ cur' = [below EXCEPT !.handler = FALSE]
    BY <1>3, <1>5
  <2> HIDE DEF below
  <2>2. /\ cur'.id = below.id /\ cur'.kind = below.kind
        /\ cur'.asked = below.asked /\ cur'.handler = FALSE
    BY <2>1 DEF Activities
  <2> QED BY <2>2 DEF below
<1> QED BY <1>1, <1>2, <1>3, <1>4, <1>5, <1>6, <1>12, <1>13

\* A push puts the current activity on the stack, a replacement drops them all.
LEMMA ReplaceOrPushEffect ==
    ASSUME Shape, ReplaceOrPush
    PROVE  /\ Len(stack) \in Nat /\ DOMAIN stack = 1..Len(stack)
           /\ stack' \in Seq(Activities)
           /\ \/ pending.action = "Replace" /\ Len(stack') = 0 /\ DOMAIN stack' = {}
              \/ /\ pending.action = "Push" /\ Len(stack') = Len(stack) + 1
                 /\ DOMAIN stack' = 1..(Len(stack) + 1)
                 /\ \A i \in 1..Len(stack) : stack'[i] = stack[i]
                 /\ stack'[Len(stack) + 1] = cur
           /\ cur' = pending.activity /\ cur' \in Activities
           /\ pending' = NoPending /\ loop = "pending" /\ loop' = "enter"
           /\ UNCHANGED <<requested, notified, waiter, woken, render, asleep, screen, wanted>>
<1>1. /\ stack \in Seq(Activities) /\ Len(stack) \in Nat /\ DOMAIN stack = 1..Len(stack)
      /\ cur \in Activities /\ pending.activity \in Activities
  BY DEF Shape, TypeOK, Pendings
<1>2. /\ cur' = pending.activity /\ pending' = NoPending /\ loop = "pending" /\ loop' = "enter"
      /\ UNCHANGED <<requested, notified, waiter, woken, render, asleep, screen, wanted>>
  BY DEF ReplaceOrPush, signals
<1>3. CASE pending.action = "Push"
  <2>1. stack' = Append(stack, cur)
    BY <1>3 DEF ReplaceOrPush
  <2>2. /\ stack' \in Seq(Activities) /\ Len(stack') = Len(stack) + 1
        /\ \A i \in 1..Len(stack) : stack'[i] = stack[i]
        /\ stack'[Len(stack) + 1] = cur
    BY <1>1, <2>1
  <2>3. DOMAIN stack' = 1..(Len(stack) + 1)
    BY <1>1, <2>2
  <2> QED BY <1>1, <1>2, <1>3, <2>2, <2>3
<1>4. CASE pending.action = "Replace"
  <2>1. stack' = <<>>
    BY <1>4 DEF ReplaceOrPush
  <2> QED BY <1>1, <1>2, <1>4, <2>1
<1> QED BY <1>3, <1>4 DEF ReplaceOrPush

LEMMA MovesShape == Shape /\ Moves => Shape'
<1> SUFFICES ASSUME Shape, Moves PROVE Shape'
  OBVIOUS
<1> USE DEF Shape
<1>1. FreshId \in Ids
  BY FreshIsNew DEF PendingFits
<1>2. New(FreshId, "home", FALSE) \in Activities /\ NoActivity \in Activities
  BY <1>1 DEF New, NoActivity, Activities, Kinds
<1>3. NoPending \in Pendings
  BY <1>2 DEF NoPending, Pendings
<1>4. CASE PopLast
  <2>1. TypeOK'
    BY <1>2, <1>3, <1>4 DEF PopLast, TypeOK, LoopPlaces, signals
  <2>2. PendingFits'
    BY <1>4 DEF PopLast, PendingFits, NoPending, NoActivity
  <2>3. AlwaysCurrent'
    BY <1>4 DEF PopLast, AlwaysCurrent, MutexFree, NoActivity
  <2> QED BY <2>1, <2>2, <2>3
<1>5. CASE LaunchHome
  <2>1. TypeOK'
    BY <1>2, <1>5 DEF LaunchHome, TypeOK, LoopPlaces, signals
  <2>2. PendingFits'
    BY <1>5 DEF LaunchHome, PendingFits
  <2>3. AlwaysCurrent'
    BY <1>5 DEF LaunchHome, AlwaysCurrent, New
  <2> QED BY <2>1, <2>2, <2>3
<1>6. CASE Pop
  <2>1. TypeOK'
    <3>1. /\ cur' \in Activities /\ stack' \in Seq(Activities)
          /\ pending' = NoPending /\ loop' \in {"handler", "popped"}
      BY <1>6, PopEffect
    <3>2. UNCHANGED <<requested, notified, waiter, woken, render, asleep, screen, wanted>>
      BY <1>6 DEF Pop, signals
    <3> QED BY <1>3, <3>1, <3>2 DEF TypeOK, LoopPlaces
  <2>2. PendingFits'
    <3>1. Len(stack') <= MaxDepth /\ pending' = NoPending
      <4>1. Len(stack') = Len(stack) - 1 /\ Len(stack) \in Nat /\ pending' = NoPending
        BY <1>6, PopEffect
      <4>2. Len(stack) <= MaxDepth
        BY DEF PendingFits
      <4> QED BY <4>1, <4>2, MaxDepthAssumption
    <3> QED BY <3>1 DEF PendingFits, NoPending, NoActivity
  <2>3. AlwaysCurrent'
    <3>1. cur'.kind \notin {"none", "usb"}
      BY <1>6, PopEffect DEF AlwaysCurrent
    <3>2. \A i \in DOMAIN stack' : stack'[i].kind \notin {"none", "usb"}
      BY <1>6, PopEffect DEF AlwaysCurrent
    <3> QED BY <1>6, <3>1, <3>2, PopEffect DEF AlwaysCurrent
  <2> QED BY <2>1, <2>2, <2>3
<1>7. CASE ReplaceOrPush
  <2>1. Len(stack') <= MaxDepth /\ cur'.kind # "none"
    BY <1>7, ReplaceOrPushEffect, MaxDepthAssumption DEF PendingFits, ReplaceOrPush
  <2>2. cur.kind # "none" /\ cur.kind # "usb"
    BY <1>7 DEF ReplaceOrPush, AlwaysCurrent, NoPending
  <2>3. \A i \in DOMAIN stack' : stack'[i].kind \notin {"none", "usb"}
    <3>1. CASE pending.action = "Replace"
      BY <1>7, <3>1, ReplaceOrPushEffect
    <3>2. CASE pending.action = "Push"
      <4>1. ASSUME NEW i \in 1..(Len(stack) + 1)
            PROVE  stack'[i].kind \notin {"none", "usb"}
        <5>1. i \in DOMAIN stack \/ i = Len(stack) + 1
          BY <1>7, <4>1, ReplaceOrPushEffect
        <5> QED BY <1>7, <2>2, <3>2, <5>1, ReplaceOrPushEffect DEF AlwaysCurrent
      <4> QED BY <1>7, <3>2, <4>1, ReplaceOrPushEffect
    <3> QED BY <1>7, <3>1, <3>2 DEF ReplaceOrPush
  <2>4. TypeOK'
    BY <1>3, <1>7, ReplaceOrPushEffect DEF TypeOK, LoopPlaces
  <2>5. PendingFits'
    <3>1. pending' = NoPending
      BY <1>7, ReplaceOrPushEffect
    <3> QED BY <2>1, <3>1 DEF PendingFits, NoPending, NoActivity
  <2>6. AlwaysCurrent'
    BY <1>7, <2>1, <2>3, ReplaceOrPushEffect DEF AlwaysCurrent, NoPending
  <2> QED BY <2>4, <2>5, <2>6
<1>8. CASE PowerOff
  <2>1. stack' \in Seq(Activities) /\ Len(stack') = 0 /\ DOMAIN stack' = {}
    BY <1>8 DEF PowerOff
  <2>2. TypeOK'
    BY <1>2, <1>3, <1>8, <2>1 DEF PowerOff, TypeOK, LoopPlaces
  <2>3. PendingFits'
    BY <1>8, <2>1, MaxDepthAssumption DEF PowerOff, PendingFits, NoPending, NoActivity
  <2>4. AlwaysCurrent'
    BY <1>8, <2>1 DEF PowerOff, AlwaysCurrent, New
  <2> QED BY <2>2, <2>3, <2>4
<1> QED BY <1>4, <1>5, <1>6, <1>7, <1>8 DEF Moves

LEMMA StepKinds == [Next]_vars => QuietLoop \/ RenderStep \/ AskingLoop \/ Moves \/ UNCHANGED vars
BY DEF Next, Wait, Navigate, QuietLoop, AskingLoop, Moves

LEMMA ShapeStep == Shape /\ [Next]_vars => Shape'
BY StepKinds, QuietShape, AskingShape, MovesShape

-----------------------------------------------------------------------------
(* Results. *)

LEMMA HandlersStep == Shape /\ Handlers /\ [Next]_vars => Handlers'
<1> SUFFICES ASSUME Shape, Handlers, [Next]_vars PROVE Handlers'
  OBVIOUS
<1>1. CASE QuietLoop \/ RenderStep \/ UNCHANGED vars
  <2>1. UNCHANGED <<cur, stack, pending>>
    BY <1>1 DEF QuietLoop, RenderStep, SuppressedRelease, RequestUpdateAndWait, NotifyAndWait, Woken,
       NothingPending, Flush, TakeNotification, BeginRender, EndRender, SignalWaiter, vars,
       activities
  <2>2. cur.handler => loop' = loop
    BY <1>1 DEF QuietLoop, RenderStep, SuppressedRelease, RequestUpdateAndWait, NotifyAndWait, Woken,
       NothingPending, Flush, TakeNotification, BeginRender, EndRender, SignalWaiter, vars,
       Handlers, Shape, PendingFits, NoActivity
  <2> QED BY <2>1, <2>2 DEF Handlers
<1>2. CASE AskingLoop
  <2>1. stack' = stack /\ cur'.asked = cur.asked
    BY <1>2, AskingEffect DEF Shape, TypeOK, Activities
  <2>2. CASE cur' = cur /\ pending' = pending
    <3>1. cur.handler => loop' = "pending"
      BY <1>2 DEF AskingLoop, HomeGesture, PanelGesture, ActivityLoop, ExclusiveLoop, ResultHandler,
         Popped, OnEnter, GoToSleep, Handlers
    <3> QED BY <2>1, <2>2, <3>1 DEF Handlers
  <2>3. CASE cur' # cur \/ pending' # pending
    <3>1. ~cur.handler
      BY <1>2, <2>3 DEF AskingLoop, HomeGesture, PanelGesture, ActivityLoop, ExclusiveLoop,
         ResultHandler, Popped, OnEnter, GoToSleep, RequestUpdate, AskNothing, activities, Handlers
    <3>2. cur'.handler = pending'.activity.asked /\ (cur'.handler => loop' \in {"pending", "popped"})
      <4>1. cur \in Activities
        BY DEF Shape, TypeOK
      <4>2. CASE cur' = cur
        <5>1. pending'.activity.asked = FALSE
          BY <1>2, <2>3, <4>2, <3>1, <4>1, AskingEffect DEF New, NoActivity, Activities
        <5> QED BY <3>1, <4>1, <4>2, <5>1 DEF Activities
      <4>3. CASE cur' # cur
        <5>1. /\ cur' = [cur EXCEPT !.handler = TRUE]
              /\ pending'.activity = New(FreshId, "app", TRUE)
              /\ loop' \in {"pending", "popped"}
          BY <1>2, <4>3, AskingEffect
        <5> QED BY <4>1, <5>1 DEF New, Activities
      <4> QED BY <4>2, <4>3
    <3> QED BY <2>1, <3>2 DEF Handlers
  <2> QED BY <2>2, <2>3
<1>3. CASE PopLast \/ LaunchHome \/ PowerOff
  <2>1. DOMAIN stack' = {}
    <3>1. stack' = <<>>
      BY <1>3 DEF PopLast, LaunchHome, PowerOff, Shape, AlwaysCurrent
    <3> QED BY <3>1
  <2>2. cur'.handler = FALSE
    BY <1>3 DEF PopLast, LaunchHome, PowerOff, New, NoActivity
  <2>3. pending' = NoPending
    BY <1>3 DEF PopLast, LaunchHome, PowerOff, Shape, PendingFits
  <2> QED BY <2>1, <2>2, <2>3 DEF Handlers, NoPending, NoActivity
<1>4. CASE Pop
  <2>1. cur'.handler = FALSE /\ pending' = NoPending
    BY <1>4, PopEffect
  <2>2. ASSUME NEW i \in DOMAIN stack'
        PROVE  stack'[i].handler = IF i < Len(stack') THEN stack'[i + 1].asked ELSE cur'.asked
    <3>1. i \in 1..(Len(stack) - 1) /\ i \in DOMAIN stack /\ i < Len(stack)
          /\ stack'[i] = stack[i] /\ Len(stack') = Len(stack) - 1
      <4>1. i \in 1..(Len(stack) - 1) /\ Len(stack) \in Nat
        BY <1>4, <2>2, PopEffect
      <4>2. i < Len(stack)
        BY <4>1
      <4> QED BY <1>4, <4>1, <4>2, PopEffect
    <3>2. stack[i].handler = stack[i + 1].asked
      BY <3>1 DEF Handlers
    <3>3. CASE i < Len(stack')
      <4>1. i + 1 \in 1..(Len(stack) - 1)
        BY <1>4, <3>1, <3>3, PopEffect
      <4>2. stack'[i + 1] = stack[i + 1]
        BY <1>4, <4>1, PopEffect
      <4> QED BY <3>1, <3>2, <3>3, <4>2
    <3>4. CASE ~(i < Len(stack'))
      <4>1. i + 1 = Len(stack)
        BY <1>4, <3>1, <3>4, PopEffect
      <4>2. cur'.asked = stack[i + 1].asked
        BY <1>4, <4>1, PopEffect
      <4> QED BY <3>1, <3>2, <3>4, <4>2
    <3> QED BY <3>3, <3>4
  <2> QED BY <2>1, <2>2 DEF Handlers, NoPending, NoActivity
<1>5. CASE ReplaceOrPush
  <2>1. pending' = NoPending /\ cur' = pending.activity /\ cur'.handler = FALSE
    BY <1>5, ReplaceOrPushEffect
       DEF Shape, PendingFits, ReplaceOrPush, TypeOK, Pendings, Activities
  <2>2. ASSUME NEW i \in DOMAIN stack'
        PROVE  stack'[i].handler = IF i < Len(stack') THEN stack'[i + 1].asked ELSE cur'.asked
    <3>1. /\ i \in 1..(Len(stack) + 1) /\ Len(stack') = Len(stack) + 1 /\ Len(stack) \in Nat
          /\ \A j \in 1..Len(stack) : stack'[j] = stack[j]
          /\ stack'[Len(stack) + 1] = cur
      BY <1>5, <2>2, ReplaceOrPushEffect
    <3>2. CASE i = Len(stack) + 1
      <4>1. ~(i < Len(stack'))
        BY <3>1, <3>2
      <4> QED BY <2>1, <3>1, <3>2, <4>1 DEF Handlers
    <3>3. CASE i = Len(stack)
      <4>1. i < Len(stack') /\ i \in DOMAIN stack /\ i \in 1..Len(stack) /\ ~(i < Len(stack))
        BY <1>5, <3>1, <3>3, ReplaceOrPushEffect
      <4>2. stack[i].handler = cur.asked
        BY <4>1 DEF Handlers
      <4> QED BY <3>1, <3>3, <4>1, <4>2
    <3>4. CASE i < Len(stack)
      <4>1. i < Len(stack') /\ i \in DOMAIN stack /\ i \in 1..Len(stack) /\ i + 1 \in 1..Len(stack)
        BY <1>5, <3>1, <3>4, ReplaceOrPushEffect
      <4>2. stack[i].handler = stack[i + 1].asked
        BY <3>4, <4>1 DEF Handlers
      <4> QED BY <3>1, <4>1, <4>2
    <3> QED BY <3>1, <3>2, <3>3, <3>4
  <2> QED BY <2>1, <2>2 DEF Handlers, NoPending, NoActivity
<1> QED BY <1>1, <1>2, <1>3, <1>4, <1>5, StepKinds DEF Moves

-----------------------------------------------------------------------------
(* Wake-ups. *)

LEMMA WakeupsStep == Shape /\ Wakeups /\ [Next]_vars => Wakeups'
<1> SUFFICES ASSUME Shape, Wakeups, [Next]_vars PROVE Wakeups'
  OBVIOUS
<1> USE DEF Wakeups, signals
<1>1. waiter \in BOOLEAN /\ woken \in BOOLEAN
  BY DEF Shape, TypeOK
<1>2. CASE QuietLoop
  BY <1>1, <1>2 DEF QuietLoop, SuppressedRelease, RequestUpdateAndWait, NotifyAndWait, Woken,
     NothingPending, Flush
<1>3. CASE RenderStep
  BY <1>1, <1>3 DEF RenderStep, TakeNotification, BeginRender, EndRender, SignalWaiter
<1>4. CASE AskingLoop
  <2>1. waiter' = waiter /\ woken' = woken
    BY <1>4 DEF AskingLoop, HomeGesture, PanelGesture, ActivityLoop, ExclusiveLoop, ResultHandler,
       Popped, OnEnter, GoToSleep
  <2>2. loop \notin {"ask", "waiting"} /\ loop' \notin {"ask", "waiting"}
    BY <1>4 DEF AskingLoop, HomeGesture, PanelGesture, ActivityLoop, ExclusiveLoop, ResultHandler,
       Popped, OnEnter, GoToSleep
  <2> QED BY <1>1, <2>1, <2>2
<1>5. CASE PopLast \/ LaunchHome \/ Pop \/ ReplaceOrPush
  <2>1. waiter' = waiter /\ woken' = woken
    BY <1>5 DEF PopLast, LaunchHome, Pop, ReplaceOrPush
  <2>2. loop \notin {"ask", "waiting"} /\ loop' \notin {"ask", "waiting"}
    BY <1>5 DEF PopLast, LaunchHome, Pop, ReplaceOrPush
  <2> QED BY <1>1, <2>1, <2>2
<1>6. CASE PowerOff
  BY <1>6 DEF PowerOff
<1>7. CASE UNCHANGED vars
  BY <1>1, <1>7 DEF vars
<1> QED BY <1>2, <1>3, <1>4, <1>5, <1>6, <1>7, StepKinds DEF Moves

-----------------------------------------------------------------------------
(* The panel. *)

LEMMA UnderwayStep == Shape /\ Underway /\ [Next]_vars => Underway'
<1> SUFFICES ASSUME Shape, Underway, [Next]_vars PROVE Underway'
  OBVIOUS
<1> USE DEF Underway, signals, activities
<1>1. requested \in BOOLEAN /\ notified \in BOOLEAN /\ wanted \in BOOLEAN
  BY DEF Shape, TypeOK
<1>2. CASE QuietLoop
  <2>1. cur' = cur /\ pending' = pending /\ screen' = screen /\ render' = render /\ wanted' \in BOOLEAN
    BY <1>1, <1>2 DEF QuietLoop, SuppressedRelease, RequestUpdateAndWait, NotifyAndWait, Woken,
       NothingPending, Flush
  <2>2. CASE Flush
    BY <1>1, <2>1, <2>2 DEF Flush
  <2>3. CASE NotifyAndWait
    BY <1>1, <2>1, <2>3 DEF NotifyAndWait
  <2>4. CASE SuppressedRelease \/ RequestUpdateAndWait \/ Woken \/ NothingPending
    BY <1>1, <2>1, <2>4 DEF SuppressedRelease, RequestUpdateAndWait, Woken, NothingPending
  <2> QED BY <1>2, <2>2, <2>3, <2>4 DEF QuietLoop
<1>3. CASE RenderStep
  <2>1. CASE TakeNotification
    BY <1>1, <2>1 DEF TakeNotification
  <2>2. CASE BeginRender
    <3>1. cur = NoActivity => loop = "launch"
      BY DEF Shape, AlwaysCurrent, NoActivity
    <3> QED BY <1>1, <2>2, <3>1 DEF BeginRender
  <2>3. CASE EndRender
    BY <1>1, <2>3 DEF EndRender
  <2>4. CASE SignalWaiter
    BY <1>1, <2>4 DEF SignalWaiter
  <2> QED BY <1>3, <2>1, <2>2, <2>3, <2>4 DEF RenderStep
<1>4. CASE AskingLoop
  <2>1. cur'.id = cur.id /\ render' = render
    BY <1>4, AskingEffect DEF Shape, TypeOK, Activities
  <2>2. CASE OnEnter
    <3>1. CASE cur.kind = "sleep"
      BY <1>1, <2>1, <2>2, <3>1 DEF OnEnter, AskNothing
    <3>2. CASE cur.kind # "sleep"
      BY <1>1, <2>1, <2>2, <3>2 DEF OnEnter
    <3> QED BY <3>1, <3>2
  <2>3. CASE AskingLoop /\ ~OnEnter
    <3>1. screen' = screen
      BY <2>3 DEF AskingLoop, HomeGesture, PanelGesture, ActivityLoop, ExclusiveLoop, ResultHandler,
         Popped, GoToSleep
    <3>2. /\ requested => requested'
          /\ notified => notified'
          /\ wanted' => wanted \/ requested' \/ notified'
      <4>1. CASE RequestUpdate \/ RequestUpdateNow \/ AskNothing
        BY <4>1, RequestEffect DEF Shape
      <4>2. CASE UNCHANGED <<requested, notified, wanted>>
        BY <1>1, <4>2
      <4> QED
        BY <2>3, <4>1, <4>2 DEF AskingLoop, HomeGesture, PanelGesture, ActivityLoop, ExclusiveLoop,
           ResultHandler, Popped, GoToSleep, Ask
    <3>3. CASE loop \in {"handler", "popped"}
      <4>1. requested' \/ loop' = "popped" \/ (loop' = "pending" /\ pending'.action # "None")
        BY <2>3, <3>3 DEF AskingLoop, HomeGesture, PanelGesture, ActivityLoop, ExclusiveLoop,
           ResultHandler, Popped, GoToSleep, RequestUpdate, AskNothing
      <4> QED BY <1>1, <2>1, <3>1, <3>2, <4>1
    <3>4. CASE loop \notin {"handler", "popped"}
      <4>1. loop = "top"
        BY <2>3, <3>4 DEF AskingLoop, HomeGesture, PanelGesture, ActivityLoop, ExclusiveLoop,
           ResultHandler, Popped, GoToSleep
      <4> QED BY <1>1, <2>1, <3>1, <3>2, <4>1
    <3> QED BY <3>3, <3>4
  <2> QED BY <1>4, <2>2, <2>3
<1>5. CASE PopLast \/ LaunchHome \/ Pop \/ ReplaceOrPush
  <2>1. UNCHANGED <<requested, notified, render, wanted>>
    BY <1>5 DEF PopLast, LaunchHome, Pop, ReplaceOrPush
  <2>2. loop' \in {"launch", "enter", "handler", "popped"}
    BY <1>5 DEF PopLast, LaunchHome, Pop, ReplaceOrPush
  <2> QED BY <2>1, <2>2
<1>6. CASE PowerOff
  BY <1>6 DEF PowerOff
<1>7. CASE UNCHANGED vars
  BY <1>7 DEF vars
<1> QED BY <1>2, <1>3, <1>4, <1>5, <1>6, <1>7, StepKinds DEF Moves

-----------------------------------------------------------------------------
(* Identities. *)

LEMMA IdentitiesStep == Shape /\ OwnIdentities /\ [Next]_vars => OwnIdentities'
<1> SUFFICES ASSUME Shape, OwnIdentities, [Next]_vars PROVE OwnIdentities'
  OBVIOUS
<1>1. FreshId \in Ids /\ FreshId # cur.id /\ FreshId # pending.activity.id
        /\ \A i \in DOMAIN stack : stack[i].id # FreshId
  BY FreshIsNew DEF Shape, PendingFits, InUse
<1>2. CASE QuietLoop \/ RenderStep \/ UNCHANGED vars
  <2>1. UNCHANGED <<cur, stack, pending>> /\ (loop' = "launch" <=> loop = "launch")
    BY <1>2 DEF QuietLoop, RenderStep, SuppressedRelease, RequestUpdateAndWait, NotifyAndWait, Woken,
       NothingPending, Flush, TakeNotification, BeginRender, EndRender, SignalWaiter, vars,
       activities
  <2> QED BY <2>1 DEF OwnIdentities
<1>3. CASE AskingLoop
  <2>1. stack' = stack /\ loop # "launch" /\ loop' # "launch" /\ cur'.id = cur.id
    BY <1>3, AskingEffect DEF Shape, TypeOK, Activities
  <2>2. pending' = pending
          \/ (pending'.action \in {"Replace", "Push"} => pending'.activity.id = FreshId)
    BY <1>3, AskingEffect DEF New
  <2>3. pending'.action \in {"Replace", "Push"} =>
          /\ pending'.activity.id \in Ids \ {cur.id}
          /\ \A i \in DOMAIN stack : stack[i].id # pending'.activity.id
    BY <1>1, <2>2 DEF OwnIdentities
  <2> QED BY <2>1, <2>3 DEF OwnIdentities
<1>4. CASE PopLast \/ LaunchHome \/ PowerOff
  <2>1. DOMAIN stack' = {}
    <3>1. stack' = <<>>
      BY <1>4 DEF PopLast, LaunchHome, PowerOff, Shape, AlwaysCurrent
    <3> QED BY <3>1
  <2>2. pending'.action = "None"
    <3>1. pending' = NoPending
      BY <1>4 DEF PopLast, LaunchHome, PowerOff, Shape, PendingFits
    <3> QED BY <3>1 DEF NoPending
  <2>3. loop' # "launch" => cur'.id \in Ids
    BY <1>1, <1>4 DEF PopLast, LaunchHome, PowerOff, New
  <2> QED BY <2>1, <2>2, <2>3 DEF OwnIdentities
<1>5. CASE Pop
  <2>1. pending'.action = "None"
    BY <1>5, PopEffect DEF NoPending
  <2>2. cur'.id \in Ids
    BY <1>5, PopEffect DEF OwnIdentities
  <2>3. ASSUME NEW i \in DOMAIN stack'
        PROVE  /\ stack'[i].id \in Ids \ {cur'.id}
               /\ \A j \in DOMAIN stack' : stack'[i].id = stack'[j].id => i = j
    <3>1. Len(stack) \in Nat /\ Len(stack) \in DOMAIN stack /\ cur'.id = stack[Len(stack)].id
      BY <1>5, PopEffect
    <3>2. \A j \in DOMAIN stack' : j \in 1..(Len(stack) - 1) /\ j \in DOMAIN stack
                                  /\ stack'[j] = stack[j]
      BY <1>5, PopEffect
    <3>3. i # Len(stack)
      BY <3>1, <3>2
    <3> QED BY <3>1, <3>2, <3>3 DEF OwnIdentities
  <2> QED BY <2>1, <2>2, <2>3 DEF OwnIdentities
<1>6. CASE ReplaceOrPush
  <2>1. pending'.action = "None" /\ cur'.id = pending.activity.id
    BY <1>6, ReplaceOrPushEffect DEF NoPending
  <2>2. /\ cur'.id \in Ids \ {cur.id}
        /\ \A i \in DOMAIN stack : stack[i].id # cur'.id
    BY <1>6, <2>1 DEF ReplaceOrPush, OwnIdentities
  <2>3. CASE pending.action = "Replace"
    <3>1. DOMAIN stack' = {}
      BY <1>6, <2>3, ReplaceOrPushEffect
    <3> QED BY <2>1, <2>2, <3>1 DEF OwnIdentities
  <2>4. CASE pending.action = "Push"
    <3>1. /\ Len(stack) \in Nat /\ DOMAIN stack = 1..Len(stack)
          /\ DOMAIN stack' = 1..(Len(stack) + 1)
          /\ \A i \in 1..Len(stack) : stack'[i] = stack[i]
          /\ stack'[Len(stack) + 1] = cur
      BY <1>6, <2>4, ReplaceOrPushEffect
    <3>2. \A i \in DOMAIN stack' : \/ i \in DOMAIN stack /\ stack'[i] = stack[i]
                                   \/ i = Len(stack) + 1 /\ stack'[i] = cur
      BY <3>1
    <3>3. cur.id \in Ids
      BY <1>6 DEF ReplaceOrPush, OwnIdentities
    <3>4. ASSUME NEW i \in DOMAIN stack'
          PROVE  /\ stack'[i].id \in Ids \ {cur'.id}
                 /\ \A j \in DOMAIN stack' : stack'[i].id = stack'[j].id => i = j
      <4>1. stack'[i].id \in Ids \ {cur'.id}
        BY <2>2, <3>2, <3>3 DEF OwnIdentities
      <4>2. ASSUME NEW j \in DOMAIN stack', stack'[i].id = stack'[j].id PROVE i = j
        BY <3>2, <4>2 DEF OwnIdentities
      <4> QED BY <4>1, <4>2
    <3> QED BY <2>1, <2>2, <3>4 DEF OwnIdentities
  <2> QED BY <1>6, <2>3, <2>4 DEF ReplaceOrPush
<1> QED BY <1>2, <1>3, <1>4, <1>5, <1>6, StepKinds DEF Moves

-----------------------------------------------------------------------------
(* The theorems. *)

LEMMA InitInv == Init => IInv
<1> SUFFICES ASSUME Init PROVE IInv
  OBVIOUS
<1>1. DOMAIN stack = {}
  <2>1. stack = <<>>
    BY DEF Init
  <2> QED BY <2>1
<1>2. 1 \in Ids
  BY MaxDepthAssumption DEF Ids
<1>3. Handlers /\ Wakeups /\ Underway /\ OwnIdentities
  BY <1>1, <1>2
     DEF Init, Handlers, Wakeups, Underway, OwnIdentities, New, NoPending, NoActivity
<1> QED BY <1>3, InitShape DEF IInv

(* The invariant holds in every reachable state, at any depth of the stack. *)
THEOREM ActivityInvariance == Spec => []IInv
<1>1. Init => IInv
  BY InitInv
<1>2. IInv /\ [Next]_vars => IInv'
  BY ShapeStep, HandlersStep, WakeupsStep, UnderwayStep, IdentitiesStep DEF IInv
<1> QED BY <1>1, <1>2, PTL DEF Spec

(* The state keeps its types, the stack its bound, and what is pending fits on it. *)
THEOREM ActivityTypeCorrect == Spec => [](TypeOK /\ PendingFits)
<1>1. IInv => TypeOK /\ PendingFits
  BY DEF IInv, Shape
<1> QED BY <1>1, ActivityInvariance, PTL

(* When both tasks have nothing left to do, the panel shows the current activity in its
   latest state. *)
THEOREM PanelSettles == Spec => []SettledPanelIsCurrent
<1>1. IInv => SettledPanelIsCurrent
  BY DEF IInv, Underway, SettledPanelIsCurrent
<1> QED BY <1>1, ActivityInvariance, PTL

(* And what it shows is no other activity's picture: the current one, those under it and
   the one about to come have different identities. *)
THEOREM IdentitiesAreOwn == Spec => []OwnIdentities
<1>1. IInv => OwnIdentities
  BY DEF IInv
<1> QED BY <1>1, ActivityInvariance, PTL

(* A result reaches the activity that asked for it and no other. *)
THEOREM ResultsAreDelivered == Spec => []ResultsReachTheAsker
<1>1. IInv => ResultsReachTheAsker
  BY DEF IInv, Handlers, ResultsReachTheAsker
<1> QED BY <1>1, ActivityInvariance, PTL

(* A wake-up is neither lost nor left over. *)
THEOREM WakeupsArePaired == Spec => []WakeupsPair
<1>1. IInv => WakeupsPair
  BY DEF IInv, Wakeups, WakeupsPair, Shape, TypeOK, LoopPlaces
<1> QED BY <1>1, ActivityInvariance, PTL

\* render() is a member of the activity it runs on, which the loop task may delete.
PainterKeepsItsActivity ==
    [][render = "paint" /\ ~PowerOff => cur.kind # "none" /\ cur'.id = cur.id]_vars

(* Whatever the loop task does meanwhile, the activity whose render() runs is there and
   stays the current one until it returns. *)
THEOREM NoneIsReplacedWhilePainted == Spec => PainterKeepsItsActivity
<1>1. IInv /\ [Next]_vars =>
        [render = "paint" /\ ~PowerOff => cur.kind # "none" /\ cur'.id = cur.id]_vars
  <2> SUFFICES ASSUME IInv, [Next]_vars, render = "paint", ~PowerOff
               PROVE  (cur.kind # "none" /\ cur'.id = cur.id) \/ UNCHANGED vars
    OBVIOUS
  <2>1. cur.kind # "none" /\ loop # "launch"
    BY DEF IInv, Shape, AlwaysCurrent
  <2>2. CASE QuietLoop \/ RenderStep
    BY <2>1, <2>2 DEF QuietLoop, RenderStep, SuppressedRelease, RequestUpdateAndWait, NotifyAndWait,
       Woken, NothingPending, Flush, TakeNotification, BeginRender, EndRender, SignalWaiter,
       activities
  <2>3. CASE AskingLoop
    BY <2>1, <2>3, AskingEffect DEF IInv, Shape, TypeOK, Activities
  <2>4. CASE Moves
    BY <2>1, <2>4 DEF Moves, PopLast, LaunchHome, Pop, ReplaceOrPush, MutexFree
  <2> QED BY <2>2, <2>3, <2>4, StepKinds
<1> QED BY <1>1, ActivityInvariance, PTL DEF Spec, PainterKeepsItsActivity

=============================================================================
