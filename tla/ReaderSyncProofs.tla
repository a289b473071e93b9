--------------------------- MODULE ReaderSyncProofs ---------------------------
(***************************************************************************)
(* For any books, chapters, server rows and faults: the answer of a check   *)
(* belongs to the book that shows it, the radio a check has raised goes     *)
(* down again, and the two markers on the card say what was acknowledged    *)
(* and what was answered, so nothing is lost and nothing asked twice.       *)
(***************************************************************************)
EXTENDS ReaderSync, TLAPS

\* A server's row is its book's.
RowInv == \A b \in Books : server[b] # None => server[b].book = b

\* The task asks for the book that is requested, as long as it is not discarded, and
\* its answer is that book's.
CheckInv ==
    /\ chk.busy <=> chk.pc # "none"
    /\ chk.aborted => chk.busy
    /\ chk.ready => ~chk.busy
    /\ chk.busy /\ ~chk.aborted => chk.requested \in Books
    /\ chk.pc \in {"none", "begin"} => chk.hash = None /\ chk.fetched = None
    /\ chk.pc \in {"search", "request", "release", "tear"} => chk.hash \in Books
    /\ chk.hash # None /\ ~chk.aborted => chk.requested = chk.hash
    /\ chk.fetched # None => chk.hash # None /\ chk.fetched.book = chk.hash
    /\ chk.row # None => chk.row.book = chk.requested

\* The radio is up for somebody: a check that raised it and has not released it yet, or
\* the one that had raised it before.
RadioInv ==
    /\ wifi # "off" =>
         \/ lent \/ sleep.pending
         \/ chk.raised /\ chk.pc \in {"search", "request", "release", "tear"}
    /\ chk.pc \in {"search", "request", "release"} /\ ~chk.raised => lent \/ sleep.pending

\* What the way into sleep carries, and that it stamps only what was acknowledged.
SleepInv ==
    /\ sleep.at = "awake" <=> ~sleep.pending
    /\ sleep.book # None => sleep.pos \in Positions
    /\ sleep.at \in {"search", "upload", "stamp"} => sleep.book # None
    /\ sleep.at = "stamp" => sleep.pos \in acked[sleep.book]

\* The reader's baseline is what the marker says.
BaselineInv ==
    reader.book # None /\ sleep.at = "awake" =>
        card[reader.book].synced \in {None, reader.baseline}

AnsweredInv == \A b \in Books : answered[b] <= card[b].resolved

IInv ==
    /\ TypeOK /\ RowInv /\ CheckInv /\ AnswerFitsBook /\ RadioInv
    /\ SleepInv /\ MarkerIsAcknowledged /\ BaselineInv /\ AnsweredInv

-----------------------------------------------------------------------------
LEMMA InitInv == Init => IInv
<1> SUFFICES ASSUME Init PROVE IInv
  OBVIOUS
<1> USE NoneAssumption, BoundsAssumption
<1>1. NoCheck \in Checks /\ Awake \in Sleeps
  BY DEF NoCheck, Checks, Awake, Sleeps
<1>2. [pos |-> 1, synced |-> None, resolved |-> 0] \in Cards
  BY DEF Cards, Positions
<1>3. TypeOK
  <2>1. server \in [Books -> ServerRows \cup {None}] /\ rows \in 0..MaxRows
    BY DEF Init
  <2>2. card \in [Books -> Cards]
    BY <1>2 DEF Init
  <2>3. acked \in [Books -> SUBSET Positions] /\ answered \in [Books -> 0..MaxRows]
    BY DEF Init
  <2>4. owed \in [Books -> BOOLEAN] /\ faults \in 0..MaxFaults
    BY DEF Init
  <2>5. wifi \in {"off", "up", "on"} /\ lent \in BOOLEAN
    BY DEF Init
  <2>6. reader \in Readers \cup {NoReader} /\ chk \in Checks /\ sleep \in Sleeps
    BY <1>1 DEF Init
  <2> QED BY <2>1, <2>2, <2>3, <2>4, <2>5, <2>6 DEF TypeOK
<1>4. RowInv /\ MarkerIsAcknowledged /\ AnsweredInv
  BY DEF Init, RowInv, MarkerIsAcknowledged, AnsweredInv
<1>5. CheckInv
  BY DEF Init, CheckInv, NoCheck
<1>6. AnswerFitsBook /\ BaselineInv
  BY DEF Init, NoReader, AnswerFitsBook, BaselineInv
<1>7. RadioInv /\ SleepInv
  BY DEF Init, RadioInv, SleepInv, NoCheck, Awake
<1> QED BY <1>3, <1>4, <1>5, <1>6, <1>7 DEF IInv

(* What a start and a discard leave of the check is a check. *)
LEMMA CheckTypes ==
    ASSUME TypeOK
    PROVE  /\ NoCheck \in Checks /\ Discard \in Checks
           /\ \A b \in Books : Start(b) \in Checks
<1>1. NoCheck \in Checks
  BY DEF NoCheck, Checks
<1>2. Discard \in Checks
  BY DEF Discard, Checks, TypeOK
<1>3. ASSUME NEW b \in Books PROVE Start(b) \in Checks
  <2>1. ASSUME NEW c \in Checks
        PROVE  [c EXCEPT !.busy = TRUE, !.requested = b, !.ready = FALSE, !.row = None,
                         !.aborted = FALSE, !.pc = "begin"] \in Checks
    BY <2>1 DEF Checks
  <2>2. chk \in Checks
    BY DEF TypeOK
  <2> QED BY <2>1, <2>2 DEF Start
<1> QED BY <1>1, <1>2, <1>3

(* The open book's record. *)
LEMMA OpenReader == ASSUME TypeOK, reader.book # None PROVE reader \in Readers
BY DEF TypeOK, NoReader

(* With something to send or with nothing, the device is on its way. *)
LEMMA EntersSleep ==
    ASSUME TypeOK, EnterSleep
    PROVE  /\ sleep'.at = "leave" /\ sleep'.pending
           /\ sleep' = [at |-> "leave", pending |-> TRUE, book |-> sleep'.book, pos |-> sleep'.pos]
           /\ sleep'.book \in Books \cup {None} /\ sleep'.pos \in Positions \cup {None}
           /\ sleep'.book # None => sleep'.pos \in Positions
<1>1. CASE reader.book # None /\ sleep' = Leaving(reader.book, reader.pos)
  <2>1. reader.book \in Books /\ reader.pos \in Positions
    BY <1>1, OpenReader DEF Readers
  <2> QED BY <1>1, <2>1 DEF Leaving
<1>2. CASE sleep' = Leaving(None, None)
  BY <1>2 DEF Leaving
<1> QED BY <1>1, <1>2 DEF EnterSleep

(* What a marker write may leave on the card. *)
LEMMA SavedTypes ==
    ASSUME NEW old, NEW new, NEW none, NEW save \in Saved(old, new, none), faults \in 0..MaxFaults
    PROVE  /\ save[1] \in {old, new, none} /\ save[2] \in {0, 1}
           /\ save[2] = 0 => save[1] = new
           /\ faults + save[2] \in 0..MaxFaults
BY BoundsAssumption DEF Saved

LEMMA StoredTypes ==
    ASSUME TypeOK, NEW b \in Books, NEW pos \in Positions \cup {Unknown},
           NEW by \in {"me", "other"}, rows < MaxRows, NEW at \in {Unstamped, rows + 1}
    PROVE  /\ Stored(b, pos, by, at) \in [Books -> ServerRows \cup {None}]
           /\ rows + 1 \in 0..MaxRows
<1>1. rows + 1 \in 1..MaxRows
  BY BoundsAssumption DEF TypeOK
<1>2. [book |-> b, pos |-> pos, by |-> by, at |-> at] \in ServerRows
  BY <1>1 DEF ServerRows
<1> QED BY <1>1, <1>2 DEF Stored, TypeOK

(* What is recorded of an answered row, and where a jump lands. *)
LEMMA AnswerTypes ==
    ASSUME TypeOK, reader \in Readers, reader.dialog # None,
           NEW jump \in BOOLEAN, NEW b \in Books, NEW at, at = reader.dialog.at,
           NEW save \in Recorded(card[b].resolved, at), NEW pos \in Landing(jump)
    PROVE  /\ at \in 0..MaxRows /\ pos \in Positions
           /\ save[1] \in 0..MaxRows /\ save[2] \in {0, 1} /\ faults + save[2] \in 0..MaxFaults
           /\ NowAnswered(answered[b], at, save[2]) \in 0..MaxRows
           /\ answered[b] <= card[b].resolved =>
                NowAnswered(answered[b], at, save[2]) <= save[1]
<1>1. reader.dialog \in ServerRows /\ reader.pos \in Positions
  BY DEF Readers
<1>2. at \in 0..MaxRows
  BY <1>1, BoundsAssumption DEF ServerRows, Unstamped
<1>3. pos \in Positions
  BY <1>1 DEF Landing, ServerRows
<1>4. card[b].resolved \in 0..MaxRows /\ answered[b] \in 0..MaxRows /\ faults \in 0..MaxFaults
  BY DEF TypeOK, Cards
<1>5. CASE at = Unstamped
  <2>1. save[1] = card[b].resolved /\ save[2] = 0
    BY <1>5 DEF Recorded
  <2> QED BY <1>2, <1>3, <1>4, <1>5, <2>1, BoundsAssumption DEF NowAnswered
<1>6. CASE at # Unstamped
  <2>1. save \in Saved(card[b].resolved, at, 0)
    BY <1>6 DEF Recorded
  <2>2. /\ save[1] \in {card[b].resolved, at, 0} /\ save[2] \in {0, 1}
        /\ save[2] = 0 => save[1] = at
        /\ faults + save[2] \in 0..MaxFaults
    BY <1>4, <2>1, SavedTypes
  <2>3. save[1] \in 0..MaxRows
    BY <1>2, <1>4, <2>2, BoundsAssumption
  <2>4. NowAnswered(answered[b], at, save[2]) = IF save[2] = 0 THEN at ELSE 0
    BY <1>6 DEF NowAnswered
  <2> QED BY <1>2, <1>3, <2>2, <2>3, <2>4, BoundsAssumption
<1> QED BY <1>5, <1>6

LEMMA TypeStep == TypeOK /\ CheckInv /\ SleepInv /\ [Next]_vars => TypeOK'
<1> SUFFICES ASSUME TypeOK, CheckInv, SleepInv, [Next]_vars PROVE TypeOK'
  OBVIOUS
<1> USE DEF TypeOK, serverVars, history
<1>1. ASSUME NEW b \in Shared, OtherReads(b) PROVE TypeOK'
  <2>1. /\ UNCHANGED <<card, reader, chk, wifi, lent, sleep, history>>
        /\ faults' \in 0..MaxFaults /\ rows < MaxRows /\ rows' = rows + 1
    BY <1>1, BoundsAssumption DEF OtherReads
  <2>2. PICK pos \in Positions \cup {Unknown}, at \in {Unstamped, rows + 1} :
            server' = Stored(b, pos, "other", at)
    BY <1>1 DEF OtherReads
  <2> QED BY <2>1, <2>2, StoredTypes, SharedAssumption
<1>2. CASE CheckBegin \/ CheckRelease \/ CheckTear \/ CheckEnd
  <2>1. chk' \in Checks
    <3>1. CASE CheckBegin \/ CheckRelease \/ CheckTear
      <4>1. CASE CheckBegin
        <5>1. (wifi # "on") \in BOOLEAN
          OBVIOUS
        <5>2. chk \in Checks
          OBVIOUS
        <5> HIDE DEF TypeOK
        <5> QED BY <4>1, <5>1, <5>2 DEF CheckBegin, Checks
      <4>2. CASE CheckRelease \/ CheckTear
        BY <4>2 DEF CheckRelease, CheckTear, Checks
      <4> QED BY <3>1, <4>1, <4>2
    <3>2. CASE CheckEnd
      <4>1. [NoCheck EXCEPT !.requested = chk.requested, !.ready = TRUE, !.row = chk.fetched]
              \in Checks
        BY CheckTypes DEF Checks
      <4> QED BY <3>2, <4>1, CheckTypes DEF CheckEnd
    <3> QED BY <1>2, <3>1, <3>2
  <2> QED BY <1>2, <2>1 DEF CheckBegin, CheckRelease, CheckTear, CheckEnd
<1>3. CASE CheckSearch
  <2>1. chk' \in Checks
    BY <1>3 DEF CheckSearch, Checks
  <2> QED BY <1>3, <2>1 DEF CheckSearch
<1>4. CASE CheckRequest
  <2>1. chk.hash \in Books
    BY <1>4 DEF CheckRequest, CheckInv
  <2>2. PICK row \in {None} \cup (IF wifi = "on" THEN {server[chk.hash]} ELSE {}) :
          chk' = [chk EXCEPT !.pc = "release", !.asked = TRUE, !.fetched = row]
    BY <1>4 DEF CheckRequest
  <2>3. row \in ServerRows \cup {None}
    BY <2>1
  <2>4. chk' \in Checks
    BY <2>2, <2>3 DEF Checks
  <2> QED BY <1>4, <2>4 DEF CheckRequest
<1>5. ASSUME NEW b \in Books, OpenBook(b) PROVE TypeOK'
  <2>1. reader' \in Readers
    BY <1>5 DEF OpenBook, Baseline, Readers, Cards
  <2> QED BY <1>5, <2>1, CheckTypes DEF OpenBook
<1>6. ASSUME NEW pos \in Positions, Turn(pos) PROVE TypeOK'
  <2>1. reader \in Readers
    BY <1>6, OpenReader DEF Turn, Turning, Reading
  <2>2. reader' \in Readers /\ card' \in [Books -> Cards]
    BY <1>6, <2>1 DEF Turn, Readers, Cards
  <2> QED BY <1>6, <2>2 DEF Turn
<1>7. CASE CloseBook
  BY <1>7, CheckTypes DEF CloseBook
<1>8. CASE PollRemoteProgress
  <2>1. reader \in Readers
    BY <1>8, OpenReader DEF PollRemoteProgress, Turning, Reading
  <2>2. reader' \in Readers
    BY <1>8, <2>1 DEF PollRemoteProgress, Readers, Checks
  <2> QED BY <1>8, <2>2, CheckTypes DEF PollRemoteProgress
<1>9. ASSUME NEW jump \in BOOLEAN, Answer(jump) PROVE TypeOK'
  <2> DEFINE b == reader.book
             at == reader.dialog.at
  <2>1. reader \in Readers /\ reader.dialog # None
    BY <1>9, OpenReader DEF Answer, Reading
  <2>2. b \in Books
    BY <2>1 DEF Readers
  <2>4. PICK save \in Recorded(card[b].resolved, at), pos \in Landing(jump) :
          /\ card' = [card EXCEPT ![b].resolved = save[1], ![b].pos = pos]
          /\ faults' = faults + save[2]
          /\ answered' = [answered EXCEPT ![b] = NowAnswered(@, at, save[2])]
          /\ reader' = [reader EXCEPT !.dialog = None, !.pos = pos, !.declined = @ \/ ~jump]
    BY <1>9 DEF Answer
  <2>5. /\ pos \in Positions /\ save[1] \in 0..MaxRows /\ faults' \in 0..MaxFaults
        /\ NowAnswered(answered[b], at, save[2]) \in 0..MaxRows
    BY <2>1, <2>2, <2>4, AnswerTypes
  <2>6. card' \in [Books -> Cards] /\ answered' \in [Books -> 0..MaxRows]
    <3>1. [card[b] EXCEPT !.resolved = save[1], !.pos = pos] \in Cards
      <4>1. ASSUME NEW c \in Cards, NEW n \in 0..MaxRows, NEW p \in Positions
            PROVE  [c EXCEPT !.resolved = n, !.pos = p] \in Cards
        BY <4>1 DEF Cards
      <4>2. card[b] \in Cards
        BY <2>2
      <4> HIDE DEF b, TypeOK
      <4> QED BY <2>2, <2>5, <4>1, <4>2
    <3>2. card' = [card EXCEPT ![b] = [card[b] EXCEPT !.resolved = save[1], !.pos = pos]]
      BY <2>2, <2>4
    <3>3. answered' = [answered EXCEPT ![b] = NowAnswered(answered[b], at, save[2])]
      BY <2>2, <2>4
    <3> HIDE DEF b, at
    <3> QED BY <2>2, <2>5, <3>1, <3>2, <3>3
  <2>7. reader' \in Readers
    BY <2>1, <2>4, <2>5 DEF Readers
  <2>8. owed' \in [Books -> BOOLEAN] /\ UNCHANGED <<serverVars, chk, wifi, lent, sleep, acked>>
    BY <1>9, <2>2 DEF Answer
  <2> QED BY <2>5, <2>6, <2>7, <2>8
<1>10. CASE LendRadio
  BY <1>10 DEF LendRadio
<1>11. CASE EnterSleep
  <2>1. sleep' \in Sleeps
    BY <1>11, EntersSleep DEF Sleeps
  <2>2. faults' \in 0..MaxFaults
    BY <1>11, BoundsAssumption DEF EnterSleep
  <2> QED BY <1>11, <2>1, <2>2 DEF EnterSleep
<1>12. CASE GoToSleep
  <2>1. sleep' \in Sleeps
    BY <1>12 DEF GoToSleep, Sleeps
  <2> QED BY <1>12, <2>1, CheckTypes DEF GoToSleep
<1>13. CASE SleepSearch
  <2>1. sleep' \in Sleeps /\ wifi' \in {"off", "up", "on"}
    BY <1>13 DEF SleepSearch, Sleeps, Down, Awake
  <2> QED BY <1>13, <2>1 DEF SleepSearch
<1>14. CASE Upload
  <2>1. sleep.book \in Books /\ sleep.pos \in Positions
    BY <1>14 DEF Upload, SleepInv, Sleeps
  <2>2. sleep' \in Sleeps
    BY <1>14 DEF Upload, Sleeps, Down, Awake
  <2>3. rows < MaxRows => /\ Stored(sleep.book, sleep.pos, "me", rows + 1) \in [Books -> ServerRows \cup {None}]
                          /\ rows + 1 \in 0..MaxRows
    BY <2>1, StoredTypes
  <2>4. server' \in [Books -> ServerRows \cup {None}] /\ rows' \in 0..MaxRows
    BY <1>14, <2>3 DEF Upload
  <2>5. acked' \in [Books -> SUBSET Positions] /\ owed' \in [Books -> BOOLEAN]
    <3>1. \/ UNCHANGED <<acked, owed>>
          \/ /\ acked' = [acked EXCEPT ![sleep.book] = @ \cup {sleep.pos}]
             /\ owed' = [owed EXCEPT ![sleep.book] = FALSE]
      BY <1>14 DEF Upload
    <3>2. acked[sleep.book] \cup {sleep.pos} \in SUBSET Positions
      BY <2>1
    <3> QED BY <2>1, <3>1, <3>2
  <2> QED BY <1>14, <2>2, <2>4, <2>5 DEF Upload
<1>15. CASE Stamp
  <2>1. sleep.book \in Books /\ sleep.pos \in Positions
    BY <1>15 DEF Stamp, SleepInv, Sleeps
  <2>2. sleep' \in Sleeps
    BY <1>15 DEF Stamp, Sleeps, Down, Awake
  <2>3. PICK save \in Saved(card[sleep.book].synced, sleep.pos, None) :
          /\ card' = [card EXCEPT ![sleep.book].synced = save[1]]
          /\ faults' = faults + save[2]
    BY <1>15 DEF Stamp
  <2>4. card' \in [Books -> Cards] /\ faults' \in 0..MaxFaults
    BY <2>1, <2>3, SavedTypes DEF Cards
  <2> QED BY <1>15, <2>2, <2>4 DEF Stamp
<1>16. CASE SleepAndWake \/ PowerCut
  <2>1. NoCheck \in Checks /\ Awake \in Sleeps
    BY CheckTypes DEF Awake, Sleeps
  <2>2. faults' \in 0..MaxFaults
    BY <1>16, BoundsAssumption DEF SleepAndWake, PowerCut
  <2> QED BY <1>16, <2>1, <2>2 DEF SleepAndWake, PowerCut, Off
<1>17. CASE UNCHANGED vars
  BY <1>17 DEF vars
<1> QED
  BY <1>1, <1>2, <1>3, <1>4, <1>5, <1>6, <1>7, <1>8, <1>9, <1>10, <1>11, <1>12, <1>13, <1>14,
     <1>15, <1>16, <1>17 DEF Next, CheckStep, ReaderStep, SleepStep

-----------------------------------------------------------------------------
(* The check. *)

LEMMA RowStep == TypeOK /\ RowInv /\ [Next]_vars => RowInv'
<1> SUFFICES ASSUME TypeOK, RowInv, [Next]_vars PROVE RowInv'
  OBVIOUS
<1> USE DEF RowInv, TypeOK
<1>1. ASSUME NEW b \in Shared, OtherReads(b) PROVE RowInv'
  BY <1>1 DEF OtherReads, Stored
<1>2. CASE Upload
  <2>1. UNCHANGED server \/ server' = Stored(sleep.book, sleep.pos, "me", rows + 1)
    BY <1>2 DEF Upload, serverVars
  <2> QED BY <2>1 DEF Stored
<1>3. CASE UNCHANGED server
  BY <1>3
<1>4. UNCHANGED server \/ Upload \/ \E b \in Shared : OtherReads(b)
  BY DEF Next, vars, serverVars, CheckStep, CheckBegin, CheckSearch, CheckRequest, CheckRelease,
         CheckTear, CheckEnd, ReaderStep, OpenBook, Turn, CloseBook, PollRemoteProgress, Answer,
         LendRadio, EnterSleep, SleepStep, GoToSleep, SleepSearch, Stamp, SleepAndWake, PowerCut
<1> QED BY <1>1, <1>2, <1>3, <1>4

\* The actions that do not touch the check.
LEMMA ChecksOwn ==
    ASSUME [Next]_vars
    PROVE  \/ UNCHANGED chk
           \/ CheckStep \/ CloseBook \/ PollRemoteProgress \/ GoToSleep \/ SleepAndWake \/ PowerCut
           \/ \E b \in Books : OpenBook(b)
BY DEF Next, vars, ReaderStep, SleepStep, OtherReads, Turn, Answer, LendRadio, EnterSleep,
       SleepSearch, Upload, Stamp

(* A check that was never begun, and the two calls that come from outside. *)
LEMMA CheckCalls ==
    ASSUME TypeOK, CheckInv
    PROVE  /\ chk' = NoCheck => CheckInv'
           /\ chk' = Discard => CheckInv'
           /\ \A b \in Books : chk' = Start(b) => CheckInv'
<1> USE NoneAssumption DEF CheckInv, TypeOK
<1>1. ASSUME chk' = NoCheck PROVE CheckInv'
  BY <1>1 DEF NoCheck
<1>2. ASSUME chk' = Discard PROVE CheckInv'
  BY <1>2 DEF Discard, Checks
<1>3. ASSUME NEW b \in Books, chk' = Start(b) PROVE CheckInv'
  BY <1>3 DEF Start, Checks
<1> QED BY <1>1, <1>2, <1>3

LEMMA CheckStepInv == TypeOK /\ RowInv /\ CheckInv /\ [Next]_vars => CheckInv'
<1> SUFFICES ASSUME TypeOK, RowInv, CheckInv, [Next]_vars PROVE CheckInv'
  OBVIOUS
<1> USE NoneAssumption DEF CheckInv, TypeOK, Checks
<1>1. CASE CheckBegin
  <2>1. chk.pc = "begin" /\ chk.busy /\ chk.hash = None /\ chk.fetched = None
    BY <1>1 DEF CheckBegin
  <2>2. CASE chk' = [chk EXCEPT !.pc = "end"]
    BY <2>1, <2>2
  <2>3. CASE /\ ~chk.aborted
             /\ chk' = [chk EXCEPT !.pc = "search", !.hash = chk.requested, !.raised = (wifi # "on")]
    <3>1. chk.requested \in Books
      BY <2>1, <2>3
    <3> QED BY <2>1, <2>3, <3>1
  <2> QED BY <1>1, <2>2, <2>3 DEF CheckBegin
<1>2. CASE CheckSearch
  BY <1>2 DEF CheckSearch
<1>3. CASE CheckRequest
  <2>1. PICK row \in {None} \cup (IF wifi = "on" THEN {server[chk.hash]} ELSE {}) :
          chk' = [chk EXCEPT !.pc = "release", !.asked = TRUE, !.fetched = row]
    BY <1>3 DEF CheckRequest
  <2>2. chk.pc = "request" /\ chk.hash \in Books /\ chk.busy
    BY <1>3 DEF CheckRequest
  <2>3. row # None => row.book = chk.hash
    BY <2>1, <2>2 DEF RowInv
  <2> QED BY <2>1, <2>2, <2>3
<1>4. CASE CheckRelease \/ CheckTear
  BY <1>4 DEF CheckRelease, CheckTear
<1>5. CASE CheckEnd
  BY <1>5 DEF CheckEnd, NoCheck
<1>6. CASE CloseBook \/ PollRemoteProgress \/ GoToSleep \/ SleepAndWake \/ PowerCut
  BY <1>6, CheckCalls DEF CloseBook, PollRemoteProgress, GoToSleep, SleepAndWake, PowerCut, Off
<1>7. ASSUME NEW b \in Books, OpenBook(b) PROVE CheckInv'
  BY <1>7, CheckCalls DEF OpenBook
<1>8. CASE UNCHANGED chk
  BY <1>8
<1> QED BY <1>1, <1>2, <1>3, <1>4, <1>5, <1>6, <1>7, <1>8, ChecksOwn DEF CheckStep

LEMMA AnswerStep ==
    TypeOK /\ CheckInv /\ AnswerFitsBook /\ [Next]_vars => AnswerFitsBook'
<1> SUFFICES ASSUME TypeOK, CheckInv, AnswerFitsBook, [Next]_vars PROVE AnswerFitsBook'
  OBVIOUS
<1> USE DEF AnswerFitsBook, TypeOK
<1>1. ASSUME NEW b \in Books, OpenBook(b) PROVE AnswerFitsBook'
  BY <1>1 DEF OpenBook
<1>2. ASSUME NEW pos \in Positions, Turn(pos) PROVE AnswerFitsBook'
  <2>1. reader \in Readers /\ reader' = [reader EXCEPT !.pos = pos]
    BY <1>2, OpenReader DEF Turn, Turning, Reading
  <2> QED BY <2>1 DEF Readers
<1>3. CASE PollRemoteProgress
  <2>1. reader \in Readers
    BY <1>3, OpenReader DEF PollRemoteProgress, Turning, Reading
  <2>2. Prompts(chk.row) => chk.row.book = reader.book
    BY <1>3 DEF PollRemoteProgress, Prompts, CheckInv
  <2>3. reader'.book = reader.book /\ reader'.dialog \in {None, chk.row}
        /\ (reader'.dialog # None => Prompts(chk.row))
    BY <1>3, <2>1 DEF PollRemoteProgress, Readers
  <2> QED BY <2>2, <2>3
<1>4. ASSUME NEW jump \in BOOLEAN, Answer(jump) PROVE AnswerFitsBook'
  <2>1. reader \in Readers
    BY <1>4, OpenReader DEF Answer, Reading
  <2> QED BY <1>4, <2>1 DEF Answer, Readers
<1>5. CASE reader' = NoReader
  BY <1>5 DEF NoReader
<1>6. CASE UNCHANGED reader
  BY <1>6
<1>7. \/ UNCHANGED reader \/ reader' = NoReader \/ PollRemoteProgress
      \/ (\E b \in Books : OpenBook(b)) \/ (\E pos \in Positions : Turn(pos))
      \/ \E jump \in BOOLEAN : Answer(jump)
  BY DEF Next, vars, CheckStep, CheckBegin, CheckSearch, CheckRequest, CheckRelease, CheckTear,
         CheckEnd, ReaderStep, CloseBook, OtherReads, LendRadio, EnterSleep, SleepStep,
         GoToSleep, SleepSearch, Upload, Stamp, SleepAndWake, PowerCut, Off
<1> QED BY <1>1, <1>2, <1>3, <1>4, <1>5, <1>6, <1>7

(* The radio. *)
LEMMA RadioStep ==
    TypeOK /\ CheckInv /\ SleepInv /\ RadioInv /\ [Next]_vars => RadioInv'
<1> SUFFICES ASSUME TypeOK, CheckInv, SleepInv, RadioInv, [Next]_vars PROVE RadioInv'
  OBVIOUS
<1> USE DEF RadioInv, TypeOK, Checks
<1>1. CASE CheckBegin
  BY <1>1 DEF CheckBegin
<1>2. CASE CheckSearch
  BY <1>2 DEF CheckSearch
<1>3. CASE CheckRequest
  BY <1>3 DEF CheckRequest
<1>4. CASE CheckRelease
  BY <1>4 DEF CheckRelease
<1>5. CASE CheckTear
  BY <1>5 DEF CheckTear
<1>6. CASE CheckEnd
  BY <1>6 DEF CheckEnd, NoCheck
<1>7. ASSUME NEW b \in Books, OpenBook(b) PROVE RadioInv'
  <2>1. ~chk.busy => chk.pc = "none"
    BY DEF CheckInv
  <2> QED BY <1>7, <2>1 DEF OpenBook, Start
<1>8. CASE CloseBook
  BY <1>8 DEF CloseBook, Discard
<1>9. CASE PollRemoteProgress
  <2>1. chk.pc = "none"
    BY <1>9 DEF PollRemoteProgress, CheckInv
  <2> QED BY <1>9, <2>1 DEF PollRemoteProgress, NoCheck
<1>10. CASE LendRadio
  BY <1>10 DEF LendRadio, CheckInv
<1>11. CASE EnterSleep
  <2>1. sleep'.pending /\ UNCHANGED <<chk, wifi, lent>>
    BY <1>11, EntersSleep DEF EnterSleep
  <2> QED BY <2>1
<1>12. CASE GoToSleep
  <2>1. sleep'.pending
    BY <1>12 DEF GoToSleep, Sleeps, SleepInv
  <2> QED BY <2>1
<1>13. CASE SleepSearch \/ Upload \/ Stamp
  <2>1. sleep'.pending
    BY <1>13 DEF SleepSearch, Upload, Stamp, Sleeps, SleepInv, Down, Awake
  <2> QED BY <2>1
<1>14. CASE SleepAndWake \/ PowerCut
  BY <1>14 DEF SleepAndWake, PowerCut, Off, NoCheck
<1>15. CASE UNCHANGED <<chk, wifi, lent, sleep>>
  BY <1>15
<1> QED
  BY <1>1, <1>2, <1>3, <1>4, <1>5, <1>6, <1>7, <1>8, <1>9, <1>10, <1>11, <1>12, <1>13, <1>14, <1>15
  DEF Next, vars, CheckStep, ReaderStep, SleepStep, OtherReads, Turn, Answer

-----------------------------------------------------------------------------
(* The way into sleep, and the markers. *)

LEMMA SleepStepInv ==
    TypeOK /\ SleepInv /\ [Next]_vars => SleepInv'
<1> SUFFICES ASSUME TypeOK, SleepInv, [Next]_vars PROVE SleepInv'
  OBVIOUS
<1> USE NoneAssumption DEF SleepInv, TypeOK
<1>1. CASE EnterSleep
  <2>1. /\ sleep'.at = "leave" /\ sleep'.pending /\ (sleep'.book # None => sleep'.pos \in Positions)
    BY <1>1, EntersSleep
  <2> QED BY <2>1
<1>2. CASE GoToSleep
  BY <1>2 DEF GoToSleep, Sleeps, history
<1>3. CASE SleepSearch
  <2>1. CASE sleep' = Down
    BY <1>3, <2>1 DEF SleepSearch, Down, Awake, history
  <2>2. CASE sleep' = [sleep EXCEPT !.at = "upload"]
    BY <1>3, <2>2 DEF SleepSearch, Sleeps, history
  <2> QED BY <1>3, <2>1, <2>2 DEF SleepSearch
<1>4. CASE Upload
  <2>1. sleep.book \in Books
    BY <1>4 DEF Upload, Sleeps
  <2>2. CASE sleep' = Down
    BY <1>4, <2>2 DEF Upload, Sleeps, Down, Awake
  <2>3. CASE /\ sleep' = [sleep EXCEPT !.at = "stamp"]
             /\ acked' = [acked EXCEPT ![sleep.book] = @ \cup {sleep.pos}]
    BY <1>4, <2>1, <2>3 DEF Upload, Sleeps
  <2> QED BY <1>4, <2>2, <2>3 DEF Upload
<1>5. CASE Stamp
  BY <1>5 DEF Stamp, Sleeps, Down, Awake, history
<1>6. CASE SleepAndWake \/ PowerCut
  BY <1>6 DEF SleepAndWake, PowerCut, Off, Awake
<1>7. CASE UNCHANGED <<sleep, acked>>
  BY <1>7
<1> QED
  BY <1>1, <1>2, <1>3, <1>4, <1>5, <1>6, <1>7
  DEF Next, vars, history, CheckStep, CheckBegin, CheckSearch, CheckRequest, CheckRelease,
      CheckTear, CheckEnd, ReaderStep, OpenBook, Turn, CloseBook, PollRemoteProgress, Answer,
      OtherReads, LendRadio, SleepStep

\* The card is written by a turn, by an answer and by the stamp.
LEMMA CardsOwn ==
    ASSUME [Next]_vars
    PROVE  \/ UNCHANGED card
           \/ Stamp
           \/ (\E pos \in Positions : Turn(pos)) \/ (\E jump \in BOOLEAN : Answer(jump))
BY DEF Next, vars, CheckStep, CheckBegin, CheckSearch, CheckRequest, CheckRelease, CheckTear,
       CheckEnd, ReaderStep, OpenBook, CloseBook, PollRemoteProgress, OtherReads, LendRadio,
       EnterSleep, SleepStep, GoToSleep, SleepSearch, Upload, SleepAndWake, PowerCut

(* A turn and an answer leave the acknowledged position as it is. *)
LEMMA SyncedKept ==
    ASSUME TypeOK,
           (\E pos \in Positions : Turn(pos)) \/ (\E jump \in BOOLEAN : Answer(jump))
    PROVE  \A b \in Books : card'[b].synced = card[b].synced
<1>1. ASSUME NEW pos \in Positions, Turn(pos), NEW b \in Books
      PROVE  card'[b].synced = card[b].synced
  BY <1>1 DEF Turn, TypeOK, Cards
<1>2. ASSUME NEW jump \in BOOLEAN, Answer(jump), NEW b \in Books
      PROVE  card'[b].synced = card[b].synced
  <2> DEFINE d == reader.book
  <2>1. PICK save \in Recorded(card[d].resolved, reader.dialog.at), pos \in Landing(jump) :
          card' = [card EXCEPT ![d].resolved = save[1], ![d].pos = pos]
    BY <1>2 DEF Answer
  <2>2. d \in Books
    BY <1>2, OpenReader DEF Answer, Reading, Readers
  <2>3. card' = [card EXCEPT ![d] = [card[d] EXCEPT !.resolved = save[1], !.pos = pos]]
    BY <2>1, <2>2 DEF TypeOK
  <2> HIDE DEF d
  <2>4. b # d => card'[b] = card[b]
    BY <2>3 DEF TypeOK
  <2>5. b = d => card'[b] = [card[d] EXCEPT !.resolved = save[1], !.pos = pos]
    BY <2>2, <2>3 DEF TypeOK
  <2>6. [card[d] EXCEPT !.resolved = save[1], !.pos = pos].synced = card[d].synced
    BY <2>2 DEF TypeOK, Cards
  <2> QED BY <2>4, <2>5, <2>6
<1> QED BY <1>1, <1>2

LEMMA MarkerStep ==
    TypeOK /\ SleepInv /\ MarkerIsAcknowledged /\ [Next]_vars => MarkerIsAcknowledged'
<1> SUFFICES ASSUME TypeOK, SleepInv, MarkerIsAcknowledged, [Next]_vars,
                    NEW b \in Books, card'[b].synced # None
             PROVE  card'[b].synced \in acked'[b]
  BY DEF MarkerIsAcknowledged
<1>1. acked[b] \subseteq acked'[b]
  <2>1. UNCHANGED acked \/ acked' = [acked EXCEPT ![sleep.book] = @ \cup {sleep.pos}]
    BY DEF Next, vars, history, CheckStep, CheckBegin, CheckSearch, CheckRequest, CheckRelease,
           CheckTear, CheckEnd, ReaderStep, OpenBook, Turn, CloseBook, PollRemoteProgress, Answer,
           OtherReads, LendRadio, EnterSleep, SleepStep, GoToSleep, SleepSearch, Upload, Stamp,
           SleepAndWake, PowerCut
  <2> QED BY <2>1 DEF TypeOK
<1>2. CASE Stamp
  <2>1. sleep.pos \in acked[sleep.book] /\ sleep.book \in Books
    BY <1>2 DEF Stamp, SleepInv, TypeOK, Sleeps
  <2>2. PICK save \in Saved(card[sleep.book].synced, sleep.pos, None) :
          card' = [card EXCEPT ![sleep.book].synced = save[1]]
    BY <1>2 DEF Stamp
  <2>3. save[1] \in {card[sleep.book].synced, sleep.pos, None}
    BY <2>2 DEF Saved
  <2>4. b # sleep.book => card'[b] = card[b]
    BY <2>1, <2>2 DEF TypeOK
  <2>5. b = sleep.book => card'[b].synced = save[1]
    BY <2>1, <2>2 DEF TypeOK, Cards
  <2> QED BY <1>1, <2>1, <2>3, <2>4, <2>5 DEF MarkerIsAcknowledged
<1>3. CASE ~Stamp
  <2>1. card'[b].synced = card[b].synced
    BY <1>3, CardsOwn, SyncedKept
  <2> QED BY <1>1, <2>1 DEF MarkerIsAcknowledged
<1> QED BY <1>2, <1>3

\* Only a start of a book and its end change the baseline or wake the device.
LEMMA BaselineStep ==
    TypeOK /\ BaselineInv /\ [Next]_vars => BaselineInv'
<1> SUFFICES ASSUME TypeOK, BaselineInv, [Next]_vars, reader'.book # None, sleep'.at = "awake"
             PROVE  card'[reader'.book].synced \in {None, reader'.baseline}
  BY DEF BaselineInv
<1>1. ASSUME NEW b \in Books, OpenBook(b) PROVE card'[b].synced \in {None, reader'.baseline}
  BY <1>1 DEF OpenBook, Baseline
<1>2. CASE /\ reader.book # None /\ sleep.at = "awake"
           /\ reader'.book = reader.book /\ reader'.baseline = reader.baseline
           /\ card'[reader.book].synced = card[reader.book].synced
  BY <1>2 DEF BaselineInv
<1>3. ASSUME ~\E b \in Books : OpenBook(b)
      PROVE  /\ reader.book # None /\ sleep.at = "awake"
             /\ reader'.book = reader.book /\ reader'.baseline = reader.baseline
  <2>1. reader' # NoReader
    BY DEF NoReader
  <2>2. CASE UNCHANGED <<reader, sleep>>
    BY <2>2
  <2>3. ASSUME NEW pos \in Positions, Turn(pos)
        PROVE  /\ reader.book # None /\ sleep.at = "awake"
               /\ reader'.book = reader.book /\ reader'.baseline = reader.baseline
    BY <2>3, OpenReader DEF Turn, Turning, Reading, Readers
  <2>4. CASE PollRemoteProgress
    BY <2>4, OpenReader DEF PollRemoteProgress, Turning, Reading, Readers
  <2>5. ASSUME NEW jump \in BOOLEAN, Answer(jump)
        PROVE  /\ reader.book # None /\ sleep.at = "awake"
               /\ reader'.book = reader.book /\ reader'.baseline = reader.baseline
    BY <2>5, OpenReader DEF Answer, Reading, Readers
  <2>6. CASE SleepStep \/ EnterSleep
    BY <2>1, <2>6 DEF TypeOK, Sleeps, SleepStep, EnterSleep, GoToSleep, SleepSearch, Upload,
       Stamp, SleepAndWake, Off, Down, Awake
  <2>7. CASE CloseBook \/ PowerCut
    BY <2>1, <2>7 DEF CloseBook, PowerCut, Off
  <2> QED
    BY <1>3, <2>2, <2>3, <2>4, <2>5, <2>6, <2>7
    DEF Next, vars, CheckStep, CheckBegin, CheckSearch, CheckRequest, CheckRelease, CheckTear,
        CheckEnd, ReaderStep, OtherReads, LendRadio
<1>4. ASSUME sleep.at = "awake", reader.book # None
      PROVE  card'[reader.book].synced = card[reader.book].synced
  <2>1. reader.book \in Books /\ ~Stamp
    BY <1>4, OpenReader DEF Stamp, Readers
  <2> QED BY <2>1, CardsOwn, SyncedKept
<1>5. ASSUME NEW b \in Books, OpenBook(b) PROVE reader'.book = b
  BY <1>5 DEF OpenBook
<1> QED BY <1>1, <1>2, <1>3, <1>4, <1>5

LEMMA AnsweredStep ==
    TypeOK /\ AnsweredInv /\ [Next]_vars => AnsweredInv'
<1> SUFFICES ASSUME TypeOK, AnsweredInv, [Next]_vars PROVE AnsweredInv'
  OBVIOUS
<1>1. ASSUME NEW jump \in BOOLEAN, Answer(jump) PROVE AnsweredInv'
  <2> DEFINE d == reader.book
             at == reader.dialog.at
  <2>1. PICK save \in Recorded(card[d].resolved, at), pos \in Landing(jump) :
          /\ card' = [card EXCEPT ![d].resolved = save[1], ![d].pos = pos]
          /\ answered' = [answered EXCEPT ![d] = NowAnswered(@, at, save[2])]
    BY <1>1 DEF Answer
  <2>2. d \in Books /\ reader \in Readers /\ reader.dialog # None
    BY <1>1, OpenReader DEF Answer, Reading, Readers
  <2>3. card' = [card EXCEPT ![d] = [card[d] EXCEPT !.resolved = save[1], !.pos = pos]]
    BY <2>1, <2>2 DEF TypeOK
  <2>4. NowAnswered(answered[d], at, save[2]) <= save[1]
    BY <2>1, <2>2, AnswerTypes DEF AnsweredInv
  <2> HIDE DEF d, at
  <2>5. ASSUME NEW b \in Books \ {d} PROVE answered'[b] <= card'[b].resolved
    <3>1. card'[b] = card[b] /\ answered'[b] = answered[b]
      BY <2>1, <2>3, <2>5 DEF TypeOK
    <3> QED BY <3>1 DEF AnsweredInv
  <2>6. answered'[d] <= card'[d].resolved
    <3>1. card'[d] = [card[d] EXCEPT !.resolved = save[1], !.pos = pos]
      BY <2>2, <2>3 DEF TypeOK
    <3>2. card'[d].resolved = save[1]
      BY <2>2, <3>1 DEF TypeOK, Cards
    <3>3. answered'[d] = NowAnswered(answered[d], at, save[2])
      BY <2>1, <2>2 DEF TypeOK
    <3> QED BY <2>4, <3>2, <3>3
  <2> QED BY <2>5, <2>6 DEF AnsweredInv
<1>2. CASE UNCHANGED answered /\ \A b \in Books : card'[b].resolved = card[b].resolved
  BY <1>2 DEF AnsweredInv
<1>3. ASSUME ~\E jump \in BOOLEAN : Answer(jump) PROVE UNCHANGED answered
  BY <1>3 DEF Next, vars, history, CheckStep, CheckBegin, CheckSearch, CheckRequest, CheckRelease,
       CheckTear, CheckEnd, ReaderStep, OpenBook, Turn, CloseBook, PollRemoteProgress,
       OtherReads, LendRadio, EnterSleep, SleepStep, GoToSleep, SleepSearch, Upload, Stamp,
       SleepAndWake, PowerCut
<1>4. ASSUME NEW pos \in Positions, Turn(pos), NEW b \in Books
      PROVE  card'[b].resolved = card[b].resolved
  BY <1>4 DEF Turn, TypeOK, Cards
<1>5. ASSUME Stamp, NEW b \in Books PROVE card'[b].resolved = card[b].resolved
  BY <1>5 DEF Stamp, TypeOK, Cards
<1> QED BY <1>1, <1>2, <1>3, <1>4, <1>5, CardsOwn

LEMMA Invariance == Spec => []IInv
<1>1. IInv /\ [Next]_vars => IInv'
  BY TypeStep, RowStep, CheckStepInv, AnswerStep, RadioStep, SleepStepInv, MarkerStep,
     BaselineStep, AnsweredStep DEF IInv
<1> QED BY InitInv, <1>1, PTL DEF Spec

-----------------------------------------------------------------------------
(* Every state has the types the model says. *)
THEOREM TypeCorrect == Spec => []TypeOK
<1>1. IInv => TypeOK
  BY DEF IInv
<1> QED BY Invariance, <1>1, PTL

(* No check ever answers for another book, however often books are opened and closed
   while one runs. *)
THEOREM AnswersFit == Spec => []AnswerFitsBook
<1>1. IInv => AnswerFitsBook
  BY DEF IInv
<1> QED BY Invariance, <1>1, PTL

(* The radio never stays up for a check that is done. *)
THEOREM RadioReturns == Spec => []RadioGivenBack
<1>1. IInv => RadioGivenBack
  BY DEF IInv, RadioInv, CheckInv, RadioGivenBack
<1> QED BY Invariance, <1>1, PTL

(* The marker of a book never claims more than the server has acknowledged. *)
THEOREM MarkerSound == Spec => []MarkerIsAcknowledged
<1>1. IInv => MarkerIsAcknowledged
  BY DEF IInv
<1> QED BY Invariance, <1>1, PTL

(* Every position that differs from the marker goes up with the next sleep from the
   book, however many boots lie between. *)
THEOREM UnsentGoesUp == Spec => UnsentIsRetried
<1> DEFINE Step == sleep.at = "awake" /\ sleep'.at = "leave" /\ reader.book # None
                     /\ UNCHANGED faults =>
                     LET b == reader.book
                     IN card[b].synced \notin {None, reader.pos} => sleep'.book = b
<1>1. IInv /\ [Next]_vars => [Step]_vars
  <2> SUFFICES ASSUME IInv, [Next]_vars, sleep.at = "awake", sleep'.at = "leave",
                      reader.book # None, UNCHANGED faults, card[reader.book].synced \notin {None, reader.pos}
               PROVE  sleep'.book = reader.book
    OBVIOUS
  <2>1. EnterSleep
    <3>1. ~UNCHANGED sleep
      OBVIOUS
    <3>2. ~SleepStep
      BY DEF SleepStep, GoToSleep, SleepSearch, Upload, Stamp, SleepAndWake
    <3>3. ~PowerCut
      BY DEF PowerCut, Off, Awake
    <3> QED
      BY <3>1, <3>2, <3>3
      DEF Next, vars, CheckStep, CheckBegin, CheckSearch, CheckRequest, CheckRelease, CheckTear,
          CheckEnd, ReaderStep, OpenBook, Turn, CloseBook, PollRemoteProgress, Answer,
          OtherReads, LendRadio
  <2>2. reader.pos # reader.baseline
    BY DEF IInv, BaselineInv
  <2>3. faults \in Nat
    BY BoundsAssumption DEF IInv, TypeOK
  <2> QED BY <2>1, <2>2, <2>3 DEF EnterSleep, Leaving, HasUnsyncedProgress
<1>2. [][Step]_vars => UnsentIsRetried
  BY PTL DEF UnsentIsRetried
<1> QED BY Invariance, <1>1, <1>2, PTL DEF Spec

(* What was answered, and recorded, is never asked again. *)
THEOREM AskedOnce == Spec => NotAskedTwice
<1> DEFINE Step == reader.book # None /\ reader'.book # None /\ reader'.dialog # None
                     /\ reader.dialog = None =>
                   reader'.dialog.at = Unstamped \/ reader'.dialog.at > answered[reader.book]
<1>1. IInv /\ [Next]_vars => [Step]_vars
  <2> SUFFICES ASSUME IInv, [Next]_vars, reader.book # None, reader'.book # None,
                      reader'.dialog # None, reader.dialog = None,
                      reader'.dialog.at # Unstamped
               PROVE  reader'.dialog.at > answered[reader.book]
    OBVIOUS
  <2>1. reader \in Readers
    BY OpenReader DEF IInv
  <2>2. PollRemoteProgress
    <3>1. ~UNCHANGED reader /\ reader' # NoReader
      BY DEF NoReader
    <3>2. \A b \in Books : ~OpenBook(b)
      BY DEF OpenBook
    <3>3. \A jump \in BOOLEAN : ~Answer(jump)
      BY DEF Answer
    <3>4. \A pos \in Positions : ~Turn(pos)
      BY <2>1 DEF Turn, Readers
    <3> QED
      BY <3>1, <3>2, <3>3, <3>4
      DEF Next, vars, CheckStep, CheckBegin, CheckSearch, CheckRequest, CheckRelease, CheckTear,
          CheckEnd, ReaderStep, CloseBook, OtherReads, LendRadio, EnterSleep, SleepStep,
          GoToSleep, SleepSearch, Upload, Stamp, SleepAndWake, PowerCut, Off
  <2>3. reader'.dialog = chk.row /\ chk.row # None /\ chk.row.at > card[reader.book].resolved
    BY <2>1, <2>2 DEF PollRemoteProgress, Prompts, Readers
  <2>4. answered[reader.book] <= card[reader.book].resolved /\ reader.book \in Books
    BY <2>1 DEF IInv, AnsweredInv, Readers
  <2>5. /\ chk.row.at \in Nat /\ answered[reader.book] \in Nat
        /\ card[reader.book].resolved \in Nat
    BY <2>3, <2>4, BoundsAssumption DEF IInv, TypeOK, Checks, ServerRows, Cards
  <2> QED BY <2>3, <2>4, <2>5
<1>2. [][Step]_vars => NotAskedTwice
  BY PTL DEF NotAskedTwice
<1> QED BY Invariance, <1>1, <1>2, PTL DEF Spec
===============================================================================
