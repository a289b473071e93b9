------------------------------ MODULE BookFifo ------------------------------
(***************************************************************************)
(* What the download queue promises the reader, with no task, lock, flag or *)
(* file: books wait in a line of bounded length, none twice; only the one   *)
(* in front leaves, with an outcome, and the count of good outcomes grows   *)
(* with exactly the good ones; or the whole line is given up.               *)
(***************************************************************************)
EXTENDS Naturals, Sequences

CONSTANTS Books, Limit, Nobody

VARIABLES line,      \* the books waiting, the next one first
          outcome,   \* the last book that left and whether it was downloaded
          delivered  \* how many were

vars == <<line, outcome, delivered>>

NoOutcome == <<Nobody, FALSE>>

Init == line = <<>> /\ outcome = NoOutcome /\ delivered = 0

InLine(b) == \E i \in DOMAIN line : line[i] = b

Join(b) ==
    /\ ~InLine(b)
    /\ Len(line) < Limit
    /\ line' = Append(line, b)
    /\ UNCHANGED <<outcome, delivered>>

Leave(ok) ==
    /\ line # <<>>
    /\ line' = Tail(line)
    /\ outcome' = <<Head(line), ok>>
    /\ delivered' = IF ok THEN delivered + 1 ELSE delivered

GiveUp == line' = <<>> /\ UNCHANGED <<outcome, delivered>>

PowerOff == line' = <<>> /\ outcome' = NoOutcome /\ delivered' = 0

Next == (\E b \in Books : Join(b)) \/ (\E ok \in BOOLEAN : Leave(ok)) \/ GiveUp \/ PowerOff

Spec == Init /\ [][Next]_vars
=============================================================================
