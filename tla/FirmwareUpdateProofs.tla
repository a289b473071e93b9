------------------------ MODULE FirmwareUpdateProofs ------------------------
(***************************************************************************)
(* For any number of chunks and of updates: the device always boots, the    *)
(* boot entry only names whole images, and a successful update boots next.  *)
(*                                                                          *)
(* The argument: while the device runs, its own partition is whole and the  *)
(* update writes the other one; until the boot entry is replaced it names   *)
(* the running partition, and that entry is no longer on trial, so neither  *)
(* an erase of the other entry nor a boot can take it away; and once it is  *)
(* replaced both partitions are whole, so whichever entry is chosen is too. *)
(***************************************************************************)
EXTENDS FirmwareUpdate, TLAPS

BothWhole == \A p \in Partitions : app[p] = "whole"

\* The active entry, if any, is not one that rollback could still take away.
Settled(s) ==
    rollback /\ ActiveIdx(s) # NoSlot => s[ActiveIdx(s)].state \notin {"new", "pending"}

RunningInv ==
    /\ On => app[running] = "whole"
    /\ ~On => pc = "idle" /\ AlwaysBoots

DestInv == pc \in Flashing \cup {"validated", "done"} => dest = 1 - running

ImageInv ==
    /\ pc \in {"validated", "sdWrite"} /\ same => file = "whole"
    /\ pc = "sdWrite" /\ written = Chunks /\ same => app[dest] = "whole"
    /\ pc \in {"erase", "program"} /\ same => app[dest] = "whole"
    /\ pc = "done" /\ ~gambled => app[dest] = "whole"

SelectionInv ==
    /\ pc = "done" => Selected(slots) = dest
    /\ On /\ pc # "done" /\ ~gambled => Selected(slots) = running /\ Settled(slots)
    /\ ~On /\ ~gambled => BothWhole \/ (app[Selected(slots)] = "whole" /\ Settled(slots))

IInv == TypeOK /\ RunningInv /\ DestInv /\ ImageInv /\ SelectionInv

AllSlots == [{0, 1} -> Entries]

-----------------------------------------------------------------------------
(* What otadata says. *)

(* The selection is always one of the two partitions. *)
LEMMA SelectedType ==
    ASSUME NEW s \in AllSlots PROVE Selected(s) \in Partitions
BY DEF AllSlots, Entries, Selected, Named, ActiveIdx, NoSlot, Partitions

(* The new sequence number is past the active one and names the partition. *)
LEMMA NewSeqNames ==
    ASSUME NEW s \in AllSlots, NEW d \in Partitions
    PROVE  /\ NewSeq(s, d) \in Nat
           /\ NewSeq(s, d) > ActiveSeq(s)
           /\ (NewSeq(s, d) - 1) % 2 = d
<1>1. ActiveSeq(s) \in Nat
  BY DEF AllSlots, Entries, ActiveSeq, ActiveIdx, NoSlot
<1> QED BY <1>1 DEF NewSeq, Partitions

(* Erasing the target entry changes neither the selection nor the active entry. *)
LEMMA EraseKeepsSelection ==
    ASSUME NEW s \in AllSlots,
           NEW t, t = [s EXCEPT ![TargetSlot(s)] = Blank]
    PROVE  /\ t \in AllSlots
           /\ ActiveIdx(t) = ActiveIdx(s)
           /\ Selected(t) = Selected(s)
           /\ Settled(s) => Settled(t)
<1>1. Blank \in Entries /\ ~Usable(Blank)
  BY DEF Blank, Entries, Usable
<1>2. t \in AllSlots
  BY <1>1 DEF AllSlots, TargetSlot
<1>3. CASE ActiveIdx(s) = 0
  <2>1. t[0] = s[0] /\ t[1] = Blank
    BY <1>3 DEF TargetSlot, AllSlots
  <2>2. Usable(s[0])
    BY <1>3 DEF ActiveIdx, NoSlot
  <2>3. ActiveIdx(t) = 0
    BY <1>1, <2>1, <2>2 DEF ActiveIdx
  <2> QED BY <1>2, <1>3, <2>1, <2>3 DEF Selected, Settled, NoSlot
<1>4. CASE ActiveIdx(s) # 0
  <2>1. t[1] = s[1] /\ t[0] = Blank
    BY <1>4 DEF TargetSlot, AllSlots
  <2>2. ActiveIdx(t) = ActiveIdx(s)
    BY <1>1, <1>4, <2>1 DEF ActiveIdx
  <2> QED BY <1>2, <1>4, <2>1, <2>2 DEF Selected, Settled, ActiveIdx, NoSlot
<1> QED BY <1>3, <1>4

(* The entry switchTo() writes is the one that counts. *)
LEMMA ProgramSelects ==
    ASSUME NEW s \in AllSlots, NEW d \in Partitions,
           NEW t, t = [s EXCEPT ![TargetSlot(s)] = Entry(s, d)]
    PROVE  t \in AllSlots /\ Selected(t) = d
<1> DEFINE e == Entry(s, d)
<1>1. e.seq = NewSeq(s, d) /\ e.crc /\ e.state = "new"
  BY DEF Entry
<1>2. e.seq \in Nat /\ e.seq > ActiveSeq(s) /\ Named(e) = d
  BY NewSeqNames, <1>1 DEF Named
<1>3. e \in Entries /\ Usable(e)
  BY <1>1, <1>2, NewSeqNames DEF Entry, Entries, Usable
<1>4. t \in AllSlots
  BY <1>3 DEF AllSlots, TargetSlot
<1>5. CASE ActiveIdx(s) = 0
  <2>1. t[0] = s[0] /\ t[1] = e
    BY <1>5 DEF TargetSlot, AllSlots
  <2>2. ActiveSeq(s) = s[0].seq
    BY <1>5 DEF ActiveSeq, NoSlot
  <2>3. s[0].seq \in Nat
    BY DEF AllSlots, Entries
  <2>4. ~(e.seq <= t[0].seq)
    BY <1>2, <2>1, <2>2, <2>3
  <2>5. ActiveIdx(t) = 1
    BY <1>3, <2>1, <2>4 DEF ActiveIdx
  <2> QED BY <1>2, <1>4, <2>1, <2>5 DEF Selected, NoSlot
<1>6. CASE ActiveIdx(s) # 0
  <2>1. t[1] = s[1] /\ t[0] = e
    BY <1>6 DEF TargetSlot, AllSlots
  <2>2. Usable(s[1]) => ActiveIdx(s) = 1
    BY <1>6 DEF ActiveIdx
  <2>3. Usable(s[1]) => s[1].seq <= e.seq
    BY <1>2, <2>2 DEF ActiveSeq, NoSlot, AllSlots, Entries
  <2>4. ActiveIdx(t) = 0
    BY <1>3, <2>1, <2>3 DEF ActiveIdx
  <2> QED BY <1>2, <1>4, <2>1, <2>4 DEF Selected, NoSlot
<1> QED BY <1>5, <1>6

-----------------------------------------------------------------------------
(* What the bootloader makes of otadata before it starts an image. *)

(* Entries whose fields but the state are kept, and whose usability does not change,
   select the same partition. *)
LEMMA SameChoice ==
    ASSUME NEW s \in AllSlots, NEW t \in AllSlots,
           \A i \in {0, 1} : t[i].seq = s[i].seq /\ (Usable(t[i]) <=> Usable(s[i]))
    PROVE  ActiveIdx(t) = ActiveIdx(s) /\ Selected(t) = Selected(s)
<1>1. ActiveIdx(t) = ActiveIdx(s)
  BY DEF ActiveIdx
<1> QED BY <1>1 DEF Selected, Named, ActiveIdx, NoSlot

(* Dropping the trials that were not confirmed keeps the entries entries, *)
LEMMA AgedType ==
    ASSUME NEW s \in AllSlots PROVE Aged(s) \in AllSlots
<1> SUFFICES ASSUME NEW i \in {0, 1}
             PROVE  (IF rollback /\ s[i].state = "pending"
                     THEN [s[i] EXCEPT !.state = "aborted"] ELSE s[i]) \in Entries
  BY DEF Aged, AllSlots
<1> QED BY DEF AllSlots, Entries

(* and it does not touch a selection that is settled. *)
LEMMA AgedSettled ==
    ASSUME NEW s \in AllSlots, rollback \in BOOLEAN, Settled(s)
    PROVE  /\ Selected(Aged(s)) = Selected(s)
           /\ OnTrial(Aged(s)) = Aged(s)
<1> DEFINE a == Aged(s)
<1>1. a \in AllSlots
  BY AgedType
<1>2. \A i \in {0, 1} : a[i] = IF rollback /\ s[i].state = "pending"
                               THEN [s[i] EXCEPT !.state = "aborted"] ELSE s[i]
  BY DEF Aged
<1>3. \A i \in {0, 1} : a[i].seq = s[i].seq /\ (Usable(a[i]) => Usable(s[i]))
  BY <1>2 DEF AllSlots, Entries, Usable
<1>4. \A i \in {0, 1} : i = ActiveIdx(s) => a[i] = s[i]
  BY <1>2 DEF Settled, NoSlot
<1>5. ActiveIdx(a) = ActiveIdx(s)
  BY <1>3, <1>4 DEF ActiveIdx
<1>6. ActiveIdx(s) \in {NoSlot, 0, 1}
  BY DEF ActiveIdx
<1>7. Selected(a) = Selected(s)
  BY <1>4, <1>5, <1>6 DEF Selected
<1>8. \A i \in {0, 1} : rollback /\ i = ActiveIdx(a) => a[i].state # "new"
  BY <1>4, <1>5 DEF Settled, NoSlot
<1>9. OnTrial(a) = [i \in {0, 1} |-> a[i]]
  BY <1>8 DEF OnTrial
<1>10. [i \in {0, 1} |-> a[i]] = a
  BY <1>1 DEF AllSlots
<1> QED BY <1>7, <1>9, <1>10

(* The entry that is active when the bootloader hands over is not a new one. *)
LEMMA TrialStarted ==
    ASSUME NEW s \in AllSlots, rollback \in BOOLEAN
    PROVE  /\ OnTrial(Aged(s)) \in AllSlots
           /\ \A i \in {0, 1} : rollback /\ i = ActiveIdx(OnTrial(Aged(s)))
                                    => OnTrial(Aged(s))[i].state # "new"
<1> DEFINE a == Aged(s)
           t == OnTrial(a)
<1>1. a \in AllSlots
  BY AgedType
<1> HIDE DEF a
<1>2. \A i \in {0, 1} : t[i] = IF rollback /\ i = ActiveIdx(a) /\ a[i].state = "new"
                               THEN [a[i] EXCEPT !.state = "pending"] ELSE a[i]
  BY DEF OnTrial
<1>3. \A i \in {0, 1} : t[i] \in Entries
  BY <1>1, <1>2 DEF AllSlots, Entries
<1>4. t \in AllSlots
  BY <1>3 DEF OnTrial, AllSlots
<1>5. \A i \in {0, 1} : t[i].seq = a[i].seq /\ (Usable(t[i]) <=> Usable(a[i]))
  BY <1>1, <1>2 DEF AllSlots, Entries, Usable
<1>6. ActiveIdx(t) = ActiveIdx(a)
  BY <1>1, <1>4, <1>5, SameChoice
<1>7. \A i \in {0, 1} : rollback /\ i = ActiveIdx(t) => t[i].state # "new"
  BY <1>1, <1>2, <1>6 DEF AllSlots, Entries
<1> QED BY <1>4, <1>7 DEF a

(* Once the selected image has confirmed itself, the selection is settled. *)
LEMMA ConfirmedSettled ==
    ASSUME NEW t \in AllSlots, NEW p \in Partitions,
           \A i \in {0, 1} : rollback /\ i = ActiveIdx(t) => t[i].state # "new"
    PROVE  /\ Confirmed(t, p) \in AllSlots
           /\ Selected(Confirmed(t, p)) = Selected(t)
           /\ p = Selected(t) => Settled(Confirmed(t, p))
<1> DEFINE c == Confirmed(t, p)
<1>1. \A i \in {0, 1} : c[i] = IF t[i].state = "pending" /\ Named(t[i]) = p
                               THEN [t[i] EXCEPT !.state = "valid"] ELSE t[i]
  BY DEF Confirmed
<1>2. \A i \in {0, 1} : c[i] \in Entries
  BY <1>1 DEF AllSlots, Entries
<1>3. c \in AllSlots
  BY <1>2 DEF Confirmed, AllSlots
<1>4. \A i \in {0, 1} : c[i].seq = t[i].seq /\ (Usable(c[i]) <=> Usable(t[i]))
  BY <1>1 DEF AllSlots, Entries, Usable
<1>5. ActiveIdx(c) = ActiveIdx(t) /\ Selected(c) = Selected(t)
  BY <1>3, <1>4, SameChoice
<1>6. ASSUME p = Selected(t), rollback, ActiveIdx(c) # NoSlot
      PROVE  c[ActiveIdx(c)].state \notin {"new", "pending"}
  <2>1. ActiveIdx(t) \in {0, 1}
    BY <1>5, <1>6 DEF ActiveIdx
  <2>2. Named(t[ActiveIdx(t)]) = p
    BY <1>5, <1>6 DEF Selected
  <2>3. t[ActiveIdx(t)].state # "new"
    BY <1>6, <2>1
  <2>4. t[ActiveIdx(t)] \in Entries
    BY <2>1 DEF AllSlots
  <2> QED BY <1>1, <1>5, <2>1, <2>2, <2>3, <2>4 DEF Entries
<1> QED BY <1>3, <1>5, <1>6 DEF Settled

-----------------------------------------------------------------------------
(* The invariant. *)

LEMMA InitInv == Init => IInv
<1> SUFFICES ASSUME Init PROVE IInv
  OBVIOUS
<1> USE DEF Init, Partitions, Images, Off
<1>1. slots \in AllSlots
  BY DEF AllSlots, Entries, Blank
<1>2. ActiveIdx(slots) = NoSlot
  BY DEF ActiveIdx, Usable, Blank
<1>3. TypeOK
  <2>1. app \in [Partitions -> Images] /\ written \in 0..Chunks /\ pc \in Stages
    BY ChunksAssumption DEF Stages
  <2>2. /\ rollback \in BOOLEAN /\ running \in Partitions \cup {Off} /\ dest \in Partitions
        /\ file \in Images /\ same \in BOOLEAN /\ gambled \in BOOLEAN
    OBVIOUS
  <2> QED BY <1>1, <2>1, <2>2 DEF TypeOK, AllSlots
<1>4. RunningInv /\ DestInv /\ ImageInv
  BY DEF RunningInv, DestInv, ImageInv, On, Flashing
<1>5. SelectionInv
  BY <1>2 DEF SelectionInv, Selected, Settled, On, NoSlot
<1> QED BY <1>3, <1>4, <1>5 DEF IInv

(* Each action keeps the types. *)
LEMMA TypeStep == TypeOK /\ [Next]_vars => TypeOK'
<1> SUFFICES ASSUME TypeOK, [Next]_vars PROVE TypeOK'
  OBVIOUS
<1> USE DEF TypeOK, Partitions, Images, Stages, Flashing, flash, history
<1>1. slots \in AllSlots
  BY DEF AllSlots
<1>2. CASE PickFile
  BY <1>2 DEF PickFile
<1>3. CASE Decline \/ Acknowledge \/ UpdateFails
  BY <1>3 DEF Decline, Acknowledge, UpdateFails
<1>4. CASE Revalidate
  BY <1>4 DEF Revalidate, NextUpdatePartition, On, Off
<1>5. CASE OpenFile
  BY <1>5, ChunksAssumption DEF OpenFile
<1>10. CASE SdWritten \/ OtaFetched \/ OtaEnd
  BY <1>10 DEF SdWritten, OtaFetched, OtaEnd
<1>11. CASE SwapCard \/ PowerOff
  BY <1>11 DEF SwapCard, PowerOff
<1>12. CASE SdWrite
  BY <1>12, ChunksAssumption DEF SdWrite
<1>13. CASE OtaWrite
  BY <1>13, ChunksAssumption DEF OtaWrite
<1>14. CASE OtaBegin
  BY <1>14, ChunksAssumption DEF OtaBegin, NextUpdatePartition, On, Off
<1>6. CASE EraseEntry
  <2>1. slots' \in AllSlots
    BY <1>1, <1>6, EraseKeepsSelection DEF EraseEntry
  <2> QED BY <1>6, <2>1 DEF EraseEntry, AllSlots
<1>7. CASE ProgramEntry
  <2>1. slots' \in AllSlots
    BY <1>1, <1>7, ProgramSelects DEF ProgramEntry
  <2> QED BY <1>7, <2>1 DEF ProgramEntry, AllSlots
<1>8. CASE Boot \/ BootCrashes
  <2> DEFINE s == OnTrial(Aged(slots))
  <2>1. /\ s \in AllSlots
        /\ \A i \in {0, 1} : rollback /\ i = ActiveIdx(s) => s[i].state # "new"
    BY <1>1, TrialStarted
  <2> HIDE DEF s
  <2>2. Bootable(s) \in Partitions
    BY <2>1, SelectedType DEF Bootable
  <2>3. Confirmed(s, Bootable(s)) \in AllSlots
    BY <2>1, <2>2, ConfirmedSettled
  <2>4. slots' \in AllSlots /\ running' \in Partitions \cup {Off}
    <3>1. CASE Boot
      <4>1. slots' = Confirmed(s, Bootable(s)) /\ running' = Bootable(s)
        BY <3>1 DEF Boot, s
      <4> QED BY <2>2, <2>3, <4>1
    <3>2. CASE BootCrashes
      <4>1. slots' = s /\ running' = running
        BY <3>2 DEF BootCrashes, s
      <4> QED BY <2>1, <4>1
    <3> QED BY <1>8, <3>1, <3>2
  <2> QED BY <1>8, <2>4 DEF Boot, BootCrashes, AllSlots
<1>9. CASE UNCHANGED vars
  BY <1>9 DEF vars
<1> QED BY <1>2, <1>3, <1>4, <1>5, <1>6, <1>7, <1>8, <1>9, <1>10, <1>11, <1>12, <1>13, <1>14
       DEF Next

(* Each action keeps the invariant. *)
LEMMA StepInv == IInv /\ [Next]_vars => IInv'
<1> SUFFICES ASSUME IInv, [Next]_vars PROVE IInv'
  OBVIOUS
<1>1. TypeOK /\ RunningInv /\ DestInv /\ ImageInv /\ SelectionInv
  BY DEF IInv
<1>2. TypeOK'
  BY <1>1, TypeStep
<1>3. slots \in AllSlots /\ rollback \in BOOLEAN /\ dest \in Partitions /\ app \in [Partitions -> Images]
  BY <1>1 DEF TypeOK, AllSlots
<1> USE DEF Flashing, flash, history
<1>4. ASSUME On, pc # "done", running' = running, pc' # "done", gambled' = gambled,
             slots' = slots, rollback' = rollback
      PROVE  SelectionInv'
  BY <1>1, <1>4 DEF SelectionInv, On, Settled
<1>5. CASE PickFile \/ Decline \/ Acknowledge \/ UpdateFails
  <2>1. /\ On /\ pc # "done" /\ pc' \in {"idle", "confirm", "failed"}
        /\ UNCHANGED <<app, slots, rollback, running, gambled>>
    BY <1>5 DEF PickFile, Decline, Acknowledge, UpdateFails
  <2> QED BY <1>1, <1>2, <1>4, <2>1 DEF IInv, RunningInv, DestInv, ImageInv, On
<1>6. CASE Revalidate
  <2>1. /\ On /\ pc = "confirm" /\ pc' = IF file = "whole" THEN "validated" ELSE "failed"
        /\ dest' = 1 - running /\ UNCHANGED <<app, slots, rollback, running, file, gambled>>
    BY <1>6 DEF Revalidate, NextUpdatePartition
  <2> QED BY <1>1, <1>2, <1>4, <2>1 DEF IInv, RunningInv, DestInv, ImageInv, On
<1>7. CASE OpenFile
  <2>1. /\ On /\ pc = "validated" /\ pc' = "sdWrite" /\ written' = 0
        /\ app' = [app EXCEPT ![dest] = "torn"]
        /\ UNCHANGED <<slots, rollback, running, dest, file, history>>
    BY <1>7 DEF OpenFile
  <2>2. dest = 1 - running /\ app[running] = "whole" /\ running \in Partitions
    BY <1>1, <2>1 DEF DestInv, RunningInv, TypeOK, On
  <2>3. app'[running] = "whole"
    BY <1>3, <2>1, <2>2 DEF Partitions
  <2> QED BY <1>1, <1>2, <1>4, <2>1, <2>2, <2>3, ChunksAssumption
          DEF IInv, RunningInv, DestInv, ImageInv, On
<1>8. CASE SdWrite
  <2>1. /\ On /\ pc = "sdWrite" /\ UNCHANGED <<slots, rollback, running, pc, dest, file, history>>
    BY <1>8 DEF SdWrite
  <2>2. PICK image \in (IF same /\ file = "whole" THEN {"whole"} ELSE Images) :
           app' = [app EXCEPT ![dest] = IF written' = Chunks THEN image ELSE "torn"]
    BY <1>8 DEF SdWrite
  <2>3. dest = 1 - running /\ app[running] = "whole" /\ running \in Partitions
    BY <1>1, <2>1 DEF DestInv, RunningInv, TypeOK, On
  <2>4. app'[running] = "whole"
    BY <1>3, <2>2, <2>3 DEF Partitions
  <2>5. same /\ written' = Chunks => app'[dest] = "whole"
    BY <1>1, <1>3, <2>1, <2>2 DEF ImageInv
  <2> QED BY <1>1, <1>2, <1>4, <2>1, <2>3, <2>4, <2>5 DEF IInv, RunningInv, DestInv, ImageInv, On
<1>9. CASE SdWritten
  <2>1. /\ On /\ pc = "sdWrite" /\ written = Chunks /\ pc' = "erase"
        /\ UNCHANGED <<app, slots, rollback, running, dest, file, same, gambled>>
    BY <1>9 DEF SdWritten
  <2> QED BY <1>1, <1>2, <1>4, <2>1 DEF IInv, RunningInv, DestInv, ImageInv, On
<1>10. CASE OtaBegin
  <2>1. /\ On /\ pc = "idle" /\ pc' = "otaWrite" /\ dest' = 1 - running
        /\ app' = [app EXCEPT ![1 - running] = "torn"]
        /\ UNCHANGED <<slots, rollback, running, gambled>>
    BY <1>10 DEF OtaBegin, NextUpdatePartition
  <2>2. app[running] = "whole" /\ running \in Partitions
    BY <1>1, <2>1 DEF RunningInv, TypeOK, On
  <2>3. app'[running] = "whole"
    BY <1>3, <2>1, <2>2 DEF Partitions
  <2> QED BY <1>1, <1>2, <1>4, <2>1, <2>3 DEF IInv, RunningInv, DestInv, ImageInv, On
<1>11. CASE OtaWrite
  <2>1. /\ On /\ pc = "otaWrite" /\ UNCHANGED <<slots, rollback, running, pc, dest, gambled>>
        /\ app' = [app EXCEPT ![dest] = IF written' = Chunks THEN "whole" ELSE "torn"]
    BY <1>11 DEF OtaWrite
  <2>2. dest = 1 - running /\ app[running] = "whole" /\ running \in Partitions
    BY <1>1, <2>1 DEF DestInv, RunningInv, TypeOK, On
  <2>3. app'[running] = "whole"
    BY <1>3, <2>1, <2>2 DEF Partitions
  <2> QED BY <1>1, <1>2, <1>4, <2>1, <2>2, <2>3 DEF IInv, RunningInv, DestInv, ImageInv, On
<1>12. CASE OtaFetched \/ OtaEnd
  <2>1. /\ On /\ pc \in {"otaWrite", "otaEnd"} /\ pc' \in {"otaEnd", "erase"}
        /\ pc' = "erase" => app[dest] = "whole"
        /\ UNCHANGED <<app, slots, rollback, running, dest, gambled>>
    BY <1>12 DEF OtaFetched, OtaEnd
  <2> QED BY <1>1, <1>2, <1>4, <2>1 DEF IInv, RunningInv, DestInv, ImageInv, On
<1>13. CASE EraseEntry
  <2>1. /\ On /\ pc = "erase" /\ pc' = "program"
        /\ slots' = [slots EXCEPT ![TargetSlot(slots)] = Blank]
        /\ UNCHANGED <<app, rollback, running, dest, same, gambled>>
    BY <1>13 DEF EraseEntry
  <2>2. Selected(slots') = Selected(slots) /\ (Settled(slots) => Settled(slots'))
    BY <1>3, <2>1, EraseKeepsSelection
  <2>3. SelectionInv'
    BY <1>1, <2>1, <2>2 DEF SelectionInv, On, Settled
  <2> QED BY <1>1, <1>2, <2>1, <2>3 DEF IInv, RunningInv, DestInv, ImageInv, On
<1>14. CASE ProgramEntry
  <2>1. /\ On /\ pc = "program" /\ pc' = "done" /\ gambled' = ~same
        /\ slots' = [slots EXCEPT ![TargetSlot(slots)] = Entry(slots, dest)]
        /\ UNCHANGED <<app, rollback, running, dest, same>>
    BY <1>14 DEF ProgramEntry
  <2>2. Selected(slots') = dest
    BY <1>3, <2>1, ProgramSelects
  <2>3. SelectionInv'
    BY <2>1, <2>2 DEF SelectionInv, On
  <2> QED BY <1>1, <1>2, <2>1, <2>3 DEF IInv, RunningInv, DestInv, ImageInv, On
<1>15. CASE SwapCard
  <2>1. /\ pc \in {"idle", "confirm", "validated", "sdWrite"} /\ same' = FALSE
        /\ UNCHANGED <<app, slots, rollback, running, pc, dest, gambled>>
    BY <1>15 DEF SwapCard
  <2>2. SelectionInv'
    BY <1>1, <2>1 DEF SelectionInv, On, Settled, BothWhole
  <2> QED BY <1>1, <1>2, <2>1, <2>2 DEF IInv, RunningInv, DestInv, ImageInv, On, AlwaysBoots
<1>16. CASE PowerOff
  <2>1. /\ On /\ running' = Off /\ pc' = "idle"
        /\ UNCHANGED <<app, slots, rollback, dest, gambled>>
    BY <1>16 DEF PowerOff
  <2>2. app[running] = "whole" /\ running \in Partitions
    BY <1>1, <2>1 DEF RunningInv, TypeOK, On
  <2>3. pc = "done" /\ ~gambled => BothWhole
    BY <1>1, <2>2 DEF DestInv, ImageInv, BothWhole, Partitions
  <2>4. SelectionInv'
    BY <1>1, <2>1, <2>2, <2>3 DEF SelectionInv, BothWhole, On, Settled
  <2> QED BY <1>1, <1>2, <2>1, <2>2, <2>4 DEF IInv, RunningInv, DestInv, ImageInv, On, AlwaysBoots
<1>17. CASE Boot
  <2> DEFINE s == OnTrial(Aged(slots))
             p == Bootable(s)
  <2>1. /\ running = Off /\ app[p] = "whole" /\ running' = p /\ slots' = Confirmed(s, p)
        /\ UNCHANGED <<app, rollback, pc, gambled>>
    BY <1>17 DEF Boot
  <2>2. /\ s \in AllSlots
        /\ \A i \in {0, 1} : rollback /\ i = ActiveIdx(s) => s[i].state # "new"
    BY <1>3, TrialStarted
  <2>3. BothWhole \/ (app[Selected(slots)] = "whole" /\ Settled(slots)) => p = Selected(s)
    <3>1. CASE BothWhole
      BY <2>2, <3>1, SelectedType DEF Bootable, BothWhole
    <3>2. CASE app[Selected(slots)] = "whole" /\ Settled(slots)
      BY <1>3, <3>2, AgedSettled DEF Bootable
    <3> QED BY <3>1, <3>2
  <2>4. p \in Partitions
    BY <2>2, SelectedType DEF Bootable, Partitions
  <2> HIDE DEF s, p
  <2>5. Selected(slots') = Selected(s) /\ (p = Selected(s) => Settled(slots'))
    BY <2>1, <2>2, <2>4, ConfirmedSettled
  <2>6. p # Off
    BY <2>4 DEF Partitions, Off
  <2>7. pc = "idle"
    BY <1>1, <2>1 DEF RunningInv, On
  <2>8. SelectionInv'
    BY <1>1, <2>1, <2>3, <2>5, <2>6, <2>7 DEF SelectionInv, On, Settled
  <2> QED BY <1>1, <1>2, <2>1, <2>6, <2>7, <2>8 DEF IInv, RunningInv, DestInv, ImageInv, On
<1>18. CASE BootCrashes
  <2> DEFINE s == OnTrial(Aged(slots))
  <2>1. /\ running = Off /\ rollback /\ slots' = s /\ ActiveIdx(s) # NoSlot
        /\ s[ActiveIdx(s)].state = "pending"
        /\ UNCHANGED <<app, rollback, running, pc, gambled>>
    BY <1>18 DEF BootCrashes
  <2>2. ~Settled(slots)
    <3>1. Settled(slots) => s = Aged(slots)
      BY <1>3, AgedSettled
    <3>2. ActiveIdx(s) \in {0, 1}
      BY <2>1 DEF ActiveIdx
    <3>3. \A i \in {0, 1} : Aged(slots)[i].state # "pending"
      BY <1>3, <2>1 DEF Aged, AllSlots, Entries
    <3> QED BY <2>1, <3>1, <3>2, <3>3
  <2>3. SelectionInv' /\ pc = "idle"
    BY <1>1, <2>1, <2>2 DEF SelectionInv, RunningInv, On, BothWhole
  <2> QED BY <1>1, <1>2, <2>1, <2>3 DEF IInv, RunningInv, DestInv, ImageInv, On, AlwaysBoots
<1>19. CASE UNCHANGED vars
  BY <1>1, <1>2, <1>19
     DEF vars, IInv, RunningInv, DestInv, ImageInv, SelectionInv, On, Settled, BothWhole, AlwaysBoots
<1> QED
  BY <1>5, <1>6, <1>7, <1>8, <1>9, <1>10, <1>11, <1>12, <1>13, <1>14, <1>15, <1>16, <1>17,
     <1>18, <1>19 DEF Next

-----------------------------------------------------------------------------
(* The theorems. *)

(* The invariant holds in every reachable state. *)
THEOREM Invariance == Spec => []IInv
<1>1. Init => IInv
  BY InitInv
<1>2. IInv /\ [Next]_vars => IInv'
  BY StepInv
<1> QED BY <1>1, <1>2, PTL DEF Spec

(* The state always has its types. *)
THEOREM TypeCorrect == Spec => []TypeOK
<1>1. IInv => TypeOK
  BY DEF IInv
<1> QED BY <1>1, Invariance, PTL

(* Whenever the power fails, the bootloader finds a whole image. *)
THEOREM DeviceBoots == Spec => []AlwaysBoots
<1>1. IInv => AlwaysBoots
  BY DEF IInv, TypeOK, RunningInv, AlwaysBoots, On
<1> QED BY <1>1, Invariance, PTL

(* The boot entry never names a partition that is not whole, unless the card was changed
   while it was read. *)
THEOREM WholeIsSelected == Spec => []SelectionIsWhole
<1>1. IInv => SelectionIsWhole
  <2> SUFFICES ASSUME IInv, ~gambled PROVE app[Selected(slots)] = "whole"
    BY DEF SelectionIsWhole
  <2>1. TypeOK /\ RunningInv /\ ImageInv /\ SelectionInv
    BY DEF IInv
  <2>2. Selected(slots) \in Partitions
    BY <2>1, SelectedType DEF TypeOK, AllSlots
  <2> QED BY <2>1, <2>2 DEF RunningInv, ImageInv, SelectionInv, BothWhole
<1> QED BY <1>1, Invariance, PTL

(* An update that reports success boots next. *)
THEOREM SuccessBoots == Spec => []UpdateTakesEffect
<1>1. IInv => UpdateTakesEffect
  BY DEF IInv, SelectionInv, UpdateTakesEffect
<1> QED BY <1>1, Invariance, PTL

=============================================================================
