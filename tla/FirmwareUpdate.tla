--------------------------- MODULE FirmwareUpdate ---------------------------
(***************************************************************************)
(* Firmware updates, from a file on the card (SdFirmwareUpdateActivity and  *)
(* FirmwareFlasher) and over the air (OtaUpdater).  Flash has two app       *)
(* partitions and two boot entries; the usable entry with the highest       *)
(* sequence number names the partition to boot.  An update overwrites the   *)
(* partition that is not running and then replaces the boot entry that is   *)
(* not active, and the power may fail between any two writes.               *)
(*                                                                          *)
(* An image is only whole or not.  The bootloader and esp_ota_* are not in  *)
(* the repository: they are modelled as far as the code counts on them.     *)
(***************************************************************************)
EXTENDS Integers

CONSTANTS Chunks,   \* writes it takes to fill a partition
          MaxSeq    \* bound: no update starts past this sequence number

ASSUME ChunksAssumption == Chunks \in Nat \ {0}
ASSUME MaxSeqAssumption == MaxSeq \in Nat

VARIABLES app,      \* what each partition holds
          slots,    \* the two entries of otadata
          rollback, \* whether the bootloader has rollback, which is fixed
          running,  \* the partition that runs, or Off
          pc,       \* where the update is
          dest,     \* the partition it writes
          written,  \* chunks written
          file,     \* the image on the card
          same,     \* history: the file is the one that was validated last
          gambled   \* history: the image selected last was read after the card was changed

vars == <<app, slots, rollback, running, pc, dest, written, file, same, gambled>>
flash == <<app, slots>>
history == <<same, gambled>>

Partitions == {0, 1}
Images == {"whole", "torn"}
Off == -1
NoSlot == -1

Entries == [seq : Nat, crc : BOOLEAN, state : {"new", "pending", "valid", "aborted"}]
\* An erased entry, and one whose write was cut: the CRC is written last.
Blank == [seq |-> 0, crc |-> FALSE, state |-> "new"]

Flashing == {"sdWrite", "otaWrite", "otaEnd", "erase", "program"}
Stages == {"idle", "confirm", "validated", "done", "failed"} \cup Flashing

-----------------------------------------------------------------------------
(* otadata: what switchTo() reads out of it, and the bootloader too. *)

Usable(e) == e.crc /\ e.state # "aborted"

ActiveIdx(s) ==
    IF Usable(s[0]) /\ (Usable(s[1]) => s[1].seq <= s[0].seq) THEN 0
    ELSE IF Usable(s[1]) THEN 1 ELSE NoSlot

ActiveSeq(s) == IF ActiveIdx(s) = NoSlot THEN 0 ELSE s[ActiveIdx(s)].seq

\* The partition an entry names; a device whose entries are all unusable boots ota_0.
Named(e) == (e.seq - 1) % 2
Selected(s) == IF ActiveIdx(s) = NoSlot THEN 0 ELSE Named(s[ActiveIdx(s)])

TargetSlot(s) == IF ActiveIdx(s) = 0 THEN 1 ELSE 0

\* Mutant: the next number, whatever partition it names.
NewSeqNext(s, d) == ActiveSeq(s) + 1

\* The smallest sequence number past the active one that names d.
NewSeq(s, d) ==
    IF ActiveSeq(s) % 2 = d THEN ActiveSeq(s) + 1 ELSE ActiveSeq(s) + 2

Entry(s, d) == [seq |-> NewSeq(s, d), crc |-> TRUE, state |-> "new"]

-----------------------------------------------------------------------------
(* A device fresh from the web flasher. *)

Init ==
    /\ app \in {a \in [Partitions -> Images] : a[0] = "whole"}
    /\ slots = [i \in {0, 1} |-> Blank]
    /\ rollback \in BOOLEAN
    /\ running = 0
    /\ pc = "idle"
    /\ dest = 1
    /\ written = 0
    /\ file \in Images
    /\ same = TRUE
    /\ gambled = FALSE

On == running # Off

\* Mutant: the one that is not selected, which may be the one that runs.
NextUpdateUnselected == 1 - Selected(slots)

\* esp_ota_get_next_update_partition(): the one that is not running.
NextUpdatePartition == 1 - running

-----------------------------------------------------------------------------
(* From the card. *)

\* validateFirmware(), before the user is asked.
PickFile ==
    /\ On /\ pc = "idle"
    /\ ActiveSeq(slots) <= MaxSeq
    /\ pc' = IF file = "whole" THEN "confirm" ELSE "failed"
    /\ UNCHANGED <<flash, rollback, running, dest, written, file, history>>

Decline ==
    /\ On /\ pc = "confirm"
    /\ pc' = "idle"
    /\ UNCHANGED <<flash, rollback, running, dest, written, file, history>>

\* Mutant: the pass before the confirmation is trusted.
RevalidateNot ==
    /\ On /\ pc = "confirm"
    /\ dest' = NextUpdatePartition
    /\ pc' = "validated"
    /\ same' = TRUE
    /\ UNCHANGED <<flash, rollback, running, written, file, gambled>>

\* flashFromSdPath() finds its partition and validates the file again.
Revalidate ==
    /\ On /\ pc = "confirm"
    /\ dest' = NextUpdatePartition
    /\ pc' = IF file = "whole" THEN "validated" ELSE "failed"
    /\ same' = TRUE
    /\ UNCHANGED <<flash, rollback, running, written, file, gambled>>

\* The file is opened again; the first block is erased before it is written.
OpenFile ==
    /\ On /\ pc = "validated"
    /\ app' = [app EXCEPT ![dest] = "torn"]
    /\ written' = 0
    /\ pc' = "sdWrite"
    /\ UNCHANGED <<slots, rollback, running, dest, file, history>>

\* One turn of the loop.  Only an image read from the file that was validated is
\* known to be whole.
SdWrite ==
    /\ On /\ pc = "sdWrite"
    /\ written < Chunks
    /\ written' = written + 1
    /\ \E image \in (IF same /\ file = "whole" THEN {"whole"} ELSE Images) :
          app' = [app EXCEPT ![dest] = IF written' = Chunks THEN image ELSE "torn"]
    /\ UNCHANGED <<slots, rollback, running, pc, dest, file, history>>

SdWritten ==
    /\ On /\ pc = "sdWrite"
    /\ written = Chunks
    /\ pc' = "erase"
    /\ UNCHANGED <<flash, rollback, running, dest, written, file, history>>

-----------------------------------------------------------------------------
(* Over the air. *)

\* esp_ota_begin() erases the partition.
OtaBegin ==
    /\ On /\ pc = "idle"
    /\ ActiveSeq(slots) <= MaxSeq
    /\ dest' = NextUpdatePartition
    /\ app' = [app EXCEPT ![NextUpdatePartition] = "torn"]
    /\ written' = 0
    /\ same' = TRUE
    /\ pc' = "otaWrite"
    /\ UNCHANGED <<slots, rollback, running, file, gambled>>

OtaWrite ==
    /\ On /\ pc = "otaWrite"
    /\ written < Chunks
    /\ written' = written + 1
    /\ app' = [app EXCEPT ![dest] = IF written' = Chunks THEN "whole" ELSE "torn"]
    /\ UNCHANGED <<slots, rollback, running, pc, dest, file, history>>

\* The transfer ends: complete, or short of the image without an error, which
\* esp_ota_end() then finds.
OtaFetched ==
    /\ On /\ pc = "otaWrite"
    /\ pc' = "otaEnd"
    /\ UNCHANGED <<flash, rollback, running, dest, written, file, history>>

OtaEnd ==
    /\ On /\ pc = "otaEnd"
    /\ app[dest] = "whole"
    /\ pc' = "erase"
    /\ UNCHANGED <<flash, rollback, running, dest, written, file, history>>

-----------------------------------------------------------------------------
(* Both end with a new boot entry: ota_boot::switchTo(), or ESP-IDF's own. *)

EraseEntry ==
    /\ On /\ pc = "erase"
    /\ slots' = [slots EXCEPT ![TargetSlot(slots)] = Blank]
    /\ pc' = "program"
    /\ UNCHANGED <<app, rollback, running, dest, written, file, history>>

\* activeIdx and newSeq were computed before the erase, which changes neither.
ProgramEntry ==
    /\ On /\ pc = "program"
    /\ slots' = [slots EXCEPT ![TargetSlot(slots)] = Entry(slots, dest)]
    /\ gambled' = ~same
    /\ pc' = "done"
    /\ UNCHANGED <<app, rollback, running, dest, written, file, same>>

\* A failed open, read, erase, write, transfer or verification, at any stage.
UpdateFails ==
    /\ On /\ pc \in Flashing \cup {"validated"}
    /\ pc' = "failed"
    /\ UNCHANGED <<flash, rollback, running, dest, written, file, history>>

Acknowledge ==
    /\ On /\ pc = "failed"
    /\ pc' = "idle"
    /\ UNCHANGED <<flash, rollback, running, dest, written, file, history>>

-----------------------------------------------------------------------------
(* Around the update. *)

\* The card can be taken out and another one put in, even while it is read.
SwapCard ==
    /\ pc \in {"idle", "confirm", "validated", "sdWrite"}
    /\ file' \in Images
    /\ same' = FALSE
    /\ UNCHANGED <<flash, rollback, running, pc, dest, written, gambled>>

\* ESP.restart() after an update, or the power fails.
PowerOff ==
    /\ On
    /\ running' = Off
    /\ pc' = "idle"
    /\ UNCHANGED <<flash, rollback, dest, written, file, history>>

\* With rollback, the bootloader gives up an entry whose image it started and that
\* was never confirmed, and starts a new one on trial.
Aged(s) ==
    [i \in {0, 1} |-> IF rollback /\ s[i].state = "pending"
                      THEN [s[i] EXCEPT !.state = "aborted"] ELSE s[i]]
OnTrial(s) ==
    [i \in {0, 1} |-> IF rollback /\ i = ActiveIdx(s) /\ s[i].state = "new"
                      THEN [s[i] EXCEPT !.state = "pending"] ELSE s[i]]
Confirmed(s, p) ==
    [i \in {0, 1} |-> IF s[i].state = "pending" /\ Named(s[i]) = p
                      THEN [s[i] EXCEPT !.state = "valid"] ELSE s[i]]

\* An image that is not whole is passed over for the other one.
Bootable(s) == IF app[Selected(s)] = "whole" THEN Selected(s) ELSE 1 - Selected(s)

Boot ==
    /\ running = Off
    /\ LET s == OnTrial(Aged(slots)) IN
          /\ app[Bootable(s)] = "whole"
          /\ running' = Bootable(s)
          /\ slots' = Confirmed(s, Bootable(s))
    /\ UNCHANGED <<app, rollback, pc, dest, written, file, history>>

\* An image on trial resets before it has confirmed itself.
BootCrashes ==
    /\ running = Off
    /\ rollback
    /\ slots' = OnTrial(Aged(slots))
    /\ ActiveIdx(slots') # NoSlot
    /\ slots'[ActiveIdx(slots')].state = "pending"
    /\ UNCHANGED <<app, rollback, running, pc, dest, written, file, history>>

Next ==
    \/ PickFile \/ Decline \/ Revalidate \/ OpenFile \/ SdWrite \/ SdWritten
    \/ OtaBegin \/ OtaWrite \/ OtaFetched \/ OtaEnd
    \/ EraseEntry \/ ProgramEntry \/ UpdateFails \/ Acknowledge
    \/ SwapCard \/ PowerOff \/ Boot \/ BootCrashes

Spec == Init /\ [][Next]_vars

-----------------------------------------------------------------------------
(* Properties. *)

TypeOK ==
    /\ app \in [Partitions -> Images]
    /\ slots \in [{0, 1} -> Entries]
    /\ rollback \in BOOLEAN
    /\ running \in Partitions \cup {Off}
    /\ pc \in Stages
    /\ dest \in Partitions
    /\ written \in 0..Chunks
    /\ file \in Images
    /\ same \in BOOLEAN
    /\ gambled \in BOOLEAN

(* Wherever the power fails, and whatever a changed card has had selected before, the
   bootloader finds a whole image on one of the two partitions. *)
AlwaysBoots == \E p \in Partitions : app[p] = "whole"

(* A partition is only selected once it is whole: a truncated or corrupted image, a
   failure half-way, an aborted trial and a power cut never leave the boot entry on one
   that is not.  Only a card changed after the last validation can (until the next
   update succeeds). *)
SelectionIsWhole == ~gambled => app[Selected(slots)] = "whole"

(* An update that reports success is the one that boots next, whatever entries earlier
   updates, aborted trials and cut writes have left in otadata. *)
UpdateTakesEffect == pc = "done" => Selected(slots) = dest

=============================================================================
