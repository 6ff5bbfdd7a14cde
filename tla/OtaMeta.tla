------------------------------- MODULE OtaMeta ------------------------------
(***************************************************************************)
(* The OTA control area: a record of 68 bytes that the application keeps   *)
(* in three flash words and the bootloader reads at reset.  Two writers    *)
(* share it without a lock: the AT commands, handled from start to end in  *)
(* the UART interrupt, and the confirm task, which one half hour after     *)
(* start turns a pending image into a valid one.                           *)
(*                                                                         *)
(* A flash operation is one step, takes effect or fails; power may go      *)
(* between any two.  A word that is programmed without having been erased  *)
(* holds garbage.  The record's CRC is taken to tell records apart.        *)
(***************************************************************************)
EXTENDS Naturals

CONSTANTS
  MaxAttempts,   (* OTA_FLASH_CONFIRM_MAX_ATTEMPTS                           *)
  Erased,        (* the content of an erased flash word                      *)
  Garbage,       (* the content of a damaged flash word                      *)
  NoRecord       (* what a writer holds that is not writing                  *)

ASSUME OtaAssumption == MaxAttempts \in Nat

VARIABLES
  words,     (* the three flash words of the control area                    *)
  running,   (* the slot the running application was linked for              *)
  on,        (* the application runs (else the bootloader)                   *)
  at,        (* the AT command in the interrupt: its step, name and record   *)
  cpc,       (* where the confirm task stands                                *)
  ccopy,     (* the confirm task's copy of the record                        *)
  acked      (* history: the last OTA command was a request that was         *)
             (* acknowledged while the confirm task was not in its write     *)

vars == <<words, running, on, at, cpc, ccopy, acked>>

Slots    == {"A", "B"}
NONE     == "none"
Other(s) == IF s = "A" THEN "B" ELSE "A"

\* The states of the two images.
States == [Slots -> {"empty", "valid", "pending"}]

\* ota_flash_meta_t without its constants, addresses and image descriptions.
Records == [ota_request : {NONE, "update"},
            target_slot : Slots \cup {NONE},
            active_slot : Slots,
            boot_count  : 0 .. MaxAttempts,
            state       : States]

\* What precedes the images in a record.
Heads == {NONE, "update"} \X (Slots \cup {NONE}) \X Slots \X (0 .. MaxAttempts)

\* No part of a record looks erased or damaged.
ASSUME FlashAssumption ==
  /\ Erased # Garbage
  /\ \A c \in {Erased, Garbage, NoRecord} : c \notin Heads /\ c \notin States /\ c \notin Records

-----------------------------------------------------------------------------
(* Records and flash words.                                                *)

\* What the i-th flash word of a record holds: the head, the images' states,
\* and the CRC over all of it.
Slice(i, rec) ==
  CASE i = 1 -> <<rec.ota_request, rec.target_slot, rec.active_slot, rec.boot_count>>
    [] i = 2 -> rec.state
    [] i = 3 -> rec

\* ota_flash_meta_is_valid: the CRC found in the third word is that of the
\* first two.
MetaIsValid(w) ==
  /\ w[3] \notin {Erased, Garbage}
  /\ w[1] = Slice(1, w[3])
  /\ w[2] = Slice(2, w[3])

\* ota_flash_read_meta succeeds.
Readable == MetaIsValid(words)

\* The record a reader obtains.
Stored == words[3]

\* A record without a request.
Settled(slot, state) ==
  [ota_request |-> NONE, target_slot |-> NONE, active_slot |-> slot, boot_count |-> 0,
   state |-> state]

\* The default of ota_flash_service.c, which always names slot A.
MakeDefaultSlotA == Settled("A", [s \in Slots |-> "empty"])

\* ota_flash_make_default_meta
MakeDefault == Settled(running, [s \in Slots |-> IF s = running THEN "valid" ELSE "empty"])

\* Every AT command starts from what is stored, or from the default.
Base == IF Readable THEN Stored ELSE MakeDefault

\* ota_write_boot_request, which also marks the running image valid
BootRequest ==
  [ota_request |-> "update", target_slot |-> Other(running), active_slot |-> running,
   boot_count |-> 0, state |-> [Base.state EXCEPT ![running] = "valid"]]

\* ota_write_confirmed
Confirmed == Settled(running, [Base.state EXCEPT ![running] = "valid"])

\* ota_clear_boot_request that forgets the target.
ClearedKeepsTarget == [Base EXCEPT !.ota_request = NONE, !.boot_count = 0]

\* ota_clear_boot_request
Cleared == Settled(Base.active_slot, Base.state)

\* The record each AT command writes.
Composed(op) ==
  CASE op \in {"OTABOOT", "OTAREQUEST"} -> BootRequest
    [] op = "OTALOCK"                   -> Confirmed
    [] op = "OTACANCEL"                 -> Cleared

Commands == {"OTABOOT", "OTAREQUEST", "OTALOCK", "OTACANCEL"}

\* A whole record in the control area.
Whole(rec) == [i \in 1 .. 3 |-> Slice(i, rec)]

\* The erased area.
Blank == [i \in 1 .. 3 |-> Erased]

-----------------------------------------------------------------------------

\* The device leaves the factory with an erased area and an image in slot A,
\* or runs with a record that the bootloader left it.
Init ==
  /\ running = "A"
  /\ \/ words = Blank
     \/ \E s \in {"valid", "pending"} :
          words = Whole(Settled("A", [slot \in Slots |-> IF slot = "A" THEN s ELSE "valid"]))
  /\ on = TRUE
  /\ at = [step |-> "idle", op |-> NONE, rec |-> NoRecord]
  /\ cpc = "timer"
  /\ ccopy = NoRecord
  /\ acked = FALSE

-----------------------------------------------------------------------------
(* Flash operations.                                                       *)

\* HAL_FLASHEx_Erase over the area's two sectors.
Erase == words' = Blank

\* HAL_FLASH_Program of one flash word.  One that is not erased is damaged,
\* unless it holds the same bits already.
Program(i, rec) ==
  \/ /\ words[i] \in {Erased, Slice(i, rec)}
     /\ words' = [words EXCEPT ![i] = Slice(i, rec)]
  \/ /\ words[i] # Erased
     /\ words' = [words EXCEPT ![i] = Garbage]

\* The word that a step of a write programs.
WordOf == [w1 |-> 1, w2 |-> 2, w3 |-> 3]

\* An operation that reports an error has done nothing, all, or damage.
Fails(step) ==
  \/ UNCHANGED words
  \/ step = "erase" /\ words' = Blank
  \/ step \in {"w1", "w2", "w3"} /\ words' = [words EXCEPT ![WordOf[step]] = Garbage]

-----------------------------------------------------------------------------
(* AT commands, in the UART interrupt.                                     *)

Interrupted == at.step # "idle"

AtIdle == [step |-> "idle", op |-> NONE, rec |-> NoRecord]

\* The command is recognised, the record read and the new one composed.
AtStarts ==
  /\ on
  /\ ~Interrupted
  /\ \E op \in Commands : at' = [step |-> "erase", op |-> op, rec |-> Composed(op)]
  /\ acked' = FALSE
  /\ UNCHANGED <<words, running, on, cpc, ccopy>>

AtErases ==
  /\ on
  /\ at.step = "erase"
  /\ at' = [at EXCEPT !.step = "w1"]
  /\ Erase
  /\ UNCHANGED <<running, on, cpc, ccopy, acked>>

\* The steps of ota_flash_write_meta with a loop that ends one word early.
AtProgramsTwo ==
  /\ on
  /\ \/ at.step = "w1" /\ Program(1, at.rec) /\ at' = [at EXCEPT !.step = "w2"]
     \/ at.step = "w2" /\ Program(2, at.rec) /\ at' = [at EXCEPT !.step = "saved"]
  /\ UNCHANGED <<running, on, cpc, ccopy, acked>>

\* The steps of ota_flash_write_meta with a loop that runs one word too far.
AtProgramsFour ==
  /\ on
  /\ \/ at.step = "w1" /\ Program(1, at.rec) /\ at' = [at EXCEPT !.step = "w2"]
     \/ at.step = "w2" /\ Program(2, at.rec) /\ at' = [at EXCEPT !.step = "w3"]
     \/ at.step = "w3" /\ Program(3, at.rec) /\ at' = [at EXCEPT !.step = "w4"]
  /\ UNCHANGED <<running, on, cpc, ccopy, acked>>

AtPrograms ==
  /\ on
  /\ \/ at.step = "w1" /\ Program(1, at.rec) /\ at' = [at EXCEPT !.step = "w2"]
     \/ at.step = "w2" /\ Program(2, at.rec) /\ at' = [at EXCEPT !.step = "w3"]
     \/ at.step = "w3" /\ Program(3, at.rec) /\ at' = [at EXCEPT !.step = "saved"]
  /\ UNCHANGED <<running, on, cpc, ccopy, acked>>

\* A flash operation fails: the write is given up and the reply is an error.
AtFails ==
  /\ on
  /\ at.step \in {"erase", "w1", "w2", "w3"}
  /\ Fails(at.step)
  /\ at' = AtIdle
  /\ UNCHANGED <<running, on, cpc, ccopy, acked>>

\* The reply is OK.
AtReplies ==
  /\ on
  /\ at.step = "saved"
  /\ at.op # "OTABOOT"
  /\ at' = AtIdle
  /\ acked' = (at.op = "OTAREQUEST" /\ cpc \in {"timer", "done"})
  /\ UNCHANGED <<words, running, on, cpc, ccopy>>

AtStep == AtStarts \/ AtErases \/ AtPrograms \/ AtFails \/ AtReplies

-----------------------------------------------------------------------------
(* The confirm task.                                                       *)

\* The decision of ota_flash_confirm_app without the test for a pending image.
NeedsConfirmAlways == Readable

\* The decision of ota_flash_confirm_app.
NeedsConfirm == Readable /\ Stored.state[Stored.active_slot] = "pending"

\* The half hour is over; ota_flash_confirm_app reads and decides.
ConfirmReads ==
  /\ on
  /\ ~Interrupted
  /\ cpc = "timer"
  /\ IF NeedsConfirm
       THEN /\ cpc' = "erase"
            /\ ccopy' = Settled(Stored.active_slot,
                                [Stored.state EXCEPT ![Stored.active_slot] = "valid"])
       ELSE cpc' = "done" /\ ccopy' = NoRecord
  /\ UNCHANGED <<words, running, on, at, acked>>

ConfirmErases ==
  /\ on
  /\ ~Interrupted
  /\ cpc = "erase"
  /\ cpc' = "w1"
  /\ Erase
  /\ UNCHANGED <<running, on, at, ccopy, acked>>

ConfirmPrograms ==
  /\ on
  /\ ~Interrupted
  /\ \/ cpc = "w1" /\ Program(1, ccopy) /\ cpc' = "w2"
     \/ cpc = "w2" /\ Program(2, ccopy) /\ cpc' = "w3"
     \/ cpc = "w3" /\ Program(3, ccopy) /\ cpc' = "done"
  /\ ccopy' = IF cpc' = "done" THEN NoRecord ELSE ccopy
  /\ UNCHANGED <<running, on, at, acked>>

ConfirmFails ==
  /\ on
  /\ ~Interrupted
  /\ cpc \in {"erase", "w1", "w2", "w3"}
  /\ Fails(cpc)
  /\ cpc' = "done"
  /\ ccopy' = NoRecord
  /\ UNCHANGED <<running, on, at, acked>>

ConfirmStep == ConfirmReads \/ ConfirmErases \/ ConfirmPrograms \/ ConfirmFails

-----------------------------------------------------------------------------
(* Reset, and the bootloader as the record's fields describe it.           *)

\* Power is lost, AT+SYSRESET, or the end of AT+OTABOOT.
Reset ==
  /\ on
  /\ on' = FALSE
  /\ at' = AtIdle
  /\ cpc' = "timer"
  /\ ccopy' = NoRecord
  /\ acked' = FALSE
  /\ UNCHANGED <<words, running>>

\* The records the bootloader may leave behind, given the one it found.
Booted(rec) ==
  LET plain == [rec EXCEPT !.ota_request = NONE, !.target_slot = NONE]
      new   == Settled(rec.target_slot, [rec.state EXCEPT ![rec.target_slot] = "pending"])
      again == [rec EXCEPT !.boot_count = @ + 1]
      back  == Settled(Other(rec.active_slot), [rec.state EXCEPT ![rec.active_slot] = "empty"])
  IN CASE rec.ota_request = "update" -> {plain, new}
       [] rec.ota_request = NONE /\ rec.state[rec.active_slot] = "pending" ->
            {IF rec.boot_count < MaxAttempts THEN again ELSE back}
       [] OTHER -> {rec}

\* Without a record the bootloader starts whatever image it finds.
Boot ==
  /\ ~on
  /\ on' = TRUE
  /\ IF Readable
       THEN \E rec \in Booted(Stored) : words' = Whole(rec) /\ running' = rec.active_slot
       ELSE running' \in Slots /\ UNCHANGED words
  /\ UNCHANGED <<at, cpc, ccopy, acked>>

Next == AtStep \/ ConfirmStep \/ Reset \/ Boot

Spec == Init /\ [][Next]_vars

-----------------------------------------------------------------------------

\* A content the control area can have.
IsArea(w) ==
  /\ w = [i \in 1 .. 3 |-> w[i]]
  /\ w[1] \in {Erased, Garbage} \cup Heads
  /\ w[2] \in {Erased, Garbage} \cup States
  /\ w[3] \in {Erased, Garbage} \cup Records

\* The variables stay within their types.
TypeOK ==
  /\ IsArea(words)
  /\ running \in Slots
  /\ on \in BOOLEAN
  /\ at \in [step : {"idle", "erase", "w1", "w2", "w3", "saved"},
             op   : Commands \cup {NONE},
             rec  : Records \cup {NoRecord}]
  /\ cpc \in {"timer", "erase", "w1", "w2", "w3", "done"}
  /\ ccopy \in Records \cup {NoRecord}
  /\ acked \in BOOLEAN

\* A record that asks for an update asks it for the other slot than the active
\* one, and one that asks for none names none: what runs is not overwritten.
SoundRecord(rec) ==
  rec.target_slot = IF rec.ota_request = "update" THEN Other(rec.active_slot) ELSE NONE

\* A request acknowledged while the confirm task is not in its write can be
\* read until the next OTA command or reset, and names the slot that does not
\* run: the confirm task, whose half hour may end later, does not withdraw it,
\* as the request has marked the running image valid.  (One acknowledged
\* within that write is overwritten.)
AcknowledgedRequestStays ==
  acked => /\ Readable
           /\ Stored.ota_request = "update"
           /\ Stored.target_slot = Other(running)

\* ota_flash_confirm_app trusts the record's active_slot where the AT commands
\* ask the program counter; the two never differ in a readable record.
ActiveIsRunning == on /\ Readable => Stored.active_slot = running

\* An acknowledged command has stored its record, although nobody reads back.
OkMeansStored == at.step = "saved" => Readable /\ Stored = at.rec

Cell == INSTANCE OtaCell WITH
  Sound <- {rec \in Records : SoundRecord(rec)},
  Lost  <- Erased,
  cell  <- IF Readable THEN Stored ELSE Erased

\* The area behaves like one cell that is lost before it is replaced.
CellSpec == Cell!Spec

=============================================================================
