------------------------------- MODULE OtaCell ------------------------------
(***************************************************************************)
(* What whoever reads the OTA control area may rely on: it holds one whole *)
(* sound record, or none.  While the application runs, a record is         *)
(* replaced only by losing it first; the bootloader runs alone.            *)
(***************************************************************************)
CONSTANTS
  Sound,     (* the records that may ever be found                           *)
  Lost       (* no readable record                                           *)

VARIABLES
  cell,      (* the record found, or Lost                                    *)
  on         (* the application runs                                         *)

Init ==
  /\ cell \in Sound \cup {Lost}
  /\ on \in BOOLEAN

\* The application erases the area, or damages it.
Lose ==
  /\ on
  /\ cell # Lost
  /\ cell' = Lost
  /\ UNCHANGED on

\* The application programs the last missing word of a record.
Appear ==
  /\ on
  /\ cell = Lost
  /\ cell' \in Sound
  /\ UNCHANGED on

Reset ==
  /\ on
  /\ on' = FALSE
  /\ UNCHANGED cell

\* The bootloader may replace a record, and starts the application.
Boot ==
  /\ ~on
  /\ on' = TRUE
  /\ cell' \in IF cell = Lost THEN {Lost} ELSE Sound

Next == Lose \/ Appear \/ Reset \/ Boot

Spec == Init /\ [][Next]_<<cell, on>>
=============================================================================
