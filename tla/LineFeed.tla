------------------------------- MODULE LineFeed -------------------------------
(***************************************************************************)
(* What a log promises its reader: lines are appended.  A reader may take  *)
(* those that are there, in order, before it starts; from then on, while   *)
(* the log is open, each is heard at most once and in the order it was     *)
(* written.  A line may be missed.  After the closing one reading may      *)
(* start over.                                                             *)
(***************************************************************************)
EXTENDS Naturals

VARIABLES written,   \* the lines begun so far
          heard,     \* the last line heard
          started,   \* the reader follows the log
          open       \* the reader has not been stopped

Init == written \in Nat /\ heard = 0 /\ started = FALSE /\ open = TRUE
Append == written' = written + 1 /\ UNCHANGED <<heard, started, open>>
Hear == heard' \in (heard + 1)..written /\ UNCHANGED <<written, started, open>>
Start == ~started /\ started' = TRUE /\ heard' = 0 /\ UNCHANGED <<written, open>>
Close == open /\ open' = FALSE /\ UNCHANGED <<written, heard, started>>
Replay == ~open /\ heard' \in 1..written /\ UNCHANGED <<written, started, open>>
Spec == Init /\ [][Append \/ Hear \/ Start \/ Close \/ Replay]_<<written, heard, started, open>>
==============================================================================
