----------------------------- MODULE MCBoardDrift -----------------------------
(* BoardDrift with one worker or several, for TLC. *)
EXTENDS BoardDrift, TLC
================================================================================
