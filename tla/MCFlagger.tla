------------------------------- MODULE MCFlagger -------------------------------
(* A small instance of Flagger for TLC.                                        *)
EXTENDS Flagger

(* A panic ends the process.                                                   *)
MCSpec == Init /\ [][Next \/ (crash # "none" /\ UNCHANGED vars)]_vars
================================================================================
