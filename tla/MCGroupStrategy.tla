---------------------------- MODULE MCGroupStrategy ----------------------------
(* Small instances of GroupStrategy for TLC.  Three items: a and b are         *)
(* exposures, c is an event; the threshold lets the first two exposures        *)
(* through at once.                                                            *)
EXTENDS GroupStrategy

CONSTANTS a, b, c

MCExposures == [i \in Items |-> IF i = c THEN 0 ELSE 1]

--------------------------------------------------------------------------------
(* Every goroutine is at rest.  TLC reports any other state without a          *)
(* successor as a deadlock.                                                    *)
AtRest ==
  \/ crash # "no"
  \/ /\ \A i \in Items : publish[i] \in {"idle", "done", "rejected"}
     /\ \A e \in Epochs : /\ worker[e] \in {"none", "exited"}
                          /\ ~Stopping(e)
                          /\ waiter[e] \in {"none", "waiting", "returned"}
     /\ flight = {} /\ hollow = 0

MCNext == Next \/ (AtRest /\ UNCHANGED vars)

MCSpec == Init /\ [][MCNext]_vars /\ Fairness
MCSafe == Init /\ [][MCNext]_vars
================================================================================
