----------------------------- MODULE MCRetryPolicy -----------------------------
(* Small instances of RetryPolicy for TLC.                                     *)
EXTENDS RetryPolicy

CONSTANTS small1, small2, small3, big, full, huge

\* Sizes against MaxMemory = 5: two small ones fit together, big fills the buffer
\* to the brim next to one of them, full is as large as the buffer, huge larger.
MCSize == [r \in Requests |-> CASE r = big -> 3 [] r = full -> 5 [] r = huge -> 6 [] OTHER -> 2]

AtRest == crash # "no" \/ \A r \in Requests : pc[r] = "done"

MCNext == Next \/ (AtRest /\ UNCHANGED vars)

MCSpec == Init /\ [][MCNext]_vars /\ Fairness
MCSafe == Init /\ [][MCNext]_vars

--------------------------------------------------------------------------------
(* What comments say, and the code does not keep.                              *)

(* types.go line 68, scenario 1 of RetryPolicyCallback: a batch reported as   *)
(* sent has been acknowledged by the server.                                   *)
SentIsAcknowledged == \A r \in Requests : sent[r] > 0 => acked[r] > 0

(* types.go line 69, scenario 2: an element shifted out, or sent later, can   *)
(* be reported; no remembered element is without its callback.                 *)
NoNilCallback == crash # "nil"
================================================================================
