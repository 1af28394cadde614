------------------------------ MODULE MCSSEClient ------------------------------
(* A small instance of SSEClient for TLC.                                      *)
EXTENDS SSEClient

(* Every goroutine is blocked or at rest: before the first SetURL, after the   *)
(* loop has ended, or when the bound on connections leaves a dial no answer.   *)
AtRest ==
  /\ pc \in {"none", "exited"}
  /\ called = MaxURLs \/ Len(changeURL) = URLBuffer
  /\ \A k \in Conns : \/ reader[k] \in {"none", "done"}
                      \/ reader[k] = "sending" /\ Len(dataChannel[k]) = DataBuffer

MCSpec == Init /\ [][Next \/ (AtRest /\ UNCHANGED vars)]_vars /\ Fairness
================================================================================
