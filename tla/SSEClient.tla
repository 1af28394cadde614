------------------------------- MODULE SSEClient -------------------------------
(* The SSE client (sse/client.go).  One goroutine, infiniteLoop, dials the     *)
(* server and waits in a select for a message, the end of the stream, the      *)
(* keep-alive timer, a new URL or the shutdown; a second goroutine for each    *)
(* connection reads messages from it into a bounded channel.                   *)
(*                                                                            *)
(* A step is one channel operation, one return of RoundTrip, one call of the   *)
(* callback.  URLs are numbered in the order of the SetURL calls, connections  *)
(* in the order they are made, messages in the order of their connection.      *)
EXTENDS Integers, Sequences

CONSTANTS URLBuffer,   \* capacity of changeURL
          DataBuffer,  \* capacity of dataChannel
          MaxURLs,     \* bound on the number of calls of SetURL
          MaxConns,    \* bound on the number of connections made
          MaxMessages  \* bound on the number of messages of a connection

ASSUME BufferAssumption == URLBuffer \in Nat \ {0} /\ DataBuffer \in Nat \ {0}
ASSUME BoundAssumption  == MaxURLs \in Nat /\ MaxConns \in Nat /\ MaxMessages \in Nat

Conns == 1..MaxConns

VARIABLES
  changeURL, called, cancelled,     \* the channel of URLs, SetURL calls made, ctx
  pc, url, conn,                    \* infiniteLoop and its locals
  message,                          \* the message taken last
  armed, expired,                   \* keepAliveTimer: running, a value in its channel
  reader, held, dataChannel, closed \* by connection: messagesReader, what it has
                                    \* read, its channel, is the body closed?

client == <<changeURL, called, cancelled>>
loop   == <<pc, url, conn>>
timer  == <<armed, expired>>
stream == <<reader, held, dataChannel>>
vars   == <<client, loop, message, timer, stream, closed>>

NoMessage == [conn |-> 0, number |-> 0]

Init ==
  /\ changeURL = <<>> /\ called = 0 /\ cancelled = FALSE
  /\ pc = "none" /\ url = 0 /\ conn = 0
  /\ message = NoMessage
  /\ armed = FALSE /\ expired = FALSE
  /\ reader = [k \in Conns |-> "none"] /\ held = [k \in Conns |-> NoMessage]
  /\ dataChannel = [k \in Conns |-> <<>>]
  /\ closed = [k \in Conns |-> FALSE]

--------------------------------------------------------------------------------
(* SetURL: send, which blocks while the channel is full, and start the loop    *)
(* the first time.  Shutdown: cancel the context.                              *)
SetURL ==
  /\ called < MaxURLs
  /\ Len(changeURL) < URLBuffer
  /\ called' = called + 1
  /\ changeURL' = Append(changeURL, called')
  /\ pc' = IF pc = "none" THEN "first" ELSE pc
  /\ UNCHANGED <<cancelled, url, conn, message, timer, stream, closed>>

Shutdown ==
  /\ ~cancelled
  /\ cancelled' = TRUE
  /\ UNCHANGED <<changeURL, called, loop, message, timer, stream, closed>>

--------------------------------------------------------------------------------
(* infiniteLoop, outside a connection.                                         *)
TakeURL == /\ changeURL # <<>>
           /\ url' = Head(changeURL)
           /\ changeURL' = Tail(changeURL)

FirstURL ==
  /\ pc = "first"
  /\ TakeURL
  /\ pc' = "dial"
  /\ UNCHANGED <<called, cancelled, conn, message, timer, stream, closed>>

(* RoundTrip has failed, or the status or the gzip header was not right.  The  *)
(* transport has no timeout for the response and the request no context: a     *)
(* server that never answers keeps the loop here, whatever SetURL and Shutdown *)
(* do meanwhile.                                                               *)
DialFails ==
  /\ pc = "dial"
  /\ pc' = "pause"
  /\ UNCHANGED <<client, url, conn, message, timer, stream, closed>>

ConnectOnOldChannel ==  \* fault: one data channel for all connections
  /\ pc = "dial"
  /\ conn < MaxConns
  /\ conn' = conn + 1
  /\ pc' = "select"
  /\ armed' = TRUE /\ expired' = FALSE
  /\ reader' = [reader EXCEPT ![conn'] = "reading"]
  /\ dataChannel' = IF conn = 0 THEN dataChannel
                    ELSE [dataChannel EXCEPT ![conn'] = dataChannel[conn]]
  /\ UNCHANGED <<client, url, message, held, closed>>

Connect ==
  /\ pc = "dial"
  /\ conn < MaxConns
  /\ conn' = conn + 1
  /\ pc' = "select"
  /\ armed' = TRUE /\ expired' = FALSE
  /\ reader' = [reader EXCEPT ![conn'] = "reading"]
  /\ UNCHANGED <<client, url, message, held, dataChannel, closed>>

(* The wait before the next attempt.  The interval is random after a           *)
(* connection of less than addDelayBefore and zero otherwise, a failed attempt *)
(* included, so the timer may be ready at once; select takes any ready case.   *)
PauseNewURLForgotten ==  \* fault: the new URL is received and not kept
  /\ pc = "pause" /\ changeURL # <<>>
  /\ changeURL' = Tail(changeURL)
  /\ pc' = "dial"
  /\ UNCHANGED <<called, cancelled, url, conn, message, timer, stream, closed>>

PauseSleeps ==  \* fault: the pause sleeps instead of listening for a new URL
  /\ pc = "pause"
  /\ pc' = "dial"
  /\ UNCHANGED <<client, url, conn, message, timer, stream, closed>>

PauseNewURL ==
  /\ pc = "pause"
  /\ TakeURL
  /\ pc' = "dial"
  /\ UNCHANGED <<called, cancelled, conn, message, timer, stream, closed>>

PauseOver ==
  /\ pc = "pause"
  /\ pc' = "dial"
  /\ UNCHANGED <<client, url, conn, message, timer, stream, closed>>

PauseBreaks ==  \* fault: break, which leaves the select only, for return
  /\ pc = "pause"
  /\ cancelled
  /\ pc' = "dial"
  /\ UNCHANGED <<client, url, conn, message, timer, stream, closed>>

PauseDone ==
  /\ pc = "pause"
  /\ cancelled
  /\ pc' = "exited"
  /\ UNCHANGED <<client, url, conn, message, timer, stream, closed>>

--------------------------------------------------------------------------------
(* The select of a connection.  Whatever ends it, the timer is stopped and the *)
(* body closed (the deferred calls of the callback and of reconnect); only a   *)
(* new URL is dialled without a pause (isURLHasChanged).                       *)
LeaveOpen(next) ==  \* fault: the body is not closed
  /\ armed' = FALSE /\ expired' = FALSE
  /\ pc' = next
  /\ UNCHANGED closed

Leave(next) ==
  /\ armed' = FALSE /\ expired' = FALSE
  /\ closed' = [closed EXCEPT ![conn] = TRUE]
  /\ pc' = next

(* A message: the timer is reset, without draining its channel first, so an    *)
(* expiry that came before the message stays there.                            *)
ReceiveStopsTimer ==  \* fault: the timer is stopped for the message and not reset
  /\ pc = "select" /\ dataChannel[conn] # <<>>
  /\ message' = Head(dataChannel[conn])
  /\ dataChannel' = [dataChannel EXCEPT ![conn] = Tail(@)]
  /\ armed' = FALSE
  /\ pc' = "process"
  /\ UNCHANGED <<client, url, conn, expired, reader, held, closed>>

Receive ==
  /\ pc = "select" /\ dataChannel[conn] # <<>>
  /\ message' = Head(dataChannel[conn])
  /\ dataChannel' = [dataChannel EXCEPT ![conn] = Tail(@)]
  /\ armed' = TRUE
  /\ pc' = "process"
  /\ UNCHANGED <<client, url, conn, expired, reader, held, closed>>

(* processMessage: the callback runs, in this goroutine, when the message is a *)
(* flagConfigUpdate with a configuration; any other message is logged.  The    *)
(* loop goes on in every case, so what a message holds is left out.            *)
Process ==
  /\ pc = "process"
  /\ pc' = "select"
  /\ UNCHANGED <<client, url, conn, message, timer, stream, closed>>

ConnectionEnds ==
  /\ pc = "select" /\ dataChannel[conn] = <<>> /\ reader[conn] = "done"
  /\ Leave("pause")
  /\ UNCHANGED <<client, url, conn, message, stream>>

KeepAliveExpires ==
  /\ pc = "select" /\ expired
  /\ Leave("pause")
  /\ UNCHANGED <<client, url, conn, message, stream>>

NewURL ==
  /\ pc = "select"
  /\ TakeURL
  /\ Leave("dial")
  /\ UNCHANGED <<called, cancelled, conn, message, stream>>

Done ==
  /\ pc = "select" /\ cancelled
  /\ Leave("pause")
  /\ UNCHANGED <<client, url, conn, message, stream>>

TimerFires ==
  /\ armed
  /\ armed' = FALSE /\ expired' = TRUE
  /\ UNCHANGED <<client, loop, message, stream, closed>>

--------------------------------------------------------------------------------
(* messagesReader: groups lines into messages and sends them, blocking while   *)
(* the channel is full.  The scanner may still hold messages when the body is  *)
(* closed; it stops at the end of the stream or, when the body is closed, at   *)
(* the next read.                                                              *)
Read(k) ==
  /\ reader[k] = "reading"
  /\ held[k].number < MaxMessages
  /\ held' = [held EXCEPT ![k] = [conn |-> k, number |-> @.number + 1]]
  /\ reader' = [reader EXCEPT ![k] = "sending"]
  /\ UNCHANGED <<client, loop, message, timer, dataChannel, closed>>

SendKeepsMessage(k) ==  \* fault: message is not reset, a second empty line sends it again
  /\ reader[k] = "sending"
  /\ Len(dataChannel[k]) < DataBuffer
  /\ dataChannel' = [dataChannel EXCEPT ![k] = Append(@, held[k])]
  /\ \E next \in {"reading", "sending"} : reader' = [reader EXCEPT ![k] = next]
  /\ UNCHANGED <<client, loop, message, timer, held, closed>>

Send(k) ==
  /\ reader[k] = "sending"
  /\ Len(dataChannel[k]) < DataBuffer
  /\ dataChannel' = [dataChannel EXCEPT ![k] = Append(@, held[k])]
  /\ reader' = [reader EXCEPT ![k] = "reading"]
  /\ UNCHANGED <<client, loop, message, timer, held, closed>>

StreamEnds(k) ==
  /\ reader[k] = "reading"
  /\ reader' = [reader EXCEPT ![k] = "done"]
  /\ UNCHANGED <<client, loop, message, timer, held, dataChannel, closed>>

--------------------------------------------------------------------------------
Select == Receive \/ ConnectionEnds \/ KeepAliveExpires \/ NewURL \/ Done
Pause  == PauseNewURL \/ PauseOver \/ PauseDone
Reader(k) == Read(k) \/ Send(k) \/ StreamEnds(k)

Next ==
  \/ SetURL \/ Shutdown
  \/ FirstURL \/ DialFails \/ Connect \/ Pause
  \/ Select \/ Process \/ TimerFires
  \/ \E k \in Conns : Reader(k)

Spec == Init /\ [][Next]_vars

(* Runnable goroutines run and running timers fire.  select picks uniformly    *)
(* among the cases that are ready, so one that is ready again and again is     *)
(* taken: strong fairness.  Nothing is assumed of the server, hence neither of *)
(* the return of RoundTrip nor of the arrival of messages, nor of the callers. *)
Fairness ==
  /\ WF_vars(FirstURL) /\ WF_vars(Pause) /\ WF_vars(Process) /\ WF_vars(TimerFires)
  /\ SF_vars(PauseNewURL) /\ SF_vars(PauseDone)
  /\ SF_vars(KeepAliveExpires) /\ SF_vars(NewURL) /\ SF_vars(Done)
  /\ WF_vars(Select)
  /\ \A k \in Conns : WF_vars(Send(k)) /\ WF_vars(closed[k] /\ StreamEnds(k))

FairSpec == Spec /\ Fairness

--------------------------------------------------------------------------------
(* Types of the variables.                                                     *)
Messages == [conn : 0..MaxConns, number : 0..MaxMessages]

TypeOK ==
  /\ changeURL \in Seq(1..MaxURLs) /\ called \in 0..MaxURLs /\ cancelled \in BOOLEAN
  /\ pc \in {"none", "first", "dial", "pause", "select", "process", "exited"}
  /\ url \in 0..MaxURLs /\ conn \in 0..MaxConns
  /\ message \in Messages
  /\ armed \in BOOLEAN /\ expired \in BOOLEAN
  /\ reader \in [Conns -> {"none", "reading", "sending", "done"}]
  /\ held \in [Conns -> Messages]
  /\ dataChannel \in [Conns -> Seq(Messages)]
  /\ closed \in [Conns -> BOOLEAN]

Connected == pc \in {"select", "process"}

(* No URL given to SetURL is skipped or forgotten, whether it comes during a   *)
(* connection, a pause or a dial: the loop works on the last one it received,  *)
(* and those it has not are in the channel, in order.                          *)
NoURLForgotten ==
  pc \notin {"none", "first"} =>
    /\ url + Len(changeURL) = called
    /\ \A j \in DOMAIN changeURL : changeURL[j] = url + j

(* The loop handles the messages of the connection it is on, each once, in the *)
(* order they were read, without a gap; none of an earlier connection's, even  *)
(* though that one's reader may still be sending.  The step that hands one     *)
(* over is constrained, whether or not it changes message.                     *)
HandsOver == pc # "process" /\ pc' = "process"

MessagesInOrder ==
  [][HandsOver \/ message' # message =>
       /\ message'.conn = conn
       /\ message'.number = IF message.conn = conn THEN message.number + 1 ELSE 1]_vars

(* Shutdown ends the loop, unless a dial never returns.                        *)
ShutdownEndsLoop ==
  [](cancelled => <>(pc \in {"none", "first", "exited"}) \/ <>[](pc = "dial"))

(* A new URL is taken up, unless the client is shut down or a dial never       *)
(* returns.                                                                    *)
URLIsTakenUp ==
  [](changeURL # <<>> => <>(changeURL = <<>>) \/ <>(pc = "exited") \/ <>[](pc = "dial"))

(* A connection that stays silent is given up: between two messages the loop   *)
(* does not wait for ever, however timer, messages and callback interleave.    *)
Handled(k) == IF message.conn = k THEN message.number ELSE 0

SilentConnectionIsLeft ==
  \A k \in Conns, n \in 0..MaxMessages :
    LET Waiting == Connected /\ conn = k /\ Handled(k) = n
    IN  Waiting ~> ~Waiting

(* The reader of a connection that the loop has left ends, unless it is        *)
(* sending to a full channel that nobody receives from any more (lines 118-119 *)
(* say that closing the body aborts it; a blocked send it does not).           *)
Left(k) == k < conn \/ (k = conn /\ ~Connected)

ReaderIsReleased ==
  \A k \in Conns :
    Left(k) ~> \/ reader[k] = "done"
               \/ reader[k] = "sending" /\ Len(dataChannel[k]) = DataBuffer
================================================================================
