--------------------------- MODULE SSEClientProofs ---------------------------
(* Proofs about SSEClient for channels of any capacity and any number of URLs, *)
(* connections and messages.                                                   *)
EXTENDS SSEClient, TLAPS

USE DEF Conns

--------------------------------------------------------------------------------
(* Types.                                                                      *)
(* While the loop is connected there is a connection it is on.                 *)
TypeInv == TypeOK /\ (Connected => conn > 0)

(* The head and the tail of a sequence.                                        *)
LEMMA HeadTail ==
  ASSUME NEW S, NEW s \in Seq(S), s # <<>> PROVE Head(s) \in S /\ Tail(s) \in Seq(S)
  OBVIOUS

LEMMA TypeInit == ASSUME Init PROVE TypeInv
<1> USE BoundAssumption DEF BoundAssumption, Init, Messages, NoMessage
<1>1. NoMessage \in Messages
  OBVIOUS
<1>2. held \in [Conns -> Messages] /\ dataChannel \in [Conns -> Seq(Messages)]
  BY <1>1
<1>3. message \in Messages
  BY <1>1
<1> HIDE DEF NoMessage, Messages
<1>4. /\ changeURL \in Seq(1..MaxURLs) /\ called \in 0..MaxURLs
      /\ url \in 0..MaxURLs /\ conn \in 0..MaxConns
  OBVIOUS
<1>5. /\ reader \in [Conns -> {"none", "reading", "sending", "done"}]
      /\ closed \in [Conns -> BOOLEAN]
      /\ pc \in {"none", "first", "dial", "pause", "select", "process", "exited"}
      /\ ~Connected
  BY DEF Connected
<1>6. cancelled \in BOOLEAN /\ armed \in BOOLEAN /\ expired \in BOOLEAN
  BY Zenon
<1> HIDE DEF Init
<1> QED BY <1>2, <1>3, <1>4, <1>5, <1>6, Zenon DEF TypeInv, TypeOK

LEMMA TypeStep == ASSUME TypeInv, [Next]_vars PROVE TypeInv'
<1> USE DEF TypeInv, TypeOK, Connected
<1>1. CASE SetURL
  <2>1. called' \in 1..MaxURLs /\ changeURL' = Append(changeURL, called')
    BY <1>1, BoundAssumption DEF SetURL, BoundAssumption
  <2>2. changeURL' \in Seq(1..MaxURLs)
    BY <2>1
  <2> QED BY <1>1, <2>1, <2>2 DEF SetURL, timer, stream
<1>2. CASE FirstURL \/ PauseNewURL \/ NewURL
  <2>1. TakeURL
    BY <1>2 DEF FirstURL, PauseNewURL, NewURL
  <2>2. changeURL' \in Seq(1..MaxURLs) /\ url' \in 1..MaxURLs
    BY <2>1, HeadTail DEF TakeURL
  <2>3. url' \in 0..MaxURLs
    BY <2>2
  <2>4. CASE FirstURL
    BY <2>2, <2>3, <2>4 DEF FirstURL, timer, stream
  <2>5. CASE PauseNewURL
    BY <2>2, <2>3, <2>5 DEF PauseNewURL, timer, stream
  <2>6. CASE NewURL
    BY <2>2, <2>3, <2>6 DEF NewURL, Leave, stream
  <2> QED BY <1>2, <2>4, <2>5, <2>6
<1>3. CASE Shutdown \/ DialFails \/ PauseOver \/ PauseDone \/ Process
  BY <1>3 DEF Shutdown, DialFails, PauseOver, PauseDone, Process, client, loop, timer, stream
<1>4. CASE ConnectionEnds \/ KeepAliveExpires \/ Done \/ TimerFires
  BY <1>4 DEF ConnectionEnds, KeepAliveExpires, Done, TimerFires, Leave, client, loop, stream
<1>5. CASE Connect
  <2>1. PICK n \in Conns : n = conn + 1 /\ conn' = n
    BY <1>5, BoundAssumption DEF Connect, BoundAssumption
  <2>2. reader' \in [Conns -> {"none", "reading", "sending", "done"}]
    BY <1>5, <2>1 DEF Connect
  <2>3. conn' \in 0..MaxConns /\ conn' > 0
    BY <2>1, BoundAssumption DEF BoundAssumption
  <2> QED BY <1>5, <2>2, <2>3 DEF Connect, client
<1>6. CASE Receive
  <2>1. PICK n \in Conns : n = conn
    BY <1>6, BoundAssumption DEF Receive, BoundAssumption
  <2>2. /\ dataChannel[n] \in Seq(Messages) /\ dataChannel[n] # <<>>
        /\ message' = Head(dataChannel[n])
        /\ dataChannel' = [dataChannel EXCEPT ![n] = Tail(dataChannel[n])]
    BY <1>6, <2>1 DEF Receive
  <2>3. message' \in Messages /\ dataChannel' \in [Conns -> Seq(Messages)]
    BY <2>2, HeadTail
  <2> QED BY <1>6, <2>3 DEF Receive, client
<1>7. ASSUME NEW k \in Conns, Reader(k) PROVE TypeInv'
  <2>1. CASE Read(k)
    <3> DEFINE next == [conn |-> k, number |-> held[k].number + 1]
    <3>1. next \in Messages
      BY <2>1, BoundAssumption DEF Read, Messages, BoundAssumption
    <3>2. held' = [held EXCEPT ![k] = next]
      BY <2>1 DEF Read
    <3> HIDE DEF next
    <3>3. held' \in [Conns -> Messages]
      BY <3>1, <3>2
    <3>4. reader' \in [Conns -> {"none", "reading", "sending", "done"}]
      BY <2>1 DEF Read
    <3> QED BY <2>1, <3>3, <3>4 DEF Read, client, loop, timer
  <2>2. CASE Send(k)
    <3>1. dataChannel' \in [Conns -> Seq(Messages)]
      BY <2>2 DEF Send
    <3> QED BY <2>2, <3>1 DEF Send, client, loop, timer
  <2>3. CASE StreamEnds(k)
    BY <2>3 DEF StreamEnds, client, loop, timer
  <2> QED BY <1>7, <2>1, <2>2, <2>3 DEF Reader
<1>8. CASE UNCHANGED vars
  BY <1>8 DEF vars, client, loop, timer, stream
<1> QED BY <1>1, <1>2, <1>3, <1>4, <1>5, <1>6, <1>7, <1>8 DEF Next, Select, Pause

(* Every variable keeps its type.                                              *)
THEOREM TypeCorrect == Spec => []TypeOK
<1>1. TypeInv => TypeOK
  BY DEF TypeInv
<1> QED BY <1>1, TypeInit, TypeStep, PTL DEF Spec

--------------------------------------------------------------------------------
(* No URL is forgotten.  The invariant holds before the loop begins, too: it   *)
(* has received nothing yet.                                                   *)
URLInv ==
  /\ changeURL \in Seq(Nat) /\ called \in Nat /\ url \in Nat
  /\ url + Len(changeURL) = called
  /\ \A j \in 1..Len(changeURL) : changeURL[j] = url + j

(* A sequence of consecutive numbers stays one when the next is appended ...   *)
LEMMA AppendNext ==
  ASSUME NEW s \in Seq(Nat), NEW u \in Nat, NEW n \in Nat, u + Len(s) = n,
         \A j \in 1..Len(s) : s[j] = u + j
  PROVE  LET t == Append(s, n + 1)
         IN  /\ t \in Seq(Nat) /\ u + Len(t) = n + 1
             /\ \A j \in 1..Len(t) : t[j] = u + j
  OBVIOUS

(* ... and when its head is taken.                                             *)
LEMMA TakeHead ==
  ASSUME NEW s \in Seq(Nat), NEW u \in Nat, NEW n \in Nat, u + Len(s) = n, s # <<>>,
         \A j \in 1..Len(s) : s[j] = u + j
  PROVE  /\ Head(s) = u + 1 /\ Tail(s) \in Seq(Nat) /\ Head(s) + Len(Tail(s)) = n
         /\ \A j \in 1..Len(Tail(s)) : Tail(s)[j] = Head(s) + j
<1>1. Len(s) > 0 /\ Head(s) = s[1] /\ s[1] = u + 1
  OBVIOUS
<1>2. Tail(s) \in Seq(Nat) /\ Len(Tail(s)) = Len(s) - 1
  BY <1>1
<1>3. ASSUME NEW j \in 1..Len(Tail(s)) PROVE Tail(s)[j] = u + 1 + j
  <2>1. j \in 1..(Len(s) - 1)
    BY <1>2
  <2>2. j + 1 \in 1..Len(s)
    BY <2>1
  <2>3. Tail(s)[j] = s[j + 1]
    BY <1>1, <2>1
  <2>4. s[j + 1] = u + (j + 1)
    BY <2>2
  <2> QED BY <2>1, <2>3, <2>4
<1>4. Head(s) + Len(Tail(s)) = n
  BY <1>1, <1>2
<1>5. \A j \in 1..Len(Tail(s)) : Tail(s)[j] = Head(s) + j
  BY <1>1, <1>3, Zenon
<1> QED BY <1>1, <1>2, <1>4, <1>5, Zenon

LEMMA URLInit == ASSUME Init PROVE URLInv
  BY DEF Init, URLInv

LEMMA URLStep == ASSUME URLInv, [Next]_vars PROVE URLInv'
<1>1. CASE SetURL
  <2>1. called' = called + 1 /\ changeURL' = Append(changeURL, called + 1) /\ url' = url
    BY <1>1 DEF SetURL
  <2> QED BY <2>1, AppendNext DEF URLInv
<1>2. CASE FirstURL \/ PauseNewURL \/ NewURL
  <2>1. TakeURL /\ called' = called
    BY <1>2 DEF FirstURL, PauseNewURL, NewURL
  <2>2. /\ url' = url + 1 /\ changeURL' \in Seq(Nat) /\ url' + Len(changeURL') = called
        /\ \A j \in 1..Len(changeURL') : changeURL'[j] = url' + j
    BY <2>1, TakeHead DEF TakeURL, URLInv
  <2> QED BY <2>1, <2>2 DEF URLInv
<1>3. CASE Shutdown
  BY <1>3 DEF Shutdown, loop, URLInv
<1>4. CASE DialFails \/ Connect \/ PauseOver \/ PauseDone
  BY <1>4 DEF DialFails, Connect, PauseOver, PauseDone, client, URLInv
<1>5. CASE Receive \/ ConnectionEnds \/ KeepAliveExpires \/ Done \/ Process \/ TimerFires
  BY <1>5 DEF Receive, ConnectionEnds, KeepAliveExpires, Done, Process, TimerFires, client, loop, URLInv
<1>6. ASSUME NEW k \in Conns, Reader(k) PROVE URLInv'
  BY <1>6 DEF Reader, Read, Send, StreamEnds, client, loop, URLInv
<1>7. CASE UNCHANGED vars
  BY <1>7 DEF vars, client, loop, URLInv
<1> QED BY <1>1, <1>2, <1>3, <1>4, <1>5, <1>6, <1>7 DEF Next, Select, Pause

(* No URL given to SetURL is skipped or forgotten, whenever it comes           *)
(* (client.go 103, 145 and 173).                                               *)
THEOREM URLsAreKept == Spec => []NoURLForgotten
<1>1. URLInv => NoURLForgotten
  BY DEF URLInv, NoURLForgotten
<1> QED BY <1>1, URLInit, URLStep, PTL DEF Spec

--------------------------------------------------------------------------------
(* Messages come in order.                                                     *)

(* How many messages of connection k have been sent, and how many of those     *)
(* have left the channel.                                                      *)
Sent(k)  == IF reader[k] = "sending" THEN held[k].number - 1 ELSE held[k].number
Taken(k) == Sent(k) - Len(dataChannel[k])

MessageTypes ==
  /\ conn \in 0..MaxConns /\ message \in [conn : Nat, number : Nat]
  /\ reader \in [Conns -> {"none", "reading", "sending", "done"}]
  /\ held \in [Conns -> [conn : Nat, number : Nat]]
  /\ dataChannel \in [Conns -> Seq([conn : Nat, number : Nat])]

(* A channel holds consecutive messages of its own connection, up to the last  *)
(* one sent, and a message being sent is the next; the channel of the current  *)
(* connection begins after the message handled last, those of later ones are   *)
(* untouched.                                                                  *)
ChannelInOrder(k) ==
  /\ reader[k] = "sending" => held[k].conn = k /\ held[k].number > 0
  /\ Taken(k) >= 0
  /\ \A j \in 1..Len(dataChannel[k]) : dataChannel[k][j] = [conn |-> k, number |-> Taken(k) + j]

OrderInv ==
  /\ MessageTypes
  /\ message.conn <= conn
  /\ \A k \in Conns : ChannelInOrder(k)
  /\ conn > 0 => Taken(conn) = Handled(conn)
  /\ \A k \in Conns : k > conn => reader[k] = "none" /\ held[k].number = 0 /\ dataChannel[k] = <<>>
  /\ pc \in {"select", "process"} => conn > 0

LEMMA OrderInit == ASSUME Init PROVE OrderInv
<1>1. MessageTypes
  BY BoundAssumption DEF Init, MessageTypes, NoMessage, BoundAssumption
<1>2. \A k \in Conns : ChannelInOrder(k)
  BY DEF Init, ChannelInOrder, Taken, Sent, NoMessage
<1> QED BY <1>1, <1>2 DEF Init, OrderInv, NoMessage

(* Steps that leave messages, readers and channels alone.                      *)
LEMMA OrderKept ==
  ASSUME OrderInv, UNCHANGED <<conn, message, reader, held, dataChannel>>,
         pc' \in {"select", "process"} => pc \in {"select", "process"}
  PROVE  OrderInv'
  BY DEF OrderInv, MessageTypes, ChannelInOrder, Taken, Sent, Handled

LEMMA OrderOfConnect == ASSUME OrderInv, Connect PROVE OrderInv'
<1> USE DEF OrderInv, MessageTypes
<1>1. PICK n \in Conns : n = conn + 1 /\ conn' = n
  BY BoundAssumption DEF Connect, BoundAssumption
<1>2. /\ reader' = [reader EXCEPT ![n] = "reading"]
      /\ UNCHANGED <<message, held, dataChannel>>
  BY <1>1 DEF Connect
<1>3. MessageTypes'
  BY <1>1, <1>2
<1>4. \A k \in Conns : Sent(k)' = Sent(k) /\ Taken(k)' = Taken(k) /\ Handled(k)' = Handled(k)
  BY <1>1, <1>2 DEF Sent, Taken, Handled
<1>5. ASSUME NEW k \in Conns PROVE ChannelInOrder(k)'
  BY <1>1, <1>2, <1>4 DEF ChannelInOrder
<1>6. Taken(n)' = Handled(n)'
  <2>1. Taken(n) = 0 /\ Handled(n) = 0
    BY <1>1 DEF Taken, Sent, Handled
  <2> QED BY <1>4, <2>1
<1>7. conn' > 0 => (Taken(conn) = Handled(conn))'
  BY <1>1, <1>6
<1> QED BY <1>1, <1>2, <1>3, <1>5, <1>7

(* What the loop receives is the next message of its connection.               *)
LEMMA Received ==
  ASSUME OrderInv, Receive
  PROVE  conn \in Conns /\ message' = [conn |-> conn, number |-> Handled(conn) + 1]
<1>1. conn \in Conns /\ dataChannel[conn] # <<>> /\ message' = Head(dataChannel[conn])
  BY DEF Receive, OrderInv, MessageTypes
<1>2. dataChannel[conn] \in Seq([conn : Nat, number : Nat]) /\ Len(dataChannel[conn]) > 0
  BY <1>1 DEF OrderInv, MessageTypes
<1>3. Head(dataChannel[conn]) = dataChannel[conn][1] /\ 1 \in 1..Len(dataChannel[conn])
  BY <1>2
<1>4. dataChannel[conn][1] = [conn |-> conn, number |-> Taken(conn) + 1]
  BY <1>1, <1>3 DEF OrderInv, ChannelInOrder
<1> QED BY <1>1, <1>3, <1>4 DEF OrderInv

LEMMA OrderOfReceive == ASSUME OrderInv, Receive PROVE OrderInv'
<1> USE DEF OrderInv, MessageTypes
<1>0. PICK n \in Conns : conn = n /\ conn' = n
  BY Received DEF Receive
<1>1. /\ message' = [conn |-> n, number |-> Handled(n) + 1]
      /\ UNCHANGED <<reader, held>>
      /\ dataChannel' = [dataChannel EXCEPT ![n] = Tail(@)]
      /\ Handled(n) \in Nat
  BY <1>0, Received DEF Receive, Handled
<1>2. /\ dataChannel[n] \in Seq([conn : Nat, number : Nat]) /\ Len(dataChannel[n]) > 0
      /\ Tail(dataChannel[n]) \in Seq([conn : Nat, number : Nat])
      /\ Len(Tail(dataChannel[n])) = Len(dataChannel[n]) - 1
  <2>1. dataChannel[n] \in Seq([conn : Nat, number : Nat]) /\ dataChannel[n] # <<>>
    BY <1>0 DEF Receive
  <2> QED BY <2>1
<1>3. MessageTypes'
  BY <1>0, <1>1, <1>2
<1>4. /\ \A k \in Conns : Sent(k)' = Sent(k) /\ (k # n => Taken(k)' = Taken(k))
      /\ Sent(n) \in Int /\ Taken(n) \in Int /\ Taken(n)' = Taken(n) + 1
      /\ Handled(n)' = Handled(n) + 1
  <2>1. \A k \in Conns : Sent(k)' = Sent(k)
    BY <1>1 DEF Sent
  <2>2. \A k \in Conns : k # n => dataChannel'[k] = dataChannel[k]
    BY <1>1
  <2>3. \A k \in Conns : k # n => Taken(k)' = Taken(k)
    BY <2>1, <2>2 DEF Taken
  <2>4. Sent(n) \in Int
    <3>1. held[n] \in [conn : Nat, number : Nat]
      OBVIOUS
    <3>2. held[n].number \in Int /\ held[n].number - 1 \in Int
      BY <3>1
    <3> QED BY <3>2 DEF Sent
  <2>5. Len(dataChannel'[n]) = Len(dataChannel[n]) - 1 /\ Len(dataChannel[n]) \in Int
    BY <1>1, <1>2
  <2>6. Taken(n) \in Int /\ Taken(n)' = Taken(n) + 1
    BY <2>1, <2>4, <2>5 DEF Taken
  <2>7. Handled(n)' = Handled(n) + 1
    BY <1>1 DEF Handled
  <2> QED BY <2>1, <2>3, <2>4, <2>6, <2>7
<1>5. ASSUME NEW k \in Conns PROVE ChannelInOrder(k)'
  <2>1. CASE k # n
    BY <1>1, <1>4, <2>1 DEF ChannelInOrder
  <2>2. CASE k = n
    <3>1. ASSUME NEW j \in 1..Len(dataChannel'[n])
          PROVE  dataChannel'[n][j] = [conn |-> n, number |-> Taken(n)' + j]
      <4>1. dataChannel'[n][j] = dataChannel[n][j + 1] /\ j + 1 \in 1..Len(dataChannel[n])
        BY <1>1, <1>2
      <4>2. dataChannel[n][j + 1] = [conn |-> n, number |-> Taken(n) + (j + 1)]
        BY <4>1 DEF ChannelInOrder
      <4>3. Taken(n)' + j = Taken(n) + (j + 1)
        BY <1>4
      <4> QED BY <4>1, <4>2, <4>3, Zenon
    <3>2. Taken(n) >= 0
      BY DEF ChannelInOrder
    <3> QED BY <1>1, <1>4, <2>2, <3>1, <3>2 DEF ChannelInOrder
  <2> QED BY <2>1, <2>2
<1>6. Taken(n)' = Handled(n)'
  <2>1. Taken(n) = Handled(n)
    BY <1>0
  <2> QED BY <1>4, <2>1
<1>7. conn' > 0 => (Taken(conn) = Handled(conn))'
  BY <1>0, <1>6
<1>8. \A k \in Conns : k > conn' => reader'[k] = "none" /\ held'[k].number = 0 /\ dataChannel'[k] = <<>>
  BY <1>0, <1>1
<1>9. message'.conn <= conn' /\ conn' > 0
  BY <1>0, <1>1
<1> QED BY <1>3, <1>5, <1>7, <1>8, <1>9

(* What a reader reads.                                                        *)
LEMMA ReadOne ==
  ASSUME MessageTypes, NEW k \in Conns, Read(k)
  PROVE  /\ held' \in [Conns -> [conn : Nat, number : Nat]]
         /\ held'[k].conn = k /\ held'[k].number = held[k].number + 1
         /\ \A m \in Conns : m # k => held'[m] = held[m]
<1> DEFINE next == [conn |-> k, number |-> held[k].number + 1]
<1>1. next \in [conn : Nat, number : Nat]
  BY BoundAssumption DEF MessageTypes, BoundAssumption
<1>2. held' = [held EXCEPT ![k] = next]
  BY DEF Read
<1> HIDE DEF next
<1>3. held' \in [Conns -> [conn : Nat, number : Nat]] /\ held'[k] = next
      /\ \A m \in Conns : m # k => held'[m] = held[m]
  BY <1>1, <1>2 DEF MessageTypes
<1> QED BY <1>3 DEF next

LEMMA OrderOfReader == ASSUME OrderInv, NEW k \in Conns, Reader(k) PROVE OrderInv'
<1> USE DEF OrderInv, MessageTypes
<1>1. /\ UNCHANGED <<pc, conn, message>> /\ k <= conn
      /\ held[k] \in [conn : Nat, number : Nat] /\ dataChannel[k] \in Seq([conn : Nat, number : Nat])
  BY DEF Reader, Read, Send, StreamEnds, loop
<1>2. /\ MessageTypes'
      /\ \A m \in Conns : m # k => /\ reader'[m] = reader[m] /\ held'[m] = held[m]
                                   /\ dataChannel'[m] = dataChannel[m]
  <2>1. CASE Read(k)
    BY <1>1, <2>1, ReadOne DEF Read
  <2>3. CASE StreamEnds(k)
    BY <1>1, <2>3 DEF StreamEnds
  <2>2. CASE Send(k)
    BY <1>1, <2>2 DEF Send
  <2> QED BY <2>1, <2>2, <2>3 DEF Reader
<1>3. ChannelInOrder(k)' /\ Taken(k)' = Taken(k)
  <2>1. CASE Read(k) \/ StreamEnds(k)
    <3>1. Sent(k)' = Sent(k) /\ dataChannel' = dataChannel
      <4>1. CASE Read(k)
        BY <1>1, <4>1, ReadOne DEF Read, Sent
      <4>2. CASE StreamEnds(k)
        BY <1>1, <4>2 DEF StreamEnds, Sent
      <4> QED BY <2>1, <4>1, <4>2
    <3>2. reader'[k] = "sending" => held'[k].conn = k /\ held'[k].number > 0
      <4>1. CASE Read(k)
        BY <1>1, <4>1, ReadOne
      <4>2. CASE StreamEnds(k)
        BY <1>1, <4>2 DEF StreamEnds
      <4> QED BY <2>1, <4>1, <4>2
    <3>3. Taken(k)' = Taken(k)
      BY <3>1 DEF Taken
    <3>4. ChannelInOrder(k)
      BY Zenon
    <3> HIDE DEF OrderInv, MessageTypes
    <3> QED BY <3>1, <3>2, <3>3, <3>4 DEF ChannelInOrder
  <2>2. CASE Send(k)
    <3> DEFINE s == dataChannel[k]
    <3>1. /\ held[k] = [conn |-> k, number |-> held[k].number] /\ held' = held
          /\ reader[k] = "sending" /\ reader'[k] = "reading"
          /\ dataChannel'[k] = Append(s, held[k])
      BY <1>1, <2>2 DEF Send, ChannelInOrder
    <3>2. /\ Sent(k) = held[k].number - 1 /\ Sent(k)' = held[k].number
          /\ Len(dataChannel'[k]) = Len(s) + 1
          /\ Taken(k)' = Taken(k) /\ Taken(k) + (Len(s) + 1) = held[k].number
      <4>1. Sent(k) = held[k].number - 1 /\ Sent(k)' = held[k].number
        BY <3>1 DEF Sent
      <4>2. Len(Append(s, held[k])) = Len(s) + 1 /\ Len(s) \in Nat
        BY <1>1
      <4>3. Taken(k) = held[k].number - 1 - Len(s) /\ Taken(k)' = held[k].number - (Len(s) + 1)
        BY <3>1, <4>1, <4>2 DEF Taken
      <4>4. held[k].number \in Nat
        BY <1>1
      <4> HIDE DEF OrderInv, MessageTypes, s
      <4>5. Taken(k)' = Taken(k) /\ Taken(k) + (Len(s) + 1) = held[k].number
        BY <4>2, <4>3, <4>4
      <4>6. Len(dataChannel'[k]) = Len(s) + 1
        BY <3>1, <4>2, Zenon
      <4> QED BY <4>1, <4>5, <4>6, Zenon
    <3>3. ASSUME NEW j \in 1..Len(dataChannel'[k])
          PROVE  dataChannel'[k][j] = [conn |-> k, number |-> Taken(k) + j]
      <4>1. CASE j = Len(s) + 1
        BY <1>1, <3>1, <3>2, <4>1
      <4>2. CASE j # Len(s) + 1
        <5>1. j \in 1..Len(s) /\ dataChannel'[k][j] = s[j]
          BY <1>1, <3>1, <3>2, <4>2
        <5> QED BY <5>1 DEF ChannelInOrder
      <4> QED BY <4>1, <4>2
    <3> QED BY <3>1, <3>2, <3>3 DEF ChannelInOrder
  <2> QED BY <2>1, <2>2 DEF Reader
<1>4. ASSUME NEW m \in Conns, m # k PROVE ChannelInOrder(m)' /\ Taken(m)' = Taken(m)
  BY <1>2, <1>4 DEF ChannelInOrder, Taken, Sent
<1>5. \A m \in Conns : m > conn => m # k
  BY <1>1
<1>6. \A m \in Conns : ChannelInOrder(m)'
  BY <1>3, <1>4
<1>7. conn > 0 => Taken(conn)' = Handled(conn)'
  <2> SUFFICES ASSUME conn > 0 PROVE (Taken(conn) = Handled(conn))'
    OBVIOUS
  <2>1. PICK n \in Conns : conn = n /\ conn' = n
    BY <1>1
  <2>2. Taken(n) = Handled(n)
    BY <2>1
  <2>3. Taken(n)' = Taken(n)
    BY <1>3, <1>4
  <2>4. Handled(n)' = Handled(n)
    BY <1>1 DEF Handled
  <2> QED BY <2>1, <2>2, <2>3, <2>4
<1>8. \A m \in Conns : m > conn' => reader'[m] = "none" /\ held'[m].number = 0 /\ dataChannel'[m] = <<>>
  BY <1>1, <1>2, <1>5
<1>9. message'.conn <= conn' /\ (pc' \in {"select", "process"} => conn' > 0)
  BY <1>1
<1>10. conn' > 0 => (Taken(conn) = Handled(conn))'
  BY <1>1, <1>7
<1> QED BY <1>2, <1>6, <1>8, <1>9, <1>10

LEMMA OrderStep == ASSUME OrderInv, [Next]_vars PROVE OrderInv'
<1>1. CASE SetURL \/ Shutdown \/ FirstURL \/ DialFails \/ Pause
  BY <1>1, OrderKept DEF SetURL, Shutdown, FirstURL, DialFails, Pause, PauseNewURL, PauseOver,
                         PauseDone, stream, loop
<1>2. CASE ConnectionEnds \/ KeepAliveExpires \/ NewURL \/ Done \/ Process \/ TimerFires
  BY <1>2, OrderKept DEF ConnectionEnds, KeepAliveExpires, NewURL, Done, Leave, Process, TimerFires,
                         stream, loop
<1>3. CASE UNCHANGED vars
  BY <1>3, OrderKept DEF vars, stream, loop
<1> QED BY <1>1, <1>2, <1>3, OrderOfConnect, OrderOfReceive, OrderOfReader DEF Next, Select

(* Only Receive hands a message over, and only it changes the message.         *)
LEMMA OthersHandNothing ==
  ASSUME [Next]_vars, ~Receive PROVE ~HandsOver /\ message' = message
<1> USE DEF HandsOver
<1>1. CASE SetURL \/ Shutdown \/ FirstURL \/ DialFails \/ Connect \/ Pause
  BY <1>1 DEF SetURL, Shutdown, FirstURL, DialFails, Connect, Pause, PauseNewURL, PauseOver,
              PauseDone, loop
<1>2. CASE ConnectionEnds \/ KeepAliveExpires \/ NewURL \/ Done \/ Process \/ TimerFires
  BY <1>2 DEF ConnectionEnds, KeepAliveExpires, NewURL, Done, Leave, Process, TimerFires, loop
<1>3. ASSUME NEW k \in Conns, Reader(k) PROVE ~HandsOver /\ message' = message
  BY <1>3 DEF Reader, Read, Send, StreamEnds, loop
<1>4. CASE UNCHANGED vars
  BY <1>4 DEF vars, loop
<1> QED BY <1>1, <1>2, <1>3, <1>4 DEF Next, Select

(* The loop handles the messages of the connection it is on, each once, in     *)
(* order and without a gap, whatever the readers of earlier ones are doing     *)
(* (client.go 111-139 and 226-239).                                            *)
THEOREM MessagesComeInOrder == Spec => MessagesInOrder
<1> DEFINE Follows == /\ message'.conn = conn
                      /\ message'.number = IF message.conn = conn THEN message.number + 1 ELSE 1
<1>1. ASSUME OrderInv, [Next]_vars, HandsOver \/ message' # message PROVE Follows
  <2>1. Receive
    BY <1>1, OthersHandNothing
  <2>2. message'.conn = conn /\ message'.number = Handled(conn) + 1
    BY <1>1, <2>1, Received
  <2> QED BY <2>2 DEF Handled
<1>2. OrderInv /\ [Next]_vars => [HandsOver \/ message' # message => Follows]_vars
  BY <1>1
<1> QED BY <1>2, OrderInit, OrderStep, PTL DEF Spec, MessagesInOrder
================================================================================
