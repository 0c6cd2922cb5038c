----------------------------- MODULE JSONSocket -------------------------------
(***************************************************************************)
(* One direction of a connection between two JSONSockets, one of a client  *)
(* and one of the server, and what the interface of the client shows of    *)
(* it: a lamp of ClientActivityBar, and the bar of DownloadStatus when it  *)
(* reads.                                                                  *)
(*                                                                         *)
(* The socket lives in the thread of its client; what it signals is queued *)
(* for the interface, and outlives the connection.                         *)
(***************************************************************************)
EXTENDS SocketFraming

CONSTANTS
  Messages,  \* the messages that may be sent
  MaxSent,   \* bound on what is sent
  MaxQueued  \* bound on the signals that the interface has to hear before more comes

SocketAssumption ==
  /\ ChunkAssumption
  /\ Messages \subseteq [id : Nat, method : {Light, Heavy}, size : Nat \ {0}]
  /\ MaxSent \in Nat /\ MaxQueued \in Nat

End == {"writer", "reader"}

VARIABLES
  client,     \* the end that is the client's
  open,
  sent,       \* history variable: the messages sent
  buffer,     \* bytes to write
  wire,       \* bytes written, not received yet
  waiting,    \* _waitingTBU: lengths of what was not told uploaded
  received,   \* bytes received and not consumed
  complete,   \* _batchComplete
  ackHeader,  \* _ackHeader
  delivered,  \* history variable: the contents told by PayloadReceived
  inbox,      \* signals of the client's socket, queued for its interface
  lamp,       \* ClientActivityIndicator
  bar,        \* DownloadStatus
  slips       \* history variable: causes for which the interface may tell otherwise

socketVars ==
  <<client, open, sent, buffer, wire, waiting, received, complete, ackHeader, delivered, inbox,
    lamp, bar, slips>>

Init ==
  /\ client \in End /\ open = TRUE
  /\ sent = <<>> /\ buffer = <<>> /\ wire = <<>> /\ waiting = <<>>
  /\ received = <<>> /\ complete = FALSE /\ ackHeader = FALSE /\ delivered = <<>>
  /\ inbox = <<>>
  /\ lamp = [on |-> FALSE, pending |-> FALSE, timer |-> FALSE]
  /\ bar = [visible |-> FALSE, max |-> 0]
  /\ slips = {}

signal(e, signals) == inbox' = IF e = client THEN inbox \o signals ELSE inbox

---------------------------------------------------------------------------
(* The writer *)

Send ==
  /\ open /\ Len(sent) < MaxSent
  /\ \E m \in Messages :
       LET numbered == [m EXCEPT !.id = Len(sent) + 1] IN
       /\ sent' = Append(sent, numbered)
       /\ buffer' = buffer \o framed(numbered)
       /\ waiting' = Append(waiting, Len(framed(numbered)))
  /\ UNCHANGED <<client, open, wire, received, complete, ackHeader, delivered, inbox, lamp, bar, slips>>

\* The system takes what it can; _onBytesWritten
Write ==
  /\ open /\ Len(inbox) <= MaxQueued
  /\ \E n \in 1..Len(buffer) :
       LET told == uploaded(waiting, n) IN
       /\ wire' = wire \o SubSeq(buffer, 1, n)
       /\ buffer' = SubSeq(buffer, n + 1, Len(buffer))
       /\ waiting' = onBytesWritten(waiting, n)
       /\ signal("writer", FlattenSeq([i \in 1..told |-> <<[type |-> "on"], [type |-> "off"]>>])
                             \o IF splits(waiting, n) THEN <<[type |-> "on"]>> ELSE <<>>)
       /\ slips' = IF splits(waiting, n) THEN slips \cup {"partial"} ELSE slips
  /\ UNCHANGED <<client, open, sent, received, complete, ackHeader, delivered, lamp, bar>>

---------------------------------------------------------------------------
(* The reader *)

\* _processIncomingData as a record: what it has read, and whether it waits for more
reading(bytes) ==
  [bytes |-> bytes, complete |-> complete, ackHeader |-> ackHeader, waits |-> FALSE,
   told |-> <<>>, signals |-> <<>>, splits |-> FALSE]

acknowledged(r) == r.ackHeader /\ ~r.complete

announced(r, b) ==
  IF acknowledged(r) THEN <<>>
  ELSE <<[type |-> "started", method |-> b.method, total |-> b.size]>>

\* A round that leaves the batch incomplete is rolled back
processBatch(r) ==
  LET b == batch(r.bytes) IN
  IF r.bytes = <<>> \/ r.waits THEN r
  ELSE IF ~b.complete
    THEN [r EXCEPT !.complete = FALSE, !.ackHeader = TRUE, !.waits = TRUE,
                   !.splits = @ \/ (~acknowledged(r) /\ Len(r.bytes) < 4),
                   !.signals = @ \o announced(r, b)
                                 \o <<[type |-> "progress"]>>]
    ELSE [r EXCEPT !.complete = TRUE, !.ackHeader = TRUE, !.bytes = b.rest,
                   !.told = Append(@, b.data),
                   !.signals = @ \o announced(r, b)
                                 \o <<[type |-> "progress"], [type |-> "downloaded"]>>]

processIncomingData(bytes) ==
  LET round[n \in 0..Len(bytes)] ==
        IF n = 0 THEN reading(bytes) ELSE processBatch(round[n - 1])
  IN round[Len(bytes)]

\* readyRead
Receive ==
  /\ open /\ Len(inbox) <= MaxQueued
  /\ \E n \in 1..Len(wire) :
       LET r == processIncomingData(received \o SubSeq(wire, 1, n)) IN
       /\ wire' = SubSeq(wire, n + 1, Len(wire))
       /\ received' = r.bytes
       /\ complete' = r.complete /\ ackHeader' = r.ackHeader
       /\ delivered' = delivered \o r.told
       /\ signal("reader", r.signals)
       /\ slips' = IF r.splits THEN slips \cup {"split"} ELSE slips
  /\ UNCHANGED <<client, open, sent, buffer, waiting, lamp, bar>>

---------------------------------------------------------------------------
(* The interfaces *)

onActivityOn(l) == [on |-> TRUE, pending |-> TRUE, timer |-> TRUE]

\* The timer goes on once started: the lamp is put off at its next turn
onActivityOff(l) == [l EXCEPT !.pending = FALSE, !.on = @ /\ l.timer]

\* DownloadStatus
onDownloadStarted(b, s) ==
  IF s.method # Heavy THEN b ELSE [visible |-> TRUE, max |-> s.total]

onDownloadEnded(b) == [b EXCEPT !.visible = FALSE]

barAfter(b, s) ==
  CASE s.type = "started" -> onDownloadStarted(b, s)
    [] s.type \in {"downloaded", "closed"} -> onDownloadEnded(b)
    [] OTHER -> b

lampAfter(l, s) ==
  CASE s.type \in {"on", "progress"} -> onActivityOn(l)
    [] s.type \in {"off", "downloaded", "closed"} -> onActivityOff(l)
    [] OTHER -> l

closed == [type |-> "closed"]

shows(s) ==
  /\ lamp' = lampAfter(lamp, s)
  /\ bar' = IF client = "reader" THEN barAfter(bar, s) ELSE bar

\* What is heard of a connection after its end, but for the end itself
outlives == ~open /\ \A i \in DOMAIN inbox : inbox[i] # closed

Hear ==
  /\ inbox # <<>> /\ inbox' = Tail(inbox)
  /\ shows(Head(inbox))
  /\ slips' = IF outlives THEN slips \cup {"late"} ELSE slips
  /\ UNCHANGED <<client, open, sent, buffer, wire, waiting, received, complete, ackHeader,
                 delivered>>

\* The lamp lingers
Linger ==
  /\ lamp.timer /\ lamp.on /\ ~lamp.pending
  /\ lamp' = [lamp EXCEPT !.on = FALSE]
  /\ UNCHANGED <<client, open, sent, buffer, wire, waiting, received, complete, ackHeader,
                 delivered, inbox, bar, slips>>

\* The user of the client closes it, and the interface hears it at once; or the server
\* does, and that is heard after what was signalled. What was not read is lost.
Close ==
  /\ open /\ open' = FALSE
  /\ buffer' = <<>> /\ wire' = <<>> /\ received' = <<>> /\ waiting' = <<>>
  /\ \/ shows(closed) /\ UNCHANGED inbox
     \/ inbox' = Append(inbox, closed) /\ UNCHANGED <<lamp, bar>>
  /\ UNCHANGED <<client, sent, complete, ackHeader, delivered, slips>>

Next ==
  \/ Send \/ Write \/ Receive
  \/ Hear \/ Linger
  \/ Close

Spec == Init /\ [][Next]_socketVars

---------------------------------------------------------------------------
(* Properties *)

contents(messages) == [i \in DOMAIN messages |-> pieces(messages[i])]

(* The connection is the FIFO of whole messages that RPZNetwork takes it for,         *)
(* wherever what is written and what is received is split (JSONSocket.cpp:119).       *)
FIFO == INSTANCE MessageFIFO WITH
  queue <- IF open THEN contents(SubSeq(sent, Len(delivered) + 1, Len(sent))) ELSE <<>>

WireIsFIFO == FIFO!Spec

underWay == open /\ ackHeader /\ ~complete

(* Once its signals are heard, the interface tells what goes on: the lamp is lit, or  *)
(* lingers, only while a message is under way, and the bar shows a heavy message with  *)
(* its size while it comes, unless a header came in parts (JSONSocket.cpp:136), a      *)
(* message was written in parts (:57) or signals outlived the connection.              *)
TransfersShown ==
  /\ inbox = <<>> /\ "late" \notin slips =>
       CASE client = "reader" ->
              /\ lamp.pending <=> underWay
              /\ "split" \notin slips =>
                   /\ bar.visible <=> underWay /\ batch(received).method = Heavy
                   /\ bar.visible => bar.max = batch(received).size
         [] OTHER -> "partial" \notin slips => ~lamp.pending
  /\ buffer = <<>> /\ "partial" \notin slips => waiting = <<>>
=============================================================================
