----------------------------- MODULE MessageFIFO ------------------------------
(***************************************************************************)
(* What RPZNetwork takes a connection for, in one direction: a FIFO of     *)
(* whole messages, of which the reader may take several at once, and whose *)
(* unread part is lost when it closes.                                     *)
(***************************************************************************)
EXTENDS Sequences, Naturals

VARIABLES
  open,      \* whether the connection is up
  queue,     \* contents of the messages sent and not read
  delivered  \* contents of the messages read

fifoVars == <<open, queue, delivered>>

Init == open = TRUE /\ queue = <<>> /\ delivered = <<>>

Send ==
  /\ open
  /\ Len(queue') = Len(queue) + 1
  /\ SubSeq(queue', 1, Len(queue)) = queue
  /\ UNCHANGED <<open, delivered>>

Deliver ==
  /\ open
  /\ \E n \in 1..Len(queue) :
       /\ delivered' = delivered \o SubSeq(queue, 1, n)
       /\ queue' = SubSeq(queue, n + 1, Len(queue))
  /\ UNCHANGED open

Close == open /\ ~open' /\ queue' = <<>> /\ UNCHANGED delivered

Spec == Init /\ [][Send \/ Deliver \/ Close]_fifoVars
=============================================================================
