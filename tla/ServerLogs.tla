------------------------------ MODULE ServerLogs ------------------------------
(***************************************************************************)
(* The window that logs what the hosted server uploads. The sockets of the *)
(* server tell it, through the server, what they begin to send, what they  *)
(* have written and what is lost; the window keeps one row for each        *)
(* message and one index for all the sockets: that of the oldest row that  *)
(* waits.                                                                  *)
(***************************************************************************)
EXTENDS SocketFraming, FiniteSets

CONSTANTS
  Socket,      \* the sockets of the server
  Lengths,     \* lengths of what is sent, in units
  MaxLogged    \* bound on the messages sent

LogsAssumption == Lengths \subseteq Nat \ {0} /\ MaxLogged \in Nat

VARIABLES
  waitingTBU,   \* _waitingTBU of each socket
  unwritten,    \* bytes to write of each socket, zero once it is deleted
  connected,    \* sockets that are not deleted
  uploads,      \* history variable: what was sent to whom, and whether it was written
  bound,        \* whether the window listens
  logsInbox,    \* signals of the server, queued for the window
  rows,         \* rows of the table, the newest first
  waitingRow,   \* _waitingRow
  logsSlips,    \* history variable: causes for which the log may tell otherwise
  logsCrashed   \* history variable: an item that is not there was used

logsVars == <<waitingTBU, unwritten, connected, uploads, bound, logsInbox, rows, waitingRow,
              logsSlips, logsCrashed>>

LogsInit ==
  /\ waitingTBU = [s \in Socket |-> <<>>]
  /\ unwritten = [s \in Socket |-> 0]
  /\ connected = Socket
  /\ uploads = <<>>
  /\ bound = FALSE
  /\ logsInbox = <<>>
  /\ rows = <<>> /\ waitingRow = -1
  /\ logsSlips = {}
  /\ logsCrashed = FALSE

\* The window hears what is signalled once it is made
tells(signals) == logsInbox' = IF bound THEN logsInbox \o signals ELSE logsInbox

unheard(signals) == IF bound \/ signals = <<>> THEN {} ELSE {"unheard"}

---------------------------------------------------------------------------
(* The server *)

\* sendToSocket
StartUpload(s) ==
  /\ s \in connected /\ Len(uploads) < MaxLogged
  /\ \E n \in Lengths :
       LET id == Len(uploads) + 1
           signals == <<[type |-> "started", of |-> id, total |-> n]>>
       IN /\ uploads' = Append(uploads, [to |-> s, state |-> "waiting"])
          /\ waitingTBU' = [waitingTBU EXCEPT ![s] = Append(@, [of |-> id, length |-> n])]
          /\ unwritten' = [unwritten EXCEPT ![s] = @ + n]
          /\ tells(signals)
          /\ logsSlips' = logsSlips \cup unheard(signals)
  /\ UNCHANGED <<connected, bound, rows, waitingRow, logsCrashed>>

waitingUploads == {i \in DOMAIN uploads : uploads[i].state = "waiting"}

\* Whether the first messages of a queue are not the oldest of all that wait
crosses(queue, count) ==
  \E i \in 1..count : Cardinality({j \in waitingUploads : j < queue[i].of}) # i - 1

\* _onBytesWritten: every message it reaches is told the whole of the bytes left
WriteOf(s) ==
  /\ unwritten[s] > 0
  /\ \E n \in 1..unwritten[s] :
       LET queue == waitingTBU[s]
           lengths == [i \in DOMAIN queue |-> queue[i].length]
           told == uploaded(lengths, n)
           left == Len(onBytesWritten(lengths, n))
           parts == IF splits(lengths, n) THEN <<[type |-> "uploading"]>> ELSE <<>>
           signals == FlattenSeq([i \in 1..told |->
                        <<[type |-> "uploading"], [type |-> "uploaded", of |-> queue[i].of]>>]) \o parts
       IN /\ waitingTBU' = [waitingTBU EXCEPT ![s] = SubSeq(@, Len(@) - left + 1, Len(@))]
          /\ unwritten' = [unwritten EXCEPT ![s] = @ - n]
          /\ uploads' = [i \in DOMAIN uploads |->
               IF \E j \in 1..told : queue[j].of = i THEN [uploads[i] EXCEPT !.state = "written"]
               ELSE uploads[i]]
          /\ tells(signals)
          /\ logsSlips' = logsSlips \cup unheard(signals)
               \cup (IF parts # <<>> THEN {"partial"} ELSE {})
               \cup (IF crosses(queue, told) THEN {"crossed"} ELSE {})
  /\ UNCHANGED <<connected, bound, rows, waitingRow, logsCrashed>>

\* _onClientSocketDisconnected, then the destructor of the socket: what waits is told
\* interrupted, all in one
Disconnect(s) ==
  /\ s \in connected
  /\ connected' = connected \ {s}
  /\ LET queue == waitingTBU[s]
         signals == IF queue = <<>> THEN <<>> ELSE <<[type |-> "interrupted"]>>
     IN /\ waitingTBU' = [waitingTBU EXCEPT ![s] = <<>>]
        /\ uploads' = [i \in DOMAIN uploads |->
             IF uploads[i].to = s /\ uploads[i].state = "waiting"
             THEN [uploads[i] EXCEPT !.state = "lost"] ELSE uploads[i]]
        /\ tells(signals)
        /\ logsSlips' = logsSlips \cup unheard(signals)
             \cup (IF Len(queue) > 1 THEN {"dropped"} ELSE {})
             \cup (IF queue # <<>> /\ crosses(queue, 1) THEN {"crossed"} ELSE {})
  /\ unwritten' = [unwritten EXCEPT ![s] = 0]
  /\ UNCHANGED <<bound, rows, waitingRow, logsCrashed>>

---------------------------------------------------------------------------
(* The window *)

\* RPZStatusBar::setBoundServer, the server being started before
BindLogs ==
  /\ ~bound /\ bound' = TRUE
  /\ UNCHANGED <<waitingTBU, unwritten, connected, uploads, logsInbox, rows, waitingRow,
                 logsSlips, logsCrashed>>

hearsLog(type) ==
  /\ logsInbox # <<>> /\ Head(logsInbox).type = type
  /\ logsInbox' = Tail(logsInbox)
  /\ UNCHANGED <<waitingTBU, unwritten, connected, uploads, bound, logsSlips>>

onStartUploadToClient ==
  /\ hearsLog("started")
  /\ rows' = <<[of |-> Head(logsInbox).of, state |-> "waiting"]>> \o rows
  /\ waitingRow' = waitingRow + 1
  /\ UNCHANGED logsCrashed

onUploadingToClient ==
  /\ hearsLog("uploading")
  /\ logsCrashed' = (waitingRow = -1)
  /\ UNCHANGED <<rows, waitingRow>>

previousRow == IF waitingRow > -1 THEN waitingRow - 1 ELSE waitingRow

\* Mutant: the index goes the way of the rows.
onUploadedOfNewest ==
  /\ hearsLog("uploaded")
  /\ logsCrashed' = (waitingRow = -1)
  /\ rows' = IF rows = <<>> THEN rows ELSE [rows EXCEPT ![1].state = "written"]
  /\ waitingRow' = previousRow

\* _onUploadedToClient: the text of the oldest row that waits tells it whole
onUploadedToClient ==
  /\ hearsLog("uploaded")
  /\ logsCrashed' = (waitingRow = -1)
  /\ rows' = IF waitingRow = -1 THEN rows ELSE [rows EXCEPT ![waitingRow + 1].state = "written"]
  /\ waitingRow' = previousRow

\* _onClientUploadInterrupted: its row stays as it is
onClientUploadInterrupted ==
  /\ hearsLog("interrupted")
  /\ waitingRow' = previousRow
  /\ UNCHANGED <<rows, logsCrashed>>

LogsNext ==
  /\ ~logsCrashed
  /\ \/ \E s \in Socket : StartUpload(s) \/ WriteOf(s) \/ Disconnect(s)
     \/ BindLogs
     \/ onStartUploadToClient \/ onUploadingToClient \/ onUploadedToClient
     \/ onClientUploadInterrupted

LogsSpec == LogsInit /\ [][LogsNext]_logsVars

---------------------------------------------------------------------------
(* Properties *)

(* The window's index never leaves the table unless the server was busy before the     *)
(* window was made. Once all is heard, it counts what waits, but for a socket that went *)
(* with several messages (JSONSocket.cpp:40); and a row tells its message written       *)
(* exactly when it was, as long as the sockets are written in the order of the sends    *)
(* and no message in parts (ServerLogs.hpp:95).                                         *)
UploadsLogged ==
  /\ logsCrashed => "unheard" \in logsSlips
  /\ logsInbox = <<>> /\ bound /\ logsSlips \cap {"unheard", "dropped"} = {} =>
       /\ waitingRow + 1 = Cardinality(waitingUploads)
       /\ logsSlips = {} => \A r \in DOMAIN rows :
            rows[r].state = "written" <=> uploads[rows[r].of].state = "written"
=============================================================================
