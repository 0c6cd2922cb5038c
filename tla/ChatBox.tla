------------------------------- MODULE ChatBox --------------------------------
(***************************************************************************)
(* The chat of one user as it is laid out: the rows of the log and the     *)
(* place each was given, the messages counted on the tab while it hides,   *)
(* and the line being written, with the throws it recalls and the names it *)
(* completes. Who gets a message, and what is grey, is in Observers.       *)
(*                                                                         *)
(* Clients and messages are numbered as they come; a row of the server's,  *)
(* an answer or a word of its own, has no number.                          *)
(***************************************************************************)
EXTENDS Integers, Sequences, SequencesExt

CONSTANTS
  MaxSessions,  \* bound on the connections
  MaxMessages,  \* bound on the messages
  MaxUnheard    \* bound on the signals the interface has to hear before more comes

ChatAssumption == MaxSessions \in Nat /\ MaxMessages \in Nat /\ MaxUnheard \in Nat

\* What may be written: words, and words between braces. What is blank is not sent
Text == {"plain", "braced"}
NoText == "none"
NoClient == 0

VARIABLES
  client,        \* ConnectivityObserver::_rpzClient
  sessions,      \* connections so far
  chatOn,        \* whether the chat is enabled
  chatInbox,     \* signals of the clients, queued for the interface
  stored,        \* the messages the server keeps
  unanswered,    \* the messages sent in this connection that the server has not answered
  chatRows,      \* the layout of the log
  position,      \* positionInLog of the messages shown
  unseen,        \* _msgIdsNotSeen
  hubVisible,    \* _isVisibleByUser
  edit,          \* _msgEdit: its text, its history and the index in it
  dice,          \* whether _useDicerBtn is checked
  completer,     \* whose names _completer has
  offered,       \* whose names _msgEdit completes
  messages,      \* messages so far
  chatSlips,     \* history variable: causes for which rows or counts are off
  chatCrash      \* history variable: what was used while it was not there

logVars == <<chatRows, position, unseen>>
lineVars == <<edit, dice, completer, offered>>
chatVars == <<client, sessions, chatOn, chatInbox, stored, unanswered, logVars, hubVisible,
              lineVars, messages, chatSlips, chatCrash>>

ChatInit ==
  /\ client = NoClient /\ sessions = 0 /\ chatOn = FALSE /\ chatInbox = <<>>
  /\ stored = <<>> /\ unanswered = <<>>
  /\ chatRows = <<>> /\ position = [m \in {} |-> 0] /\ unseen = <<>>
  /\ hubVisible = FALSE
  /\ edit = [text |-> NoText, history |-> <<>>, index |-> -1]
  /\ dice = FALSE /\ completer = NoClient /\ offered = NoClient
  /\ messages = 0
  /\ chatSlips = {} /\ chatCrash = "no"

---------------------------------------------------------------------------
(* LogContainer and MessagesLog *)

Log == [rows |-> chatRows, at |-> position, unseen |-> unseen, slips |-> chatSlips]

isLog(log) ==
  /\ chatRows' = log.rows /\ position' = log.at
  /\ unseen' = log.unseen /\ chatSlips' = log.slips

\* _handleMessage: what is shown already is left as it is
handleMessage(log, m) ==
  IF m \in DOMAIN log.at THEN log
  ELSE [log EXCEPT
         !.rows = Append(@, [id |-> m, under |-> 0]),
         !.at = [n \in DOMAIN @ \cup {m} |-> IF n = m THEN Len(log.rows) ELSE @[n]],
         !.unseen = IF hubVisible THEN @ ELSE Append(@, m)]

\* A word of the server's own
handleWord(log) == [log EXCEPT !.rows = Append(@, [id |-> 0, under |-> 0])]

\* Mutant: an answer is put where its message stands.
targetAbove(log, m) == log.at[m]

target(log, m) == log.at[m] + 1

\* _addLine under another: the rows beneath keep the position they were given
handleAnswer(log, m) ==
  LET at == target(log, m) IN
  [log EXCEPT !.rows = SubSeq(@, 1, at) \o <<[id |-> 0, under |-> m]>>
                         \o SubSeq(@, at + 1, Len(@)),
              !.slips = IF log.at[m] = Len(log.rows) - 1 THEN @ ELSE @ \cup {"shifted"}]

\* The count is kept
clearLines(log) ==
  [log EXCEPT !.rows = <<>>, !.at = [m \in {} |-> 0],
              !.slips = (@ \ {"shifted"}) \cup IF log.unseen = <<>> THEN {} ELSE {"cleared"}]

\* setIsUserVisible, as tabs are changed
ChangeTab ==
  /\ hubVisible' = ~hubVisible
  /\ unseen' = IF hubVisible THEN unseen ELSE <<>>
  /\ chatSlips' = IF hubVisible THEN chatSlips ELSE chatSlips \ {"cleared"}
  /\ UNCHANGED <<client, sessions, chatOn, chatInbox, stored, unanswered, chatRows, position,
                 lineVars, messages, chatCrash>>

---------------------------------------------------------------------------
(* ChatEdit *)

clearAndResetHistoryIndex(e) == [e EXCEPT !.text = NoText, !.index = -1]

Type ==
  /\ chatOn
  /\ \E text \in Text : edit' = [edit EXCEPT !.text = text]
  /\ UNCHANGED <<client, sessions, chatOn, chatInbox, stored, unanswered, logVars, hubVisible,
                 dice, completer, offered, messages, chatSlips, chatCrash>>

\* _historyUp and _historyDown, a step of 1 or -1
Recall(step) ==
  LET index == edit.index + step IN
  /\ chatOn /\ index \in 0..Len(edit.history) - 1
  /\ edit' = [edit EXCEPT !.index = index, !.text = edit.history[index + 1]]
  /\ UNCHANGED <<client, sessions, chatOn, chatInbox, stored, unanswered, logVars, hubVisible,
                 dice, completer, offered, messages, chatSlips, chatCrash>>

\* _defineMsgSendBtn
ToggleDice ==
  /\ chatOn
  /\ dice' = ~dice
  /\ offered' = IF dice THEN completer ELSE NoClient
  /\ edit' = clearAndResetHistoryIndex(edit)
  /\ UNCHANGED <<client, sessions, chatOn, chatInbox, stored, unanswered, logVars, hubVisible,
                 completer, messages, chatSlips, chatCrash>>

addTextToHistory(e) ==
  IF e.history # <<>> /\ Head(e.history) = e.text THEN e
  ELSE [e EXCEPT !.history = <<e.text>> \o @]

\* _sendCommand: only what is thrown with the button is kept. A message to no client is
\* shown, and goes nowhere.
SendCommand ==
  /\ chatOn /\ edit.text # NoText /\ messages < MaxMessages
  /\ messages' = messages + 1
  /\ edit' = clearAndResetHistoryIndex(IF dice THEN addTextToHistory(edit) ELSE edit)
  /\ isLog(handleMessage(Log, messages + 1))
  /\ unanswered' = IF client = NoClient THEN unanswered
                   ELSE Append(unanswered, [id |-> messages + 1,
                                            thrown |-> dice \/ edit.text = "braced"])
  /\ UNCHANGED <<client, sessions, chatOn, chatInbox, stored, hubVisible, dice, completer, offered,
                 chatCrash>>

---------------------------------------------------------------------------
(* The server and the client, whose signals are queued *)

room == Len(chatInbox) < MaxUnheard

signals(s) == chatInbox' = Append(chatInbox, s)

\* Once in each connection, before all else
welcomed == \E i \in DOMAIN chatInbox : chatInbox[i] = [type |-> "session", of |-> client]
begun == client # NoClient /\ (chatOn \/ welcomed)

SessionComes ==
  /\ client # NoClient /\ ~begun /\ room
  /\ chatInbox' = chatInbox \o <<[type |-> "targets", of |-> client],
                                 [type |-> "session", of |-> client]>>
  /\ UNCHANGED <<client, sessions, chatOn, stored, unanswered, logVars, hubVisible, lineVars,
                 messages, chatSlips, chatCrash>>

\* Another user's message, or the result of a throw
OthersSay ==
  /\ begun /\ messages < MaxMessages /\ room
  /\ messages' = messages + 1
  /\ stored' = Append(stored, messages + 1)
  /\ signals([type |-> "message", of |-> client, id |-> messages + 1])
  /\ UNCHANGED <<client, sessions, chatOn, unanswered, logVars, hubVisible, lineVars, chatSlips,
                 chatCrash>>

\* _interpretMessage: what is thrown is answered with an error or acknowledged, what is
\* said is kept and acknowledged, or is a command; only what is not an Ack has a row
ServerAnswers ==
  /\ client # NoClient /\ unanswered # <<>> /\ room
  /\ unanswered' = Tail(unanswered)
  /\ LET m == Head(unanswered) IN
     \/ stored' = Append(stored, m.id) /\ UNCHANGED chatInbox
     \/ ~m.thrown /\ UNCHANGED <<stored, chatInbox>>
     \/ signals([type |-> "answer", of |-> client, id |-> m.id]) /\ UNCHANGED stored
  /\ UNCHANGED <<client, sessions, chatOn, logVars, hubVisible, lineVars, messages, chatSlips,
                 chatCrash>>

ConnectionEnds ==
  /\ client # NoClient
  /\ \A i \in DOMAIN chatInbox : chatInbox[i] # [type |-> "ended", of |-> client]
  /\ signals([type |-> "ended", of |-> client])
  /\ UNCHANGED <<client, sessions, chatOn, stored, unanswered, logVars, hubVisible, lineVars,
                 messages, chatSlips, chatCrash>>

---------------------------------------------------------------------------
(* ChatWidget *)

\* connectingToServer
Connect ==
  /\ client = NoClient /\ sessions < MaxSessions
  /\ sessions' = sessions + 1 /\ client' = sessions + 1
  /\ isLog(clearLines(Log))
  /\ UNCHANGED <<chatOn, chatInbox, stored, unanswered, hubVisible, lineVars, messages, chatCrash>>

\* A chat is cleared when it is disabled, of the reason why it was as well
ended(log, on) == IF on THEN clearLines(handleWord(log)) ELSE handleWord(log)

connectionClosed == completer' = NoClient /\ offered' = NoClient

Disconnect ==
  /\ client # NoClient
  /\ client' = NoClient /\ chatOn' = FALSE /\ unanswered' = <<>>
  /\ connectionClosed
  /\ isLog(ended(Log, chatOn))
  /\ UNCHANGED <<sessions, chatInbox, stored, hubVisible, edit, dice, messages, chatCrash>>

\* What a client signalled is heard after it is gone, by the next one
slipsOf(s) == IF s.of = client THEN {} ELSE {"late"}

hears(type) ==
  /\ chatInbox # <<>> /\ Head(chatInbox).type = type
  /\ chatInbox' = Tail(chatInbox)
  /\ UNCHANGED <<sessions, stored, hubVisible, dice, messages>>

late(log) == [log EXCEPT !.slips = @ \cup slipsOf(Head(chatInbox))]

\* endClient, whichever client ended; then the reason is told once more
HearEnded ==
  /\ hears("ended")
  /\ IF client = NoClient
     THEN chatCrash' = "client" /\ isLog(late(Log)) /\ UNCHANGED <<chatOn, completer, offered>>
     ELSE /\ connectionClosed /\ chatOn' = FALSE
          /\ isLog(handleWord(ended(late(Log), chatOn)))
          /\ UNCHANGED chatCrash
  /\ client' = NoClient /\ unanswered' = <<>>
  /\ UNCHANGED edit

\* _onGameSessionReceived: the history of the server, then a welcome
HearSession ==
  /\ hears("session")
  /\ chatOn' = TRUE
  /\ edit' = IF chatOn THEN edit ELSE clearAndResetHistoryIndex(edit)
  /\ isLog(handleWord(FoldLeft(handleMessage, late(Log), stored)))
  /\ UNCHANGED <<client, unanswered, completer, offered, chatCrash>>

HearMessage ==
  /\ hears("message")
  /\ isLog(handleMessage(late(Log), Head(chatInbox).id))
  /\ UNCHANGED <<client, chatOn, unanswered, edit, completer, offered, chatCrash>>

\* handleResponse looks the message up without a test
HearAnswer ==
  /\ hears("answer")
  /\ LET m == Head(chatInbox).id IN
     IF m \notin DOMAIN position THEN chatCrash' = "line" /\ isLog(late(Log))
     ELSE isLog(handleAnswer(late(Log), m)) /\ UNCHANGED chatCrash
  /\ UNCHANGED <<client, chatOn, unanswered, edit, completer, offered>>

\* _onWhisperTargetsChanged: a new completer, which the line gets when the button of the
\* dice is next released
HearTargets ==
  /\ hears("targets")
  /\ chatCrash' = IF client = NoClient THEN "client" ELSE chatCrash
  /\ completer' = client
  /\ isLog(late(Log))
  /\ UNCHANGED <<client, chatOn, unanswered, edit, offered>>

ChatNext ==
  /\ chatCrash = "no"
  /\ \/ ChangeTab \/ Type \/ ToggleDice \/ SendCommand
     \/ \E step \in {-1, 1} : Recall(step)
     \/ SessionComes \/ OthersSay \/ ServerAnswers \/ ConnectionEnds
     \/ Connect \/ Disconnect
     \/ HearEnded \/ HearSession \/ HearMessage \/ HearAnswer \/ HearTargets

ChatSpec == ChatInit /\ [][ChatNext]_chatVars

---------------------------------------------------------------------------
(* Properties *)

(* An answer stands right under its message, unless an answer was put above rows that     *)
(* keep their old position (LogContainer.cpp:77); the tab counts once each message that   *)
(* came while it hid, unless the log was cleared meanwhile (LogContainer.cpp:101); and    *)
(* what is not there is used only for what outlived its client (ChatEdit.cpp:124).        *)
LogLaidOut ==
  /\ "shifted" \notin chatSlips =>
       \A i \in DOMAIN chatRows :
         chatRows[i].under # 0 => i > 1 /\ chatRows[i - 1].id = chatRows[i].under
  /\ "cleared" \notin chatSlips =>
       /\ ToSet(unseen) \subseteq DOMAIN position
       /\ \A i, j \in DOMAIN unseen : unseen[i] = unseen[j] => i = j
  /\ hubVisible => unseen = <<>>
  /\ chatCrash # "no" => "late" \in chatSlips

(* The line completes the names of no session but the one there is, and of none in a      *)
(* throw; an empty line is before the newest throw, and no throw is recalled twice in a   *)
(* row (ChatEdit.cpp:61, LineEditHistoriable.hpp:39).                                      *)
LineFollowsSession ==
  /\ offered \in {NoClient, client}
  /\ dice => offered = NoClient
  /\ edit.index < Len(edit.history)
  /\ edit.text = NoText => edit.index = -1
  /\ \A i \in 1..Len(edit.history) - 1 : edit.history[i] # edit.history[i + 1]
=============================================================================
