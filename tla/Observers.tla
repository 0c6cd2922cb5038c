----------------------------- MODULE Observers ------------------------------
(***************************************************************************)
(* What one user's interface keeps of a session, as operators from what it *)
(* holds to what it holds next: its chat, its documents and its music.     *)
(*                                                                         *)
(* The chat (ChatWidget and MessagesLog): whether it may be written in,    *)
(* the messages it shows, and those of the user that are grey because the  *)
(* server has not answered them. What is written in a message is left out. *)
(*                                                                         *)
(* The documents of one process: SharedDocHint, a table of names and a     *)
(* store of contents that live as long as the process, and                 *)
(* DocShareListView, the items on show, which follow the connection.       *)
(*                                                                         *)
(* The music: StreamPlayStateTracker, what PlaylistAudioManager knows of   *)
(* the stream, and GStreamerClient, what is heard. A position is reduced   *)
(* to whether there is one (-1 is none); the time that passes, to the      *)
(* choice of whether the track is over when its position is estimated.     *)
(***************************************************************************)

CONSTANTS
  Document,        \* RPZSharedDocument::FileHash
  Track,           \* the streams that may be played
  NoTrack          \* no url

ASSUME NoTrackAssumption == NoTrack \notin Track

---------------------------------------------------------------------------
(* The chat *)

\* MessageInterpreter::Command. A throw of dice is said, then its result; one that
\* cannot be read, and an unknown command, are answered as a request for help is.
Command == {"say", "whisper", "help", "throw", "result", "login", "logout"}

EmptyChat == [on |-> FALSE, lines |-> {}, waiting |-> {}]

clearLines(chat) == [chat EXCEPT !.lines = {}, !.waiting = {}]

\* Only a chat that was enabled is cleared when it is disabled.
disabled(chat) == IF chat.on THEN [clearLines(chat) EXCEPT !.on = FALSE] ELSE chat

\* Mutant: a message of the user is shown once it comes back.
handleLocalMessageUnshown(chat, m) == chat

handleLocalMessage(chat, m) ==
  [chat EXCEPT !.lines = @ \cup {m}, !.waiting = @ \cup {m}]

\* A message that is shown already is left as it is.
handleRemoteMessage(chat, m) == [chat EXCEPT !.lines = @ \cup {m}]

\* The history of the session.
welcomed(chat, messages) == [chat EXCEPT !.on = TRUE, !.lines = @ \cup messages]

\* The message answered is looked up without a test.
answersNothing(chat, m) == m \notin chat.lines

handleResponse(chat, m) == [chat EXCEPT !.waiting = @ \ {m}]

---------------------------------------------------------------------------
(* The documents *)

ItemState == {"none", "Downloadable", "Downloading", "Downloaded"}

Shelf == [names : SUBSET Document, store : SUBSET Document,
          items : [Document -> ItemState], allowDrop : BOOLEAN]

EmptyShelf ==
  [names |-> {}, store |-> {}, items |-> [d \in Document |-> "none"], allowDrop |-> TRUE]

\* Mutant: the name is registered and the item is not made.
temporaryItemsUnshown(s, offered) == [s EXCEPT !.names = @ \cup offered]

\* _mayAddTemporaryItem, for each document offered: a name that is known is not
\* shown again.
temporaryItems(s, offered) ==
  [s EXCEPT !.names = @ \cup offered,
            !.items = [d \in Document |-> IF d \in offered \ s.names THEN "Downloadable" ELSE @[d]]]

\* _updateItem
downloaded(s, d) ==
  [s EXCEPT !.names = @ \cup {d}, !.store = @ \cup {d}, !.items[d] = "Downloaded"]

downloading(s, d) == [s EXCEPT !.items[d] = "Downloading"]

\* A host is not offered what the session has.
shelfOnSession(s, host, offered) ==
  [(IF host THEN s ELSE temporaryItems(s, offered)) EXCEPT !.allowDrop = host]

isLocal(s, d) == s.items[d] \notin {"Downloadable", "Downloading"}

\* The items that were not downloaded go; their names stay.
shelfClosed(s) ==
  [s EXCEPT !.allowDrop = TRUE,
            !.items = [d \in Document |-> IF isLocal(s, d) THEN @[d] ELSE "none"]]

---------------------------------------------------------------------------
(* The music *)

\* StreamPlayStateTracker
Tracker == [url : Track \cup {NoTrack}, playing : BOOLEAN, started : BOOLEAN]

ClearedState == [url |-> NoTrack, playing |-> FALSE, started |-> FALSE]

registerNewPlay(url) == [url |-> url, playing |-> TRUE, started |-> TRUE]

registerReplay(s) == [s EXCEPT !.playing = TRUE, !.started = TRUE]

\* A pause keeps the position reached.
updatePlayingState(s, isPlaying, over) ==
  [s EXCEPT !.playing = isPlaying,
            !.started = @ /\ ~(s.playing /\ ~isPlaying /\ over)]

updatePosition(s) == [s EXCEPT !.started = TRUE]

\* Whether positionInMsecs is not -1.
hasPosition(s, over) == s.started /\ ~(s.playing /\ over)

---------------------------------------------------------------------------
(* PlaylistAudioManager *)

Sound == [url : Track \cup {NoTrack}, on : {"stopped", "playing", "paused", "ended"}]

Player == [state : Tracker, heard : Sound, master : BOOLEAN, localOnly : BOOLEAN,
           requested : BOOLEAN, chosen : BOOLEAN]

\* requested: a track of the playlist was asked for and its metadata are being
\* refreshed. chosen: a track of the playlist is the current one.
NewPlayer ==
  [state |-> ClearedState, heard |-> [url |-> NoTrack, on |-> "stopped"],
   master |-> FALSE, localOnly |-> TRUE, requested |-> FALSE, chosen |-> FALSE]

\* The playlist and its toolbar are enabled.
inControl(a) == a.localOnly \/ a.master

playAudio(a) ==
  [a EXCEPT !.state = updatePosition(@), !.heard = [url |-> a.state.url, on |-> "playing"]]

stopPlayingMusic(a) == [a EXCEPT !.state = ClearedState, !.heard.on = "stopped"]

streamConnecting(a) == [a EXCEPT !.localOnly = FALSE, !.master = FALSE]

streamClosed(a) ==
  [(IF a.master THEN a ELSE stopPlayingMusic(a)) EXCEPT !.master = FALSE, !.localOnly = TRUE]

\* Who does not host stops and waits for what the session brings.
streamOnSession(a, host) ==
  IF host THEN [a EXCEPT !.master = TRUE] ELSE [stopPlayingMusic(a) EXCEPT !.master = FALSE]

\* It is played whatever it says of being paused, and what was heard goes on
\* when it has no position.
onAudioSourceStateChanged(a, s, over) ==
  LET told == [a EXCEPT !.state = s]
  IN IF hasPosition(s, over) THEN playAudio(told) ELSE told

onAudioPlayStateChanged(a, isPlaying, over) ==
  [a EXCEPT !.state = updatePlayingState(@, isPlaying, over),
            !.heard.on = IF isPlaying THEN "playing" ELSE "paused"]

onSeekingRequested(a) == [a EXCEPT !.state = updatePosition(@)]

onPlayRequested(a) == [a EXCEPT !.requested = TRUE, !.chosen = TRUE]

refreshed(a, url) ==
  playAudio([a EXCEPT !.requested = FALSE, !.state = registerNewPlay(url)])

\* RepeatOne, and RepeatAll: the next track of the playlist, or the first again.
replayed(a) == playAudio([a EXCEPT !.state = registerReplay(@)])
nextPlayed(a) == onPlayRequested(stopPlayingMusic(a))
=============================================================================
