---------------------------- MODULE TrackPlayer -------------------------------
(***************************************************************************)
(* The music of a user who is alone or in charge: the rows of the playlist *)
(* and their database, what PlaylistAudioManager plays of them, the bar of *)
(* the track, and GStreamerClient with its pipeline, whose threads answer  *)
(* later.                                                                  *)
(*                                                                         *)
(* A row is an item of the list, which is another one each time its video  *)
(* is added. Positions are the start and a place further on. What others   *)
(* hear of it is in Observers.                                             *)
(***************************************************************************)
EXTENDS Integers, Sequences, SequencesExt

CONSTANTS
  Video,     \* identifiers of videos
  None,      \* no row, no video
  MaxActs,   \* bound on what the user does
  MaxEvents  \* bound on the ends and failures of streams

PlayerAssumption == None \notin Video /\ MaxActs \in Nat /\ MaxEvents \in Nat

VARIABLES
  rows,       \* items of the list
  videoIds,   \* _playlistVideoIds
  stored,     \* the ids of PlaylistDatabase
  current,    \* _playlistItemToUse
  fetching,   \* items whose metadata are being refreshed, in the order they were asked for
  track,      \* the url of the state of the stream
  bar,        \* TrackToolbar: button checked, widgets enabled, slider held for which play
  repeat,     \* its RepeatBehavior
  pipe,       \* the pipeline and what GStreamerClient knows of it
  buffered,   \* _seekBuffer: a position, and for which play
  posts,      \* calls queued by the pipeline for the interface
  plays,      \* history variable: number of the current play
  landed,     \* history variable: the plays for which a seek was asked and was done
  playActs, playEvents,
  playSlips,  \* history variable: causes for which the music may not follow
  playCrash   \* history variable: the pointer that was not to be followed

playlistVars == <<rows, videoIds, stored>>
boundVars == <<playActs, playEvents>>
playerVars == <<playlistVars, current, fetching, track, bar, repeat, pipe, buffered, posts, plays,
                landed, boundVars, playSlips, playCrash>>

NoSeek == [pos |-> 0, play |-> 0]

PlayerInit ==
  /\ \E stored0 \in SUBSET Video :
       /\ stored = stored0 /\ videoIds = stored0
       /\ rows = [i \in DOMAIN SetToSeq(stored0) |-> [video |-> SetToSeq(stored0)[i], at |-> 0]]
  /\ current = None /\ fetching = <<>> /\ track = None
  /\ bar = [checked |-> FALSE, enabled |-> FALSE, held |-> 0]
  /\ repeat \in {"all", "one"}
  /\ pipe = [source |-> None, target |-> "null", state |-> "null", mayQuery |-> TRUE,
             ranged |-> FALSE, timer |-> FALSE, ended |-> FALSE]
  /\ buffered = NoSeek /\ posts = <<>> /\ plays = 0 /\ landed = {}
  /\ playActs = 0 /\ playEvents = 0
  /\ playSlips = {} /\ playCrash = "no"

Listed == ToSet(rows)

acts == playActs < MaxActs /\ playActs' = playActs + 1 /\ UNCHANGED playEvents

---------------------------------------------------------------------------
(* GStreamerClient, called by the interface *)

\* Setting the pipeline to null is done at once
stopped == [pipe EXCEPT !.target = "null", !.state = "null", !.ranged = FALSE, !.timer = FALSE]

played(p, source) ==
  [p EXCEPT !.source = source, !.target = "playing", !.state = "null", !.mayQuery = TRUE,
            !.ranged = FALSE, !.timer = TRUE, !.ended = FALSE]

\* seek: kept until the pipeline is known to play in a range
seek(pos, play) ==
  IF ~pipe.ranged
  THEN /\ buffered' = IF pos = 0 THEN NoSeek ELSE [pos |-> pos, play |-> play]
       /\ UNCHANGED landed
  ELSE /\ landed' = IF pipe.state = "null" \/ pos = 0 THEN landed
                    ELSE landed \cup {<<play, plays>>}
       /\ UNCHANGED buffered

---------------------------------------------------------------------------
(* PlaylistAudioManager *)

\* stop() tells the bar that there is no position, and the bar does not hear it while its
\* slider is held
barWithout == IF bar.held # 0 THEN bar.enabled ELSE FALSE

endTrack == [bar EXCEPT !.checked = FALSE, !.enabled = barWithout]
\* newTrack, of a bar whose position was just taken away
newTrack == [endTrack EXCEPT !.checked = TRUE]
tooglePlayButtonState == [bar EXCEPT !.checked = ~@]

\* _applyPlayRequestFromState
applyPlayRequest(video) ==
  /\ track' = video
  /\ plays' = plays + 1
  /\ bar' = newTrack
  /\ pipe' = played(stopped, video)

pending == buffered # NoSeek \/ posts # <<>> \/ bar.held # 0

\* _stopPlayingMusic
stopPlayingMusic ==
  /\ track' = None
  /\ pipe' = stopped
  /\ bar' = endTrack

---------------------------------------------------------------------------
(* The playlist *)

\* addYoutubeVideo: a video is not added twice
AddVideo(v) ==
  /\ acts /\ v \notin videoIds
  /\ rows' = Append(rows, [video |-> v, at |-> playActs + 1])
  /\ videoIds' = videoIds \cup {v}
  /\ stored' = stored \cup {v}
  /\ UNCHANGED <<current, fetching, track, bar, repeat, pipe, buffered, posts, plays, landed,
                 playSlips, playCrash>>

\* Mutant: the video stays known to the list.
idsKept(v) == videoIds

idsWithout(v) == videoIds \ {v}

\* _removeYoutubeVideo: the item and its metadata are deleted, whoever points at them
RemoveRow(i) ==
  /\ acts /\ i \in Listed
  /\ rows' = SelectSeq(rows, LAMBDA r : r # i)
  /\ videoIds' = idsWithout(i.video)
  /\ stored' = stored \ {i.video}
  /\ playSlips' = IF i = current \/ i \in ToSet(fetching) THEN playSlips \cup {"removed"}
                  ELSE playSlips
  /\ UNCHANGED <<current, fetching, track, bar, repeat, pipe, buffered, posts, plays, landed,
                 playCrash>>

\* _requestPlay, which PlaylistAudioManager answers by refreshing the metadata
requests(i) == current' = i /\ fetching' = Append(fetching, i) /\ UNCHANGED playCrash

playsNothing == current' = None /\ UNCHANGED <<fetching, playCrash>>

playsFirst == IF rows = <<>> THEN playsNothing ELSE requests(rows[1])

\* playNext and playPrevious, a step of 1 or -1
playBeside(step) ==
  IF current = None THEN playsFirst
  ELSE IF current \notin Listed
  THEN playCrash' = "row" /\ UNCHANGED <<current, fetching>>
  ELSE LET at == (CHOOSE n \in DOMAIN rows : rows[n] = current) + step
       IN IF at \in DOMAIN rows THEN requests(rows[at]) ELSE playsFirst

\* _onItemDoubleClicked
PlayRow(i) ==
  /\ acts /\ i \in Listed
  /\ requests(i)
  /\ UNCHANGED <<playlistVars, track, bar, repeat, pipe, buffered, posts, plays, landed, playSlips>>

Skip(step) ==
  /\ acts /\ bar.enabled
  /\ playBeside(step)
  /\ UNCHANGED <<playlistVars, track, bar, repeat, pipe, buffered, posts, plays, landed, playSlips>>

fetched(n) == fetching' = SubSeq(fetching, 1, n - 1) \o SubSeq(fetching, n + 1, Len(fetching))

\* The metadata of an item come; they were deleted with it
MetadataRefreshed ==
  \E n \in DOMAIN fetching :
    LET i == fetching[n] IN
    /\ fetched(n)
    /\ IF i \notin Listed
       THEN playCrash' = "metadata" /\ UNCHANGED <<track, bar, pipe, plays, playSlips>>
       ELSE /\ applyPlayRequest(i.video)
            /\ playSlips' = playSlips \cup (IF pending THEN {"pending"} ELSE {})
                              \cup (IF i = current THEN {} ELSE {"overtaken"})
            /\ UNCHANGED playCrash
    /\ UNCHANGED <<playlistVars, current, repeat, buffered, posts, landed, boundVars>>

\* They do not come: what was playing plays on, and the item stays the current one
MetadataFail ==
  \E n \in DOMAIN fetching :
    /\ fetched(n)
    /\ playSlips' = playSlips \cup {"unfetched"}
    /\ UNCHANGED <<playlistVars, current, track, bar, repeat, pipe, buffered, posts, plays, landed,
                   boundVars, playCrash>>

---------------------------------------------------------------------------
(* The bar of the track *)

PauseOrPlay ==
  /\ acts /\ bar.enabled
  /\ bar' = tooglePlayButtonState
  /\ pipe' = [pipe EXCEPT !.target = IF bar.checked THEN "paused" ELSE "playing",
                          !.timer = ~bar.checked]
  /\ UNCHANGED <<playlistVars, current, fetching, track, repeat, buffered, posts, plays, landed,
                 playSlips, playCrash>>

PressSlider ==
  /\ acts /\ bar.enabled /\ bar.held = 0
  /\ bar' = [bar EXCEPT !.held = plays]
  /\ UNCHANGED <<playlistVars, current, fetching, track, repeat, pipe, buffered, posts, plays,
                 landed, playSlips, playCrash>>

ReleaseSlider ==
  /\ bar.held # 0
  /\ \E pos \in {0, 1} : seek(pos, bar.held)
  /\ bar' = [bar EXCEPT !.held = 0]
  /\ UNCHANGED <<playlistVars, current, fetching, track, repeat, pipe, posts, plays, boundVars,
                 playSlips, playCrash>>

\* The timer asks the position, which the pipeline has once it plays or is paused
TellPosition ==
  /\ pipe.timer /\ pipe.state # "null" /\ bar.held = 0
  /\ bar' = [bar EXCEPT !.enabled = TRUE]
  /\ UNCHANGED <<playlistVars, current, fetching, track, repeat, pipe, buffered, posts, plays,
                 landed, boundVars, playSlips, playCrash>>

---------------------------------------------------------------------------
(* The threads of the pipeline: gst_client_bus_cb *)

\* _freeSeekBuffer: what is in range is queued
freeSeekBuffer ==
  /\ buffered' = NoSeek
  /\ \/ UNCHANGED posts
     \/ /\ buffered # NoSeek
        /\ posts' = Append(posts, [type |-> "seek", play |-> buffered.play])

\* The range of seeks is asked for once the pipeline plays, again the next time if there was
\* no answer, and no more if there is none
StateChanges ==
  /\ pipe.state # pipe.target
  /\ LET reached == [pipe EXCEPT !.state = pipe.target] IN
     IF pipe.target # "playing"
     THEN pipe' = [reached EXCEPT !.ranged = FALSE] /\ UNCHANGED <<buffered, posts>>
     ELSE IF ~pipe.mayQuery \/ pipe.ranged
     THEN pipe' = reached /\ UNCHANGED <<buffered, posts>>
     ELSE \/ pipe' = [reached EXCEPT !.ranged = TRUE] /\ freeSeekBuffer
          \/ pipe' = [reached EXCEPT !.mayQuery = FALSE] /\ UNCHANGED <<buffered, posts>>
          \/ pipe' = reached /\ UNCHANGED <<buffered, posts>>
  /\ UNCHANGED <<playlistVars, current, fetching, track, bar, repeat, plays, landed, boundVars,
                 playSlips, playCrash>>

streamPosts(type) ==
  /\ playEvents < MaxEvents /\ playEvents' = playEvents + 1 /\ UNCHANGED playActs
  /\ posts' = Append(posts, [type |-> type, play |-> plays])
  /\ pipe' = [pipe EXCEPT !.ended = TRUE]
  /\ UNCHANGED <<playlistVars, current, fetching, track, bar, repeat, buffered, plays, landed,
                 playSlips, playCrash>>

StreamEnds == pipe.state = "playing" /\ ~pipe.ended /\ streamPosts("ended")
StreamFails == pipe.target # "null" /\ ~pipe.ended /\ streamPosts("failed")

---------------------------------------------------------------------------
(* What the pipeline queued is heard, whatever plays by then *)

hears(type) ==
  /\ posts # <<>> /\ Head(posts).type = type
  /\ posts' = Tail(posts)
  /\ UNCHANGED <<playlistVars, repeat, boundVars>>

\* _onStreamPlayEnded
HearEnded ==
  /\ hears("ended")
  /\ IF repeat = "all"
     THEN /\ stopPlayingMusic /\ playBeside(1)
          /\ UNCHANGED <<plays, playSlips>>
     ELSE /\ applyPlayRequest(track)
          /\ playSlips' = IF buffered # NoSeek \/ Tail(posts) # <<>> \/ bar.held # 0
                          THEN playSlips \cup {"pending"} ELSE playSlips
          /\ UNCHANGED <<current, fetching, playCrash>>
  /\ UNCHANGED <<buffered, landed>>

\* _onStreamError: the pipeline is left as it is
HearFailed ==
  /\ hears("failed")
  /\ track' = None
  /\ pipe' = [pipe EXCEPT !.timer = FALSE]
  /\ bar' = endTrack
  /\ playCrash' = IF current \in Listed THEN playCrash ELSE "row"
  /\ UNCHANGED <<current, fetching, buffered, plays, landed, playSlips>>

HearSeek ==
  /\ hears("seek")
  /\ landed' = IF pipe.state = "null" THEN landed
               ELSE landed \cup {<<Head(posts).play, plays>>}
  /\ UNCHANGED <<current, fetching, track, bar, pipe, buffered, plays, playSlips, playCrash>>

PlayerNext ==
  /\ playCrash = "no"
  /\ \/ \E v \in Video : AddVideo(v)
     \/ \E i \in Listed : RemoveRow(i) \/ PlayRow(i)
     \/ \E step \in {-1, 1} : Skip(step)
     \/ MetadataRefreshed \/ MetadataFail
     \/ PauseOrPlay \/ PressSlider \/ ReleaseSlider \/ TellPosition
     \/ StateChanges \/ StreamEnds \/ StreamFails
     \/ HearEnded \/ HearFailed \/ HearSeek

PlayerSpec == PlayerInit /\ [][PlayerNext]_playerVars

---------------------------------------------------------------------------
(* Properties *)

(* The playlist has each video once, as its database does; deleted rows are followed only *)
(* if one was removed while it was the current one or its metadata were coming            *)
(* (Playlist.cpp:138).                                                                    *)
PlaylistKept ==
  /\ \A m, n \in DOMAIN rows : rows[m].video = rows[n].video => m = n
  /\ {i.video : i \in Listed} = videoIds /\ videoIds = stored
  /\ playCrash # "no" => "removed" \in playSlips

(* Once all is heard, the pipeline has the stream that the interface shows, and plays it  *)
(* if the button says so, whatever metadata came late or not at all; the stream is that   *)
(* of the row chosen last, unless the metadata of two rows came in another order or those *)
(* of a row did not come (PlaylistAudioManager.cpp:249), or a row that mattered was       *)
(* removed; and a seek moves the play it was asked for, unless something of the play      *)
(* before was pending when the next began: a buffered seek (GStreamerClient.cpp:178), a   *)
(* queued end or a slider held.                                                           *)
MusicFollowsBar ==
  /\ playCrash = "no" /\ posts = <<>> /\ track # None =>
       /\ pipe.source = track /\ (bar.checked <=> pipe.target = "playing")
       /\ fetching = <<>> /\ playSlips \subseteq {"pending"} => current.video = track
  /\ \A l \in landed : l[1] = l[2] \/ "pending" \in playSlips
=============================================================================
