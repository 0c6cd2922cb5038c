---------------------------- MODULE MCApplication -----------------------------
(***************************************************************************)
(* Model checking of what surrounds the map and its session, one part at a *)
(* time: they share nothing but the session, which each has its own view   *)
(* of.                                                                     *)
(*   wire     a connection and its lamps (JSONSocket)                      *)
(*   logs     the uploads of the hosted server (ServerLogs)                *)
(*   hosting  the server of the program (HostedServer)                     *)
(*   network  the address of the user (Connectivity)                       *)
(*   window   the window and the rights of its user (MainWindow)           *)
(*   music    the playlist and its player (TrackPlayer)                    *)
(*   chat     the log and the line of the chat (ChatBox)                   *)
(*   files    the maps in their files (MapFile)                            *)
(***************************************************************************)
EXTENDS JSONSocket

CONSTANTS
  Socket, Lengths, MaxLogged,
  MaxChanges,
  MaxClients, NullClient,
  Video, None, MaxActs, MaxEvents,
  MaxSessions, MaxMessages, MaxUnheard,
  Path, StartPath, MaxMapActs

VARIABLES
  part,
  waitingTBU, unwritten, connected, uploads, bound, logsInbox, logRows, waitingRow, logsSlips,
  logsCrashed,
  window, instance, server, thread, listened, told, label, logsButton, mapLoaded, saved, hostSlips,
  hostCrash,
  changes, helper, heard, mapper, mappers, working, ports, found, netInbox, address, spinning,
  netSlips,
  rpzClient, made, identity, initialMap, isHostAble, uiInbox, hintInbox, hintReads, remote, mapMenu,
  mode, leftTab, rightTab, histories, windowSlips, windowCrash,
  rows, videoIds, stored, current, fetching, track, trackBar, repeat, pipe, buffered, posts, plays,
  landed, playActs, playEvents, playSlips, playCrash,
  chatClient, sessions, chatOn, chatInbox, kept, unanswered, chatRows, position, unseen, hubVisible,
  edit, dice, completer, offered, messages, chatSlips, chatCrash,
  disks, mapFile, mapActs, held, misread, dropped

logsVars == <<waitingTBU, unwritten, connected, uploads, bound, logsInbox, logRows, waitingRow,
              logsSlips, logsCrashed>>
hostVars == <<window, instance, server, thread, listened, told, label, logsButton, mapLoaded,
              saved, hostSlips, hostCrash>>
netVars == <<changes, helper, heard, mapper, mappers, working, ports, found, netInbox, address,
             spinning, netSlips>>
windowVars == <<rpzClient, made, identity, initialMap, isHostAble, uiInbox, hintInbox, hintReads,
                remote, mapMenu, mode, leftTab, rightTab, histories, windowSlips, windowCrash>>
musicVars == <<rows, videoIds, stored, current, fetching, track, trackBar, repeat, pipe,
               buffered, posts, plays, landed, playActs, playEvents, playSlips, playCrash>>
chatVars == <<chatClient, sessions, chatOn, chatInbox, kept, unanswered, chatRows, position, unseen,
              hubVisible, edit, dice, completer, offered, messages, chatSlips, chatCrash>>
filesVars == <<disks, mapFile, mapActs, held, misread, dropped>>

\* A light message that fits in a chunk, and a heavy one that does not
MCMessages == {[id |-> 0, method |-> Light, size |-> 1],
               [id |-> 0, method |-> Heavy, size |-> 3]}

Formats == INSTANCE MapFile WITH StartFiles <- {}

\* A map of two brushes, from before each change of the format and of a newer one
MCStartFiles ==
  {Formats!writtenBy(version, {Formats!brush(-1, Formats!Rectangle, FALSE),
                               Formats!brush(-2, Formats!RoundBrush, version >= 9)}) :
     version \in 6..10}

Logs == INSTANCE ServerLogs WITH rows <- logRows
Hosting == INSTANCE HostedServer
Network == INSTANCE Connectivity
Window == INSTANCE MainWindow
Music == INSTANCE TrackPlayer WITH bar <- trackBar
Chat == INSTANCE ChatBox WITH stored <- kept, client <- chatClient
Files == INSTANCE MapFile WITH StartFiles <- MCStartFiles

ASSUME /\ SocketAssumption /\ Logs!LogsAssumption /\ Window!ClientsAssumption
       /\ Music!PlayerAssumption /\ Chat!ChatAssumption /\ Files!FileAssumption

ApplicationInit ==
  /\ part \in {"wire", "logs", "hosting", "network", "window", "music", "chat",
               "files"}
  /\ Init /\ Logs!LogsInit /\ Hosting!HostInit /\ Network!NetInit
  /\ Window!WindowInit /\ Music!PlayerInit /\ Chat!ChatInit
  /\ Files!FileInit
  \* The parts that are not checked stay in one state
  /\ part # "wire" => client = "reader"
  /\ part # "music" => stored = {} /\ repeat = "all"
  /\ part # "files" => disks[StartPath].file.version = 9

ApplicationNext ==
  /\ UNCHANGED part
  /\ \/ part = "wire" /\ Next
        /\ UNCHANGED <<logsVars, hostVars, netVars, windowVars, musicVars, chatVars, filesVars>>
     \/ part = "logs" /\ Logs!LogsNext
        /\ UNCHANGED <<socketVars, hostVars, netVars, windowVars, musicVars, chatVars, filesVars>>
     \/ part = "hosting" /\ Hosting!HostNext
        /\ UNCHANGED <<socketVars, logsVars, netVars, windowVars, musicVars, chatVars, filesVars>>
     \/ part = "network" /\ Network!NetNext
        /\ UNCHANGED <<socketVars, logsVars, hostVars, windowVars, musicVars, chatVars, filesVars>>
     \/ part = "window" /\ Window!WindowNext
        /\ UNCHANGED <<socketVars, logsVars, hostVars, netVars, musicVars, chatVars, filesVars>>
     \/ part = "music" /\ Music!PlayerNext
        /\ UNCHANGED <<socketVars, logsVars, hostVars, netVars, windowVars, chatVars, filesVars>>
     \/ part = "chat" /\ Chat!ChatNext
        /\ UNCHANGED <<socketVars, logsVars, hostVars, netVars, windowVars, musicVars, filesVars>>
     \/ part = "files" /\ Files!FileNext
        /\ UNCHANGED <<socketVars, logsVars, hostVars, netVars, windowVars, musicVars, chatVars>>

ApplicationSpec ==
  /\ ApplicationInit
  /\ [][ApplicationNext]_<<part, socketVars, logsVars, hostVars, netVars, windowVars, musicVars,
                           chatVars, filesVars>>

(* What the interface says of the network is so. The lamps, the bar and the rows of  *)
(* the logs tell what is sent, received and lost; the status bar tells the state of    *)
(* the server and the address others may reach; the window follows the rights of its   *)
(* user (JSONSocket, ServerLogs, HostedServer, Connectivity, MainWindow).              *)
InterfaceTells ==
  CASE part = "wire" -> TransfersShown
    [] part = "logs" -> Logs!UploadsLogged
    [] part = "hosting" -> Hosting!ServerToldAndSaved
    [] part = "network" -> Network!AddressTold
    [] part = "window" -> Window!WindowFollowsSession
    [] OTHER -> TRUE

(* What plays is what was chosen of the playlist (TrackPlayer).                        *)
MusicFollowsPlaylist == part = "music" => Music!PlaylistKept /\ Music!MusicFollowsBar

(* The log and the line of the chat follow its session (ChatBox).                      *)
ChatFollowsSession == part = "chat" => Chat!LogLaidOut /\ Chat!LineFollowsSession

(* Opening, saving and migrating the files of maps keeps what they hold (MapFile).     *)
FilesKeepMaps == part = "files" => Files!StylesSurvive /\ Files!NothingLost
=============================================================================
