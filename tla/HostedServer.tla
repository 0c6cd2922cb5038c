---------------------------- MODULE HostedServer ------------------------------
(***************************************************************************)
(* The server that an application hosts: a thread that the window starts   *)
(* with itself and stops when it is destroyed, and what the status bar     *)
(* tells of it. The pointer to the server is shared by both threads.       *)
(***************************************************************************)
EXTENDS Integers, Sequences, SequencesExt

VARIABLES
  window,     \* where the thread of the interface is
  instance,   \* whether ServerHosted::_rpzServer points at the server
  server,     \* the server, until it is deleted
  thread,     \* its thread
  listened,   \* whether the status bar is connected to the server
  told,       \* signals of the server, queued for the interface
  label,      \* text of the server's label
  logsButton, \* whether the button of the logs is visible
  mapLoaded,  \* _mapHasLoaded
  saved,      \* whether a snapshot of the map was written
  hostSlips,  \* history variable: causes for which the label may tell otherwise
  hostCrash   \* history variable: the pointer that was followed, if it was not to be

hostVars == <<window, instance, server, thread, listened, told, label, logsButton, mapLoaded,
              saved, hostSlips, hostCrash>>

HostInit ==
  /\ window = "made" /\ instance = FALSE /\ server = "none" /\ thread = "none"
  /\ listened = FALSE /\ told = <<>>
  /\ label = "pending" /\ logsButton = FALSE
  /\ mapLoaded = FALSE /\ saved = FALSE
  /\ hostSlips = {} /\ hostCrash = "no"

serverVars == <<server, thread, mapLoaded, saved>>
barVars == <<listened, label, logsButton>>

---------------------------------------------------------------------------
(* The interface *)

\* _initConnectivity with noServer: the label says so
RunWithoutServer ==
  /\ window = "made" /\ window' = "running"
  /\ label' = "no server"
  /\ UNCHANGED <<instance, serverVars, listened, told, logsButton, hostSlips, hostCrash>>

\* ServerHosted::start; the thread runs from there
StartServer ==
  /\ window = "made" /\ window' = "started"
  /\ instance' = TRUE /\ server' = "made" /\ thread' = "started"
  /\ UNCHANGED <<mapLoaded, saved, barVars, told, hostSlips, hostCrash>>

\* setBoundServer: nothing is bound to a server that failed in between
BindServer ==
  /\ window = "started" /\ window' = "running"
  /\ listened' = instance
  /\ hostSlips' = IF server = "made" THEN hostSlips ELSE hostSlips \cup {"unheard"}
  /\ UNCHANGED <<instance, serverVars, told, label, logsButton, hostCrash>>

HearServer ==
  /\ window = "running" /\ told # <<>>
  /\ told' = Tail(told)
  /\ LET signal == Head(told) IN
       /\ label' = CASE signal = "listening" -> "OK" [] signal = "failed" -> "error" [] OTHER -> label
       /\ logsButton' = (logsButton \/ signal = "listening")
       /\ thread' = IF signal = "quit" THEN "quitting" ELSE thread
  /\ UNCHANGED <<window, instance, server, listened, mapLoaded, saved, hostSlips, hostCrash>>

\* ~MainWindow; stop() reads the pointer three times. What is queued is not heard any more.
StopServer ==
  /\ window = "running"
  /\ window' = IF instance THEN "stopping" ELSE "over"
  /\ told' = <<>>
  /\ UNCHANGED <<instance, serverVars, barVars, hostSlips, hostCrash>>

followed == IF ~instance THEN "null" ELSE IF server = "deleted" THEN "deleted" ELSE "no"

quitThread ==
  /\ window = "stopping"
  /\ hostCrash' = followed
  /\ window' = IF followed = "no" THEN "waiting" ELSE "over"
  /\ thread' = IF followed = "no" THEN "quitting" ELSE thread
  /\ UNCHANGED <<instance, server, mapLoaded, saved, barVars, told, hostSlips>>

waitForThread ==
  /\ window = "waiting"
  /\ hostCrash' = followed
  /\ window' = IF followed = "no" THEN "joining" ELSE "over"
  /\ UNCHANGED <<instance, serverVars, barVars, told, hostSlips>>

threadWaited ==
  /\ window = "joining" /\ thread = "finished"
  /\ window' = "over"
  /\ UNCHANGED <<instance, serverVars, barVars, told, hostSlips, hostCrash>>

---------------------------------------------------------------------------
(* The thread of the server *)

inProcess == window # "over"

tell(signals) == told' = IF window \in {"started", "running"} THEN told \o signals ELSE told

\* The handler of failed in ServerHosted, in the thread of the server
forgetsPointer == instance' = FALSE

\* RPZServer::run, connected directly to the start of its thread
RunServer ==
  /\ inProcess /\ server = "made" /\ thread # "none"
  /\ \/ /\ server' = "listening"
        /\ tell(IF listened THEN <<"listening">> ELSE <<>>)
        /\ UNCHANGED instance
     \/ /\ server' = "failed"
        /\ tell((IF listened THEN <<"failed">> ELSE <<>>) \o <<"quit">>)
        /\ forgetsPointer
  /\ UNCHANGED <<window, thread, barVars, mapLoaded, saved, hostSlips, hostCrash>>

\* A host sends its map
MapComes ==
  /\ inProcess /\ server = "listening" /\ thread # "finished" /\ ~mapLoaded
  /\ mapLoaded' = TRUE
  /\ UNCHANGED <<window, instance, server, thread, barVars, told, saved, hostSlips, hostCrash>>

\* The event loop ends; finished deletes the server, which saves its map
ThreadFinishes ==
  /\ inProcess /\ thread = "quitting" /\ server # "made"
  /\ thread' = "finished" /\ server' = "deleted"
  /\ saved' = mapLoaded
  /\ UNCHANGED <<window, instance, barVars, told, mapLoaded, hostSlips, hostCrash>>

HostNext ==
  /\ hostCrash = "no"
  /\ \/ RunWithoutServer \/ StartServer \/ BindServer \/ HearServer
     \/ StopServer \/ quitThread \/ waitForThread \/ threadWaited
     \/ RunServer \/ MapComes \/ ThreadFinishes

HostSpec == HostInit /\ [][HostNext]_hostVars

---------------------------------------------------------------------------
(* Properties *)

(* The status bar tells how the server is, unless it was before the bar listened       *)
(* (mainWindow.cpp:171). The server's pointer is safe but within stop(), where a server *)
(* that fails at last or a thread that ends early leaves it null or dangling            *)
(* (ServerHosted.hpp:70); and a window that is over has saved the map of its server.    *)
ServerToldAndSaved ==
  /\ window = "running" /\ told = <<>> /\ hostSlips = {} =>
       CASE server = "listening" -> label = "OK" /\ logsButton
         [] server \in {"failed", "deleted"} -> label = "error" /\ ~logsButton
         [] OTHER -> label \in {"pending", "no server"}
  /\ instance /\ server = "deleted" => window \in {"waiting", "joining", "over"}
  /\ hostCrash # "no" => window = "over" /\ server \in {"failed", "deleted"}
  /\ window = "over" /\ hostCrash = "no" => mapLoaded = saved
=============================================================================
