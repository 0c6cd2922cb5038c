# A TLA+ model of RPG-RPZ

RPG-RPZ is a Qt application for playing pen and paper role playing games
together: one user hosts a server and a map, the others join as players or
observers, and all of them see the map, the tokens, the characters, the music
and the chat. These modules model where its hard behaviour is: a map that is
altered from several threads and several machines at once, its undo/redo
history, what the windows of one machine show of it, the session that keeps the
peers together, what they share around the map (chat, music, documents), the
tools that draw, the toys box, the sheets and the files that each keeps, the
sockets below and the hosted server. TLC checks small instances; TLAPS proves
invariants of the map storage, of the session, of who knows whom in it, and of
the table (connections, whispers, pointers, logs) for all of them.

Paths below are relative to the root of the repository; the code is in
`src/`, and `*` names a function by its last component.

## 1. The system

### 1.1 Inventory

| component | code | state | operations | hard behaviour | what makes it correct |
|---|---|---|---|---|---|
| Map storage | `src/shared/hints/AtomsStorage`, `src/shared/database/MapDatabase`, `src/shared/payloads` | atoms by id, used asset hashes, restricted ids, table of ownable atoms, undo and redo stacks and an index, last duplication | handling of every alteration, `undo`, `redo`, `duplicateAtoms`, `restrictPayload`, `_replaceMap` | undo and redo only *queue* an alteration, which others overtake; five tables follow the atoms by hand; undo payloads are computed from a map that ids may no longer be on | stacks in step; hidden ids and owners agree with the atoms; undo and redo walk through the versions of the map |
| Alteration bus | `src/shared/async-ui` | none: the event queues of the threads | `queueAlteration`, queued delivery to each acknowledger | one alteration is handled in two threads (map, socket) at different times | order per thread |
| Map hint | `src/shared/hints/MapHint`, `ViewMapHint`, `HintThread` | remoteness, dirty flag, file, owned tokens, graphics items, template and ghost | load, save, session received, connection closed, handling in the view | the map is replaced before its reset is handled; the dirty flag is written by two threads | no lost change, no unsaved change taken for saved |
| Server | `src/network/rpz/server/RPZServer` | users, sockets by id and by role, storage, messages, audio tracker, dice contexts | connection, disconnection, one handler per `RPZJSON::Method` | joins, leaves and handshakes in any order; what a lost client sent; who may see what | at most one host, exact tables, nothing hidden is sent |
| Client session | `src/network/rpz/client/RPZClient`, `src/ui/_others/ConnectivityObserver`, `src/helpers/Authorisations.hpp` | users of the session, own id, characterised users, user by character, host ability | run, end, one handler per method, character change, map history | messages cross the session; tables fed before the session; ends twice | every client that read all knows the users; everybody shows the same map |
| Sockets | `src/network/rpz/_any/JSONSocket` | bytes to read, upload queue, header acknowledged; lamps and bars; the rows of the server's log | send in chunks, read in transactions, upload progress | split and partial writes and reads, signals that outlive the socket | what is read is what was sent, in order; what is shown of it is so |
| Server hosting | `src/network/rpz/server/ServerHosted.hpp`, `src/network/ConnectivityHelper`, `src/network/uPnP` | the server's thread and the pointer to it, the address, the mapped port, what the status bar says | start, failure, stop, network found and lost, mapping | a stop racing a failure; answers of a thread that was replaced | the server ends with the window, what is told is current |
| Main window | `src/ui/mainWindow` | tabs, rights, the map's menu, remoteness of the map | session received, client ended, close | two threads follow one pointer to the client | the window follows the rights of its user |
| Assets and toys box | `src/shared/database/AssetsDatabase`, `JSONDatabase`, `src/ui/toysBox` | assets by hash, assets by path, folders, files; the items of the tree with the path each was last given | import, create, drop, rename, remove, over selections across levels; restart | the database tells folders by string prefix, the tree by items; files and tables are written one after the other | each asset is in one folder, the tree shows the database, files follow assets |
| Audio | `src/shared/audio`, `src/ui/audio` | tracker (source, position, playing, last update) on the host, the server and each client; the playlist, the player | new play, pause, seek, join, end of stream, rows added and removed | positions are extrapolated from clocks; joins during a pause; answers of the player's threads | everybody hears the same thing, which is in the playlist |
| Chat and dice | `src/shared/commands/MessageInterpreter`, `src/shared/models/messaging`, `src/ui/chat` | messages, names of users, dice contexts; rows of the log, the line being written | say, whisper, throw, acknowledge, complete, recall | names that leave, responses that cross messages | one log for all, a whisper reaches whom it names, every message is answered |
| Shared documents | `src/shared/hints/SharedDocHint.hpp`, `src/ui/docShare` | names and contents, for the life of the process; items, for that of the connection | drop, offer, request, download | a document asked from a server that has none; names that outlive items | a guest is shown what is offered, and can fetch it |
| Characters | `src/shared/database/CharactersDatabase`, `src/shared/models/character`, `src/ui/sheets` | sheets in memory and in a file, the list to pick from, the sheet and inventory on show, an open dialog | pick, write, save, add, remove, move and split items, connect, players in and out, restart | dialogs during which signals are handled; widgets that keep pointers into what was loaded before | what was written is kept, the others see the sheet, the list names the players |
| Files | `src/shared/database/_base/JSONDatabase`, `MapDatabase` | documents of any version, copies | open, migrate, save, snapshot | files cut by a stop; documents without a version | files keep what was saved |
| Layout tree | `src/ui/mapLayout` | rows of atoms in categories, layers or owners | follows every alteration, in the interface's thread | it applies an alteration of the interface before the map does | the tree lists the atoms once the map is quiet |
| Atom editor | `src/ui/atomEditor` | the atoms selected | follows selections, posts edits | edits what an alteration removed | what it posts names atoms of the map |
| Map view | `src/ui/map`, `WalkingHelper` | graphics items shown, selected, owned; the tool, the items walked | every request of the map thread, tools | raw pointers to items that others delete | the scene shows the map; nothing deleted is used |
| Drawing tools | `src/ui/map/modules`, `src/shared/renderer/graphics` (fog, animator) | the temporary item, the ghost, the fog's item, quick drawings | draw, commit, paint, animate, send bits, erase | the user goes on while what was drawn is on its way | a drawing becomes one atom, the fog is the one painted, quick drawings are seen and vanish |
| Renderer | `src/shared/renderer` | polygons | clipping, brushes | geometry | data, out of reach of a model checker |

### 1.2 How the components interact

The interface, the map (`HintThread`), the client's socket and the server each
run in a thread of their own and talk by posted events, so that every slot runs
to its end. An alteration made in the interface is emitted once by
`AlterationHandler` and queued twice: the map thread applies it
(`AlterationAcknoledger.cpp:26`), the client's thread sends it to the server
(`RPZClient.cpp:115`). The server applies it to its own `AtomsStorage`, withholds
what players may not see, and relays it to the other clients, which queue it for
their map thread. The undo/redo history of each peer is fed by all of this.

Within one machine the layout tree and the editor hear of an alteration of the
interface at once, and of those of the map thread and of the network through a
queue; `ViewMapHint`, in the map thread, makes and binds the graphics items and
asks the view, through the other queue, to show, move or delete them. All the
widgets are `ConnectivityObserver`s: they are told in turn that a connection
starts and ends, and between the two hear the signals of the client, which are
queued from its thread and not withdrawn when it ends.

## 2. The modules

| module | models | over |
|---|---|---|
| `MapPayloads` | payload classes, what applying, undoing and restricting one does | pure operators |
| `AtomsStorage` | one storage in its thread: event queue, history, tables | `MapPayloads` |
| `Timeline` | abstract: versions of a document, a cursor, what is on show | - |
| `MCAtomsHistory` | checks the history against `Timeline` | `AtomsStorage`, `INSTANCE Timeline` |
| `RPZNetwork` | connections, messages, the storage as both sides keep it | `MapPayloads` |
| `RPZServer` | the server's slots | `RPZNetwork` |
| `RPZClient` | the client's slots, the session part of `MapHint` | `RPZNetwork` |
| `RPZSession` | the composition, its fairness and its properties | `RPZServer`, `RPZClient` |
| `MCSession`, `MCSessionMap` | users, maps and alterations for TLC; the plans users follow | `RPZSession` |
| `Observers` | the chat, the documents and the music of one user | pure operators |
| `RPZTable` | processes, connections and the server around these | the two above |
| `MCTable` | a game master and a player for TLC | `RPZTable` |
| `MapDisplays` | the layout tree and the view: what alterations, requests and gestures make of them | `MapPayloads` |
| `MapDesk` | one machine: storage, map hint, tree, editor, menu and view in two threads | `AtomsStorage`, `MapDisplays` |
| `MCMapDesk` | a map with a token and an object for TLC | `MapDesk` |
| `AtomDrawing`, `MapFog`, `QuickDrawings` | drawing with a toy, the fog and the animation of items, drawings shown for a moment | - |
| `MCMapTools` | a user who holds one of the three tools | `AtomDrawing`, `INSTANCE` of the others |
| `AssetsDatabase` | the tables of assets and the operations on paths | pure operators |
| `ToysTree` | the toys box: items over the database, files, restarts | `AssetsDatabase` |
| `MCToysBox` | containers, names and assets for TLC | `ToysTree` |
| `JSONDatabase` | a table and its file | pure operators |
| `CharacterEditor` | what the interface holds of sheets, of their inventories and of the list of characters, and each operation on it | `JSONDatabase` |
| `SheetDesk` | the user, the client's thread and the signals between them | `CharacterEditor` |
| `MCSheets` | three characters of the user and two of others for TLC | `SheetDesk` |
| `MapFile` | the files of maps: migrations, copies, snapshots | `JSONDatabase` |
| `MessageFIFO` | abstract: a connection as a FIFO of whole messages, closed at any time | - |
| `SocketFraming` | headers, chunks, transactions, the accounts of what was written | pure operators |
| `JSONSocket` | one direction of a connection and what is shown of it; implements `MessageFIFO` | `SocketFraming` |
| `ServerLogs` | the window that logs what the server uploads | `SocketFraming` |
| `HostedServer`, `Connectivity`, `MainWindow` | the hosted server, the address and the port, the window around a session | - |
| `TrackPlayer`, `ChatBox` | the playlist and its player; the rows of the log and the line of the chat | - |
| `MCApplication` | the eight parts that surround the map, one at a time | `INSTANCE` of each |
| `MapPayloadsProofs` | theorems about payloads | `MapPayloads` |
| `RPZSessionProofs` | theorems about roles, secrets and who knows whom, and about the map that all show | `RPZSession` |
| `RPZTableProofs`, `ObserversProofs` | theorems about connections, whispers and pointers; about logs, documents and music | `RPZTable` |
| `JSONSocketProofs` | a connection implements `MessageFIFO` | `JSONSocket` |
| `SheetDeskProofs` | theorems about pointers, what others know of a sheet, the list to pick from | `SheetDesk` |
| `MapDeskProofs` | theorems about the storage, then about the desk around it: the file, the graphics items and what can be lost of them | `AtomsStorage`, `MapDesk` |
| `ToysTreeProofs` | each asset is in one folder and has its file | `ToysTree` |

An operator that begins with "Mutant:" in its comment is not part of the model:
it is a plausible mistake in the code, kept next to what it would replace, to
show that a property would notice.

### 2.1 State and actions against the code

* `AtomsStorage`: the variables carry the names of the members, less the
  underscore (`atoms` is `MapDatabase::_atomsById`). `inbox` is the event queue of
  the map thread; `issued` the ids `SnowFlake` gave out; `posted` counts events;
  `versions` (the map of the last reset and after each registered alteration) and
  `replaced` are history variables that no guard reads. The `Post...`
  actions are the places of the interface and of `RPZClient` that post an event;
  `HandleAlteration`, `undo`, `redo`, `duplicateAtoms` and `loadRPZMap` are the
  handlers. An alteration is handled whole: history, map, restricted ids and owners.
* `RPZServer`: `usersById` stands for the four tables keyed by user or socket;
  `hints` for the server's storage without its history, which nothing on the
  server reads; the actions are `_onNewConnection`, `_onClientSocketDisconnected`
  and `_onClientPayloadReceived`, whose disjuncts are its cases.
* `RPZClient`: `synced` says whether `_myUserId` is known; `clientInbox` and
  `mapInbox` are what was posted to the two threads of a client; `map` is the
  storage of `MapHint` without its history. An ended client drops all that was
  posted to it, since the object is deleted.
* `RPZTable`: a process outlives its connections, which are numbered. What the
  server sends goes through `toClient` (the socket, lost when the connection
  closes) and `signals` (the interface's queue, never lost): an event of `signals`
  whose connection is not the process's any more is handled all the same, as Qt
  does for a queued signal of a deleted object, and counts as `late` in `slips`. The
  other slips are music that was paused or over when its state arrived (`paused`,
  `over`), changed without telling (`untold`) or came before the session (`early`:
  the server relays it to every socket, `RPZServer.cpp:566`), documents dropped
  outside a session or before it was received (`dropped alone`, `dropped early`),
  items that went at the end of a connection while their names stayed (`relisting`).
  The position of the music is reduced to whether there is one, the clock to a choice
  of whether the track is over when it is estimated.
* `MapDesk`: `inbox` is the queue of the map thread and `deskInbox` that of the
  interface; `HandleAlteration` of the storage is extended by what `ViewMapHint` and
  `MapHint` do in the same slot. A graphics item is its atom and the count of items
  made before it, so that a deleted item differs from the one that replaces it.
  `crashed` names the place where a null or a deleted pointer would be used, and
  nothing happens after it. `slips` has an alteration that crosses another of the
  same atoms (`crossing`), a save between a load and its reset (`saving`), a walked
  item let go (`letting go`), a placeholder forgotten by a removal (`forgetting`), a
  session that unsets the dirty flag (`session`).
* `AtomDrawing`: what is drawn is a stroke, numbered; it carries its own slips, for a
  stroke commited twice, given the template of a later toy, dropped for another,
  continued or abandoned at a change of tool, carried to a new map, or drawn with a
  ghost that could not be made. The atom that comes back names its stroke.
* `MapFog`: places and shapes are sets of cells of a row `1..Width`. The slips name
  what was painted and lost (`wiped`, `fresh`, `swapped`) and what a test of what is
  covered read too early (`under way`, `preview`, `retargeted`, `returned`, `crossed`).
* `QuickDrawings`: points are counted; `missed` says why a user may not see a drawing
  (`untold`, `lost`, `away`, `erased`, `cleared`) or keep it (`unsent`).
* `AssetsDatabase`: a path is a sequence of letters, so that "starts with" is what
  the code does and `Map` is a prefix of `MapOld`. `db` holds the tables in memory
  and those last saved; an operation of `ToysTree` changes the database by path,
  then the items, as `ToysTreeViewModel` does. `crash` stops the application
  between the files and the tables, `restart` builds the tree from what was saved.
* `SheetDesk`: a sheet is a count of changes of its tabs and a list of inventories,
  each the number of every item; `ui` holds what the interface's thread
  owns (database and file, list, selection, sheet, inventory table, dialog) and an
  operation of `CharacterEditor` is an operator from one `ui` to the next. A dialog
  is two actions, one that opens it and one that acts on its answer, since other
  events are handled between. `typed` remembers what the user wrote, whatever the
  program made of it. A sheet in `spoilt` is one that is known not to keep it; `slips`
  has a signal that outlived its connection (`late`), a player who came between the
  session and its handling (`raced`), a removal after which Qt may pick nothing
  (`unpicked`), a sheet saved after the connection took it from the database
  (`unsaved`), a table that shows an inventory that is not the sheet's (`loose`), a
  sheet loaded again within a dialog (`crossed`).
* `MapFile`: a disk has a document, the copies made of it and the version each says,
  or none; `misread` and `dropped` remember the brushes read from a document without
  a version, and those that someone chose to lose or a stop cut.
* `JSONSocket`: the stream is a sequence of units, pieces that may be split; a write
  may be partial and a read may find part of a header or of a message. `slips` has a
  partial write, a split header, and signals that outlive the socket (`late`).
  `ServerLogs` adds uploads told in another order than they were written (`crossed`),
  a socket that goes with several messages (`dropped`), and uploads before the window
  was made (`unheard`).
* `HostedServer`, `Connectivity` and `MainWindow` have one variable for each pointer
  that two threads share and one queue for each thread that is signalled.
  `TrackPlayer` numbers the items of the list, as a video added again is another
  item; `ChatBox` numbers messages and keeps the place each was given.
* Names, colours, texts, geometry and positions in pixels are data that no
  property tells apart: `Values` numbers positions and characters.
* Any user may leave, and any connection fail, at any moment, before the
  handshake included; a closed connection loses what was not read.

### 2.2 What is checked, with which bounds

| run | question | bounds |
|---|---|---|
| `atoms_history` | do undo and redo walk through versions (`HistoryIsATimeline`), does the undo stack lead all the way back (`UndoLeadsBack`), and do stacks, hidden ids and owners stay exact (`HistoryAligned`, `RestrictedExact`, `OwnerTableExact`)? | 2 ids, atoms of a player, of an event and of an object with an asset, 2 updates, 6 events, users wait for a quiet map |
| `atoms_overtaking` | does the history tell how the map came to be when users do not wait (`TimelineReplays`)? It does not. | as above, 4 events |
| `roster` | who is whom, for whom: `RolesExact`, `RosterConverges`, `CharacterTablesFollow` | 3 users, 2 of them local, 1 sheet edit, anyone leaves at any time |
| `session_liveness` | is everybody answered (`HandshakeAnswered`), and forgotten once gone (`LeaversForgotten`)? | 3 users, one of another version |
| `session_map` | do all show the same map once all is handled (`ServerMirrorsHost`, `UsersMirrorServer`), with its assets (`AssetsAtHand`), and is nothing sent that is for the host only (`RestrictedStayWithHost`)? | 3 users, a host who may leave, 3 ids, 3 changes, along one of four plans: nothing to hide, atoms that share an asset beside one whose asset has lost its file, hidden atoms, a player who moves a token |
| `restricted_removal` | are removals relayed on a map with hidden atoms? They are not. | 2 users, 2 changes |
| `toys_box` | do the items show the folders of the database (`TreeShowsDatabase`), is each asset in one folder and has its file (`AssetsStored`)? | 2 assets, names that continue each other, 5 items, paths of 3 names, selections of 2, 6 operations |
| `map_desk` | do the tree, the scene and the file follow the map (`TreeShowsMap`, `SceneShowsMap`, `DirtyTellsUnsaved`), does whatever names an item name one that is there (`ItemsNamedExist`), and what can make a pointer lead nowhere (`CrashesHaveCauses`)? | 3 ids (a token of the user's character, an object whose asset is missing, a new one), 3 events, as a host and as a guest |
| `table` | do logs, music and documents agree once all is read (`LogsAgree`, `AudioFollowsHost`, `DocumentsListed`), do whispers stay private (`WhispersStayPrivate`), and what can make a pointer null (`ObserversSurvive`)? | a game master, whose process holds the server, and a player, 3 connections, 2 acts (messages, music, documents, ends of a connection) |
| `sheets` | is what the user writes kept (`EditsKept`), do the others see it (`OthersSeeSheet`), does the list name the players (`PickerListsPlayers`), and which pointers can lead nowhere (`PointersHold`)? | 3 own characters, one to create, 2 players, 2 items, 2 inventories of 2 rows, 4 acts of the user, 2 things read by the client |
| `map_tools` | does each drawing become one atom (`DrawnOnce`), with the tool and the ghost of the toy selected (`ToolAndGhostFollowToy`), do items stand where the map says and know what covers them (`ItemsFollowMapAndFog`), is the fog the one painted (`FogIsThePainted`), are quick drawings seen and gone (`DrawingsSeenThenGone`)? | one tool at a time: 2 toys, 5 inputs and a load; a row of 3 cells, 3 acts; a drawer and a watcher, one drawing of 3 points, 3 comings and goings |
| `application` | is a connection a FIFO of messages (`WireIsFIFO`), is what the interface tells of the network so (`InterfaceTells`), does the player follow its playlist, the chat its session (`MusicFollowsPlaylist`, `ChatFollowsSession`), do files keep maps (`FilesKeepMaps`)? | one part at a time: chunks of 2, 2 messages of 1 or 2 pieces; 2 sockets, 3 uploads; 3 changes of the network; 2 clients, 1 event; 2 videos, 4 acts; 2 sessions, 2 messages, 2 unheard; 2 paths, 6 acts |

Two ids are enough for a stale id next to a live one and for a payload of two
targets; a third in `session_map` lets one payload mix what is hidden and
what is not, and an object share its asset with another while a third stands by
whose asset cannot be sent: a removal then drops a hash that is used, and one
answer has both an asset to send and one to skip. Six events allow two changes, both undone and both redone, or
overwritten and that undone in turn. Three users are a host, one who joins while another leaves, and a
witness. One alteration may be in each queue of a client at the same time as a
session is on its way, which is the race that matters.

`toys_box` needs six operations to nest a folder, move it with what is below and
touch the path it left. Three events in `map_desk` are one of each side around the
one that is being handled: an alteration of the interface, one of the network and
a load, an undo or a removal that crosses them; with four the run does not end in
the time allowed, and found nothing in the five million states it reached.
`table` starts with the game master alone and in charge, seven steps from
`Init`, which leaves two connections: the player and one reconnection, of either.
Two acts are what each hazard takes: a pause and what came before it, a drop and
the end of the connection that offered it, a message and the end before its
answer. Starting from `Init` with two connections was run too (1.6 million states),
and so was a server in a process of its own (`ServerProcesses = {Alone}`, another
1.3 million): both agree, but together they do not end in the time allowed.

In `sheets`, four acts are to write, to do something that may lose what was
written (pick another sheet, connect, open a dialog, stop), and to look again; a
third own character is the one created while two others hold places in the list,
and two players are one who is in the session and one who comes while it is read.

The parts of `map_tools` and of `application` share nothing that a property tells
apart, so that each run takes one of them from its start to its end: their product
would be larger and show no more. A row of three cells has a place to leave, one to
cross and one to reach; a chunk of two splits a message and its header; three logged
uploads are two sockets of which one has a message waiting behind another.

`atoms_history` has users wait for a quiet map, which is where its versions are
defined. Its other invariants hold without waiting too: that is proved, for every
value of `UserWaits`.

Deadlock is not checked: users are free to stop, and the bounds stop them.

*Fairness.* `FairSpec` makes the server's slots, the client's thread and the map
thread weakly fair: they are Qt event loops, which deliver what is queued as long
as the thread runs. Nothing makes a user connect, close or edit, so `connect`,
`close`, `notifyCharacterChange` and `queueAlteration` have no fairness.

### 2.3 What the runs found

* `atoms_overtaking`: `undo` moves the index and queues its payload; an
  alteration already in the queue is handled first, cuts the history and is then
  hit by an undo that the history does not know of.
* `restricted_removal`: `MultipleAtomTargetsPayload::restrictTargetedAtoms`
  removes all the targets instead of the hidden ones, so one event atom on the
  map silences every removal and update by list of targets.

Passing runs say under which conditions things hold; what they set apart is listed
as hazards, at its line. `session_map`: nothing orders the moves that a host and a
player make of the same token at once, and each keeps the other's. `map_desk`: a
dangling or null pointer needs alterations of two sides that cross, an item that the
walking helper was not told of, or a placeholder removed before its asset came.
`table`: the music and the documents agree unless a signal outlives its
connection, which may also end the next connection, or a null pointer of
`ConnectivityObserver::endClient`; the logs agree even then. Who joins
while the music is paused hears it; documents once offered are not listed again
after a reconnection; and a document dropped before the session has come is offered
to players by a server that does not have it, as any is by a server in a process of
its own.
`sheets`: what was written is lost by rows of one name, by an answer to a dialog that
outlived the sheet it was asked for, and by moving items from a table that still
shows another sheet; a character connected with before it was saved stays at its
old version for the others until the next save.
`toys_box`: the tree and the database agree as long as no folder's path continues
another's as a string and no selection holds a folder and what is below it.
`map_tools`: the slips above are the ways to lose a drawing or a part of the fog.
`application`: connections deliver whatever is split, but a message written in two
parts is never told uploaded; and a file that could not be read is replaced by one
whose next save has no version, which the next opening migrates again.

Two assumptions keep passing runs apart from behaviours that fail and are listed
as hazards: `HostWaits` (no alteration between the session and the map history it
triggers) and one player per character.

## 3. What is proved

Every theorem is for all values of the constants that their named assumptions
allow, the bounds included. The assumptions say that model values differ (the empty
atom is no atom, an unset value is a value, nobody is no user), that bounds are
numbers, that those listed as local are users; three say more: the assets that the
server stores are finitely many, since it sends them one by one, messages and chunks
are not empty, and the characters of the user and those of others are finitely many
numbers, none in both. TLC evaluates all of them on every run.

**The storage.** `MapPayloadsProofs` types every payload and proves `UndoInverts`:
for all maps and payloads, applying what `generateUndoPayload` computes gives the
map back, provided that an addition only brings ids that are new.
`MapDeskProofs` begins with what it proves of `AtomsStorage`:

* `TypeCorrect` and `HistoryStaysAligned` together, as neither is inductive alone:
  an undo posts an entry of a stack, whose type needs the index to point into it,
  and a cut keeps the stacks in step only if it does not go below their bottom.
* `OwnerTableStaysExact`: inductive over the types once a loaded map that waits
  for its reset (`replaced`) is set apart.
* `UndoAlwaysLeadsBack` and `StorageIsATimeline`, when users wait: each entry leads
  from one version of the map to the next and back, for any maps, updates and lengths
  of the history, and the storage implements `Timeline` step by step, with the
  version that the index is at for its cursor. `EntriesLead` is what the stacks hold
  at every moment: an entry that is registered gets its undo payload on the very map
  that it changes, which is the current version, and `UndoInverts` closes the step;
  a cut leaves the entries below it between the versions they were between. That the
  map is the current version is `OneAtATime`: one event is in the queue at most, and
  what it will make of the map is known (`Settles`): an undo has moved the index and
  its payload will bring the map there, a load has given the map and its reset will
  make it the one version. The hypothesis is needed, as `atoms_overtaking` shows.
* `RestrictedStaysExact`: additions only ever add to the restricted ids, so the
  invariant would break if an id came back as an atom of another type. The
  strengthening says that this cannot be: there is an assignment of one type to
  each id issued that the map, both stacks and every payload in the queue agree on,
  and fresh ids are not in it.

**The session.** `RPZSessionProofs` proves:

* `TypeCorrect`, with `KnowsItself`: a client reads its own entry in the table of
  users when it learns its role, so the types hold only because a client that has
  its session is in its own table and no message on the way removes it.
* `RolesStayExact`: at most one user hosts, and the table of roles has exactly those
  let in. Inductive with `HandshakeFirst`: a connection begins with its handshake and
  sends no other, so that nobody is given a second role, which would leave the
  first one taken.
* `RestrictedAlwaysStayWithHost`: no message on its way to anyone but the host
  carries an atom meant for it. Inductive with `HintsKnowHidden` (the server knows
  as restricted all the hidden atoms of its map, when it restricts a payload it has
  just handled) and `QueueEndsWithLink` (a host that left has nothing left to read,
  so that who takes its place is not judged by what it was sent).

It also proves `RosterAlwaysConverges`. The property speaks of empty queues; the
invariant says what a client *will* know of each user once it has read its queue: what
the last message about that user says, or what it knows now when there is none
(`WillKnow`), and that this is what the server has (`OthersKnown`). A user is the
exception for itself, as it changes its own sheet first: `SelfKnown` says that the
server's copy and the edits still on their way make its own. `Unheard` starts the
induction: who is not known to the server is sent nothing.

`RPZSessionProofs` also proves that, once all is handled, the server has the map of the
host (`ServerAlwaysMirrorsHost`) and every user that of the server
(`UsersAlwaysMirrorServer`). Both properties speak of empty queues; the invariants
say what a queue *will* make of a map. `Leads(m, q, M)` says that there is a path of
maps along `q`, from `m` to `M`, of which each step is what one element makes of the
map: a path is extended when something is queued and cut when something is handled,
which needs no induction over the queue.

* `MirrorInv`: only the host alters what the server keeps (`HostAlters`); nothing is
  altered before the map thread has sent the history of the map (`HistoryFirst`);
  who is let in is sent its session before any change, with the map unless it hosts
  (`SessionFirst`); and the changes that are on the way from the host, then those
  that its network thread has yet to send, lead the map of the server to the same
  map as those that its map thread has yet to handle lead the host's (`HostLeads`).
* `GuestInv`: what the map thread of a user has yet to handle, then what is on the
  way to it, leads its map to the server's (`GuestFollows`).

The two theorems have hypotheses, and each of them excludes a behaviour in which the
property is false. `HostWaits`: an alteration that overtakes the history of the map is
lost on the server when that history, taken before it, comes. `Moves = {}`: a player who
moves a token shows the move at once, and two moves that cross on the way leave two
maps; what a single player moves is model-checked (`session_map`). `NothingToHide`, for
the second theorem: a removal or an update that names a hidden atom among others is
withheld from the players as a whole, which `restricted_removal` shows, and a map of
which nothing is left once the hidden atoms are taken away is not sent, so that players
keep the one they had.

**The table.** `RPZTableProofs` proves `ConnectionsHold` (types and `Connections`:
only a process's own connection is up, signals come by connections of the process
that handles them, closed connections have nothing to read) and, from it,
`WhispersAlwaysPrivate`: `Whispers` follows a whisper through the queue of its
sender, that of its receiver and the signals of the process it is for.

`RPZTableProofs` also proves `ObserversAlwaysSurvive`: a null pointer is followed for
the reasons that the property names and for no other. Each reason is one chain:

* an answer finds its line: what a process wrote is in its log as long as the
  connection it was written on is its own (`Answers`);
* a connection greets once and receives one session (`Greetings`), one connection
  hosts, of a process on the server's machine (`Hosting`), and who is in charge of
  the music is the one whose session said so (`Mastering`); music is then only sent
  by who hosts, and never received by it after its session (`HostMusic`), so that
  whoever plays has chosen a track (`Hearing`), unless music came before the session;
* a document that is asked for has its item at the one who asks (`Fetching`), and
  its content at the server as long as only the server's own process may host and
  nothing was dropped before the session (`Stocked`).

The steps are first reduced to fifteen "moves" that say what they make of queues,
roles and connections; each of the invariants is proved over these moves.

`ObserversProofs` goes on from them with `LogsAlwaysAgree`: `Logs` says that each
message of the history is in the log of every user who was let in, or on its way to it,
in the session or by itself; that what a log shows to all is in the history or on its way there; and that what is grey
is in the queue of the server or its answer is on its way. The theorem is stronger
than what the run once checked: the proof showed that signals of an older connection
do no harm here, since whatever they bring is in the history too.

`DocumentsAlwaysListed` is proved of the same moves, sorted by what they make of a shelf
(the names, the files and the items of one application). Five invariants carry it:

* `Shelves`: files and items are of documents that have a name, and each name has an
  item unless some were hidden (`relisting`).
* `Offered`: who has told the server of a document has a name for it.
* `Downloaded`: what a guest shows as downloading is asked for, or on its way back,
  file or answer of a server that has it not.
* `Listing`: every name the server has is known to each guest, or in its session or an
  announcement on its way to it; a connection whose session is to come will have them.
* `Placed`: the server's process is the only application of its machine.

The last is the hypothesis of the theorem, `ServerProcesses` being where the server may
run. It excludes what the code does when another application of that machine
hosts: its drop is relayed to the users at once, and the server answers a join with
the names of its own process, which learns of the drop only when its interface does; a
guest who joins in between is told neither way. A server alone, or on a machine with one
application, is what `RPZGRPZ` starts and what the assumption says.

`AudioAlwaysFollows` follows what is said of the music from the host to the server and on
to each guest. `LastIn` reads the last word of a queue on one aspect, the track or whether
it is played: if none is said there, what the receiver knows counts.

* `InCharge` and `Awaited`: who hosts is the master once its session is handled, and who
  waits for the session will get it.
* `Tuned`: the last word on its way to the server, or what the server knows, is what the
  host has; the last word on its way to a guest, through its queue and then its signals,
  or what the guest knows, is what the server has.
* `Sensible`: a pause or a position is only said of a track that the last state before it
  names (`Sensed`), so that no player plays what it has no track for, and what is heard is
  the track that is kept.
* `HeardPlays`: what is heard playing is known to play.

The last two carry what is said of what a guest hears. The proof made the property sharper
than the one first checked: pauses and ends of a track when a state arrives spoil only what
is heard, not what is known, and so does music that came before the session.

**The sockets.** `ConnectionIsFIFO` is the refinement that the run `application` checks
with two messages and chunks of two: `JSONSocket` implements `MessageFIFO`. It assumes
that chunks are not empty and that messages are not either (`SocketAssumption`: the
JSON of a message has its braces), and nothing of the splits. The invariant
(`StreamInv`) says that there is a stream on which all that was sent is laid out, and
that what is received and not consumed, on the wire and to be written is, in this
order, what is left of it after the messages delivered. A write and a read only move
its bounds; the weight is in what `_processIncomingData` makes of the bytes:

* `Framed`: what `_send` lays out, chunk by chunk; `FlattenPositions` finds each chunk.
* `BatchWhole`: bytes that begin with a whole message are read as that message,
  whatever follows, and what follows is left.
* `BatchPart`: bytes that end within a message are not read. A length that is missing,
  or half there, reads as zero, which puts the end of the chunk after it; its own two
  halves are missing too, so that the end found is always past the bytes.
* `Reading`: so after any number of rounds what was told is what was sent next, and
  what is left begins with the message after it.

The last three compute recursive functions. The induction theorems of the library take
an operator, which the provers cannot instantiate; `Induction` takes a set instead, that
of the numbers of which something is so, and is proved from the finiteness of an
interval: the predecessors of a number out of the set would be mapped by `n - 1` onto
themselves. That these functions are defined at all (`Recursion`, `RunsExist`) is
another use of it.

**The sheets.** `SheetDeskProofs` proves three properties of the user who edits sheets
while the client's thread comes, hears and ends. Each operation of `CharacterEditor`
is first described by a predicate over what it was given and what it leaves (`Kept`: it
saves the sheet on show at most; `Step`: it may then pick another entry of the list), so
that actions are proved without the operations. `SheetsConsistent` is the invariant:

* `UiOk`: types, and what a dialog asks about (`DialogHolds`): inventories and rows that
  are on show, unless a sheet was loaded behind it (`crossed`). It is needed for
  `PointersHoldAlways`: the nested loop of a dialog lets signals in, and what is deleted,
  moved or split after it was chosen before.
* `ClientOk`: types, and that a client that is not up has nothing, but for signals that
  come late.
* `Faithful`: in a session the only character of the user that can be shown is the one
  it plays (`Owned`), what is yet to be told is of it (`Told`), and the last of what
  was told or will be is what the database has (`Known`). `OthersKnowTheSheet` is its
  instance when nothing is left to tell.

`PickerAlwaysListsPlayers` speaks of no signals left, and of two lists made from two
tables: the client's when the session's signal is handled, what a signal brings
otherwise. `Roster` says what the signals still to handle will make of them. The last
signal about a character tells what the client has (`LastTells`); one who came and
is gone, or left and is back, has a signal that says so after (`MovesTell`); nobody
comes twice without leaving in between (`Alternate`), since entries are added without a
look at those there; and once the session is handled (`Fresh`), who has no signal on the
way is listed if and only if in the session, and who is to come and is listed has a
signal to leave before (`Listing`). The property excepts three slips: signals of an
older connection (`late`), who comes between the session's signal and its handling and
so is listed twice (`raced`), and a list of which Qt picked no entry (`unpicked`).

**The desk.** `MapDeskProofs` then proves three properties of one user's map, on which the
map thread, the interface, the menu, the network and the files act. The invariant
`Desk` is the conjunction of seven parts; `Stored`, `Arranged`, `Shows`, `Itemised` and
`Flagged` are types with what ties them (an item of the table is of its atom, what is
selected or owned is shown), the other two carry the theorems:

* `SavedFollows`, for `SavedMapIsTold`: unless one of the two slips happened, the map is
  dirty or the one in its file when no reset waits, and when resets wait the last one
  has the atoms of the file. A load writes neither the map nor its dirty flag, it posts
  a reset; what is altered before that reset is dirty on a map that is about to be
  replaced, which is why the property cannot be the invariant. `loadRPZMap` and the network are alone to post
  resets, the network not to a host, which the actions ensure; `MovedAssumption` says
  that a moved atom has a value to take.
* `Lively`, for `ItemsAlwaysExist`: requests to the view wait in a queue, and name
  items by pointers. `Live(S, q, x, n)` says that the item `x` is in the scene `S`, or
  brought by a request of the queue `q`, and taken away by none before the `n`-th;
  `QueueLive` that each request names what is live at its turn, and `Held` that what
  the map thread knows (`Known`: the items of its table and, unless some were
  forgotten, its placeholders) is live at the end of the queue. The user's own gestures
  do not take items away, so that they leave `Lively` alone, and the map thread forgets
  an item when it asks to have it removed.

`LostItemsAlwaysHaveCauses` is the part of `CrashesHaveCauses` that the same invariant
gives: an item reached after it was deleted was a placeholder that was forgotten when
its atom was removed, and a walk that reaches one had its item let go.
`NoGIAssumption` says that the mark of an atom without an item is none of the items.

**The toys box.** `ToysTreeProofs` proves `AssetsAlwaysStored`. What could go wrong is in
`_reroutePaths`: the paths below a folder are found by comparing strings, so that folders
that have nothing to do with each other are renamed or moved together, onto paths that
hold assets already, one after the other in the order of a hashed set. `ReroutedTidy` says
that one turn of that loop keeps each asset in one folder whichever path is rerouted to
whichever other, and `AllRerouted`, `FolderRenamed` and `FoldersMoved` that nothing else is
needed of the paths, of their order or of what the destination holds. The invariant `Box`
adds to the property what makes the operations defined: every path begins with a
container (`Rooted`; `replace` takes the last name of the new path and of the old), the
tables are finite (so that there is an order at all), a folder's path has a container and
a name, and each item is below a container or a folder that is there (`HungTrees`),
which a removal keeps because what is below goes with it (`BelowClosed`: `MaxItems` steps
down reach everything, as each adds an item or none is left) and a move because nothing is
below an asset. `TreeBuilt` shows that the tree built at a start is such a tree.
`ItemsAssumption` and `NoItemAssumption` say that items are told from containers and from
what does not exist. Folds over an order are computed by functions (`IsFold`), and `Folds`
shows, by `Induction` again, that they exist.

**Only model-checked.** `ServerMirrorsHost` and `UsersMirrorServer` when a player moves
its token or when there is something to hide (in the alterations of `session_map`
only, as the second does not hold for all). `FilesKeepMaps` folds over the brushes of
a map, and `InterfaceTells` over the lengths of what was written; neither is proved.
Liveness under fairness is out of reach.
On the desk `TreeShowsMap`, `SceneShowsMap` and the rest of `CrashesHaveCauses` are
not proved: they compare what queued alterations make of the tree and of the scene
with what they make of the map, when undos posted by the interface may come between,
and need that two of them that do not cross commute.
The properties of the tools and of what surrounds the map are not proved, nor are `TreeShowsDatabase`, which compares two trees that are built in different
orders, and `EditsKept`, which compares what is typed with what bags of rows add up to by
folds;
`CharacterTablesFollow` holds under the bounds of its run only (one player for a
character), which no invariant of the code ensures. `AssetsAtHand` is not proved: what
it sets apart is the hashes the server forgot while atoms still use them
(`ForgottenHashes`, `MapDatabase.cpp:176`), which the plan of the shared asset reaches.
`InterfaceTells` is the conjunction of five invariants that share no state; its mutant
breaks the one about uploads.

## 4. The plan

1. *(done)* `MapPayloads`, `AtomsStorage`, `Timeline` and their proofs, that the one
   implements the other included.
2. *(done)* `RPZNetwork`, `RPZServer`, `RPZClient`, `RPZSession`.
3. *(done)* `AssetsDatabase`, `ToysTree`.
4. *(done)* `MapDisplays`, `MapDesk`, the drawing tools.
5. *(done)* `Observers`, `RPZTable`.
6. *(done)* `JSONDatabase`, `CharacterEditor`, `SheetDesk`, `MapFile`.
7. *(done)* Proofs about the session: roles, secrets, who knows whom, and that all
   show the same map.
8. *(done)* Proofs about the table: connections, whispers, pointers, logs, documents.
9. *(done)* `JSONSocket` implements `MessageFIFO`, checked and proved; the hosted
   server, the window, the player and the chat box.
10. *(done)* Proofs about the sockets, the sheets, the desk and the assets.
11. Proofs that the tree and the scene show the map, and with that the other causes of
    dangling pointers (`CrashesHaveCauses`).
12. The storage with its history on the client's side of the session: undo and
    redo across the network, and the session without `HostWaits`.

## 5. What is not modelled, and why

The geometry of brushes, of clipping and of walks is computation on polygons
without a protocol, and so is rendering. Pings and the measuring tool end in
something that nobody keeps. The order of rows, and the announcements of rows to Qt,
belong to Qt's views. On the desk the names and colours refreshed on tokens, the
widgets of each parameter and previews are left out; so are, in the toys box, the
metadata of assets and the migrations of older files. The updater, the preferences,
the exchanges of uPnP and temporary files are I/O: what they may answer is chosen,
what they do on the way is not modelled. Dice throws are computed by a library. In
the session a character is an id and a version; on the desk its tabs but the
inventories are one counter, and gauges, portraits, the combo of the connection
widget and the drawing of the list of players are left out. `RPZNetwork` and
`RPZTable` take a connection for a FIFO of whole messages, which `JSONSocket` is
checked to implement; compression is data. See `PROJECT.json` for the status of each
part.
