----------------------------- MODULE SheetDesk ------------------------------
(***************************************************************************)
(* The sheets of characters on one machine, through connections. The       *)
(* client's thread keeps the table of who is there and signals its changes *)
(* to the interface, which handles them later, also within a dialog and    *)
(* after the connection ended.                                             *)
(***************************************************************************)
EXTENDS CharacterEditor

CONSTANTS
  Local,        \* the user's own characters, created or to create
  Remote,       \* the characters of the other users, one each
  StartSheets,  \* the database at the start
  MaxActs,      \* what the user does
  MaxNews       \* what the client reads

ASSUME IdsAssumption ==
  /\ Local \cap Remote = {} /\ Local \cup Remote \subseteq Nat \ {NoId}
  /\ IsFiniteSet(Local) /\ IsFiniteSet(Remote)

ASSUME StartAssumption ==
  /\ DOMAIN StartSheets \subseteq Local
  /\ StartSheets = [c \in DOMAIN StartSheets |-> StartSheets[c]]
  /\ \A c \in DOMAIN StartSheets : isSheet(StartSheets[c])

VARIABLES
  ui,       \* the interface: the database, the picker, the sheet, a dialog
  client,   \* the client, in its thread
  signals,  \* from the client's thread to the interface
  allowed,  \* CharacterEditor::_allowCharacterChangeNotifications
  listed,   \* PlayersModel: the sheets of the players it lists
  acts,     \* what the user did so far
  news,     \* what the client read so far
  typed,    \* history variable: what the user wrote in each sheet
  crashed   \* history variable: where a pointer to nothing was followed

vars == <<ui, client, signals, allowed, listed, acts, news, typed, crashed>>

\* theirs: _sessionUsers, by character; sent: what the server knows of the user's
\* own.
NoClient == [up |-> FALSE, synced |-> FALSE, me |-> NoId, theirs |-> Nobody,
             sent |-> NewCharacter]

Tell == client.up /\ allowed

TypeOK ==
  /\ DOMAIN ui.db \subseteq Local /\ \A c \in DOMAIN ui.db : isSheet(ui.db[c])
  /\ ui.combo.at \in 0..Len(ui.combo.items)
  /\ \A k \in DOMAIN ui.combo.items :
       ui.combo.items[k] \in [id : Local \cup Remote \cup {NoId}, origin : Origin]
  /\ isSavable(ui.selection) /\ ui.sheet.id # NoId => ui.sheet.id = ui.selection.id
  /\ ui.inventory.at \in 0..Len(ui.inventory.list)
  /\ client.me \in Local \cup {NoId}
  /\ DOMAIN client.theirs \cup DOMAIN listed \subseteq Local \cup Remote
  /\ DOMAIN typed = DOMAIN ui.db
  /\ ui.slips \subseteq {"late", "raced", "unpicked", "unsaved", "loose", "crossed"}
  /\ crashed \in {"no", "session", "modal", "inventory"}

---------------------------------------------------------------------------
(* What the user wrote: the tabs, and how many there are of each item.     *)

totals(bags) == [x \in Item |-> bagsTotal(bags, x)]
contentOf(sheet) == [tabs |-> sheet.tabs, items |-> totals(sheet.bags)]

isShown(c) == isSavable(ui.selection) /\ ui.sheet.id = c

\* What the user sees of a character, or will once it is picked.
seen(c) ==
  IF isShown(c)
  THEN [tabs |-> ui.sheet.tabs, items |-> [x \in Item |-> itemTotal(ui.inventory, x)]]
  ELSE contentOf(ui.db[c])

isSaved(c) == isShown(c) => generateCharacter(ui) = ui.db[c]

isWritable == ui.dialog.kind = "none" /\ ui.sheet.id # NoId

---------------------------------------------------------------------------
(* The user *)

act == crashed = "no" /\ acts < MaxActs /\ acts' = acts + 1
clientVars == <<client, signals, allowed, listed, news>>

Pick(k) ==
  /\ act /\ ui.dialog.kind = "none"
  /\ k # ui.combo.at /\ ui.combo.items[k].id # NoId
  /\ ui' = selectionChanged([ui EXCEPT !.combo.at = k], Tell, client.theirs)
  /\ UNCHANGED <<clientVars, typed, crashed>>

Save ==
  /\ act /\ ui.dialog.kind = "none" /\ isSavable(ui.selection)
  /\ ui' = maySaveCurrentCharacter(ui, Tell)
  /\ UNCHANGED <<clientVars, typed, crashed>>

\* Lore, status, abilities or notes.
WriteTabs ==
  /\ act /\ isWritable /\ ~ui.sheet.readOnly
  /\ ui' = [ui EXCEPT !.sheet.tabs = @ + 1]
  /\ typed' = [typed EXCEPT ![ui.sheet.id].tabs = @ + 1]
  /\ UNCHANGED <<clientVars, crashed>>

\* _addRow and what is typed in it. Without an inventory the table is that of the
\* sheet shown before; rows of one name will be one.
AddRow(x) ==
  /\ act /\ isWritable /\ ui.inventory.editable /\ Len(ui.inventory.rows) < 2
  /\ LET u == [ui EXCEPT !.inventory.rows = Append(@, [item |-> x, n |-> 1])] IN
     ui' = IF ui.inventory.at = 0 \/ homonyms(u.inventory.rows) THEN spoil(u, ui.sheet.id) ELSE u
  /\ typed' = IF ui.sheet.id \in DOMAIN typed
              THEN [typed EXCEPT ![ui.sheet.id].items[x] = @ + 1] ELSE typed
  /\ UNCHANGED <<clientVars, crashed>>

PickInventory(k) ==
  /\ act /\ isWritable /\ k # ui.inventory.at /\ ui.inventory.at # 0
  /\ ui' = [ui EXCEPT !.inventory = onSelectedIndexChanged(@, k, ui.sheet.readOnly)]
  /\ UNCHANGED <<clientVars, typed, crashed>>

AddInventory ==
  /\ act /\ isWritable /\ ~ui.sheet.readOnly /\ Len(ui.inventory.list) < 2
  /\ ui' = [ui EXCEPT !.inventory = addButtonPressed(@, FALSE)]
  /\ UNCHANGED <<clientVars, typed, crashed>>

AddCharacter(c) ==
  /\ act /\ ui.dialog.kind = "none" /\ ~client.up
  /\ ui' = addNewCharacter(ui, c)
  /\ typed' = insert(typed, c, contentOf(NewCharacter))
  /\ UNCHANGED <<clientVars, crashed>>

---------------------------------------------------------------------------
(* Dialogs: other events are handled while one is open. *)

ask(kind, S, k) ==
  /\ act /\ isWritable
  /\ ui' = [ui EXCEPT !.dialog = [kind |-> kind, rows |-> S, at |-> k, crossed |-> FALSE]]
  /\ UNCHANGED <<clientVars, typed>>

AskDeleteCharacter ==
  /\ ~client.up /\ isSavable(currentCharacter(ui.combo))
  /\ ask("character", {}, currentCharacter(ui.combo).id)
  /\ UNCHANGED crashed

AskDeleteInventory ==
  /\ mayDelete(ui.inventory, ui.sheet.readOnly)
  /\ ask("inventory", {}, 0)
  /\ UNCHANGED crashed

AskRemoveRows(S) == ui.inventory.editable /\ ask("rows", S, 0) /\ UNCHANGED crashed

others(inv) == DOMAIN inv.list \ {inv.at}

\* The modal describes the inventories that the table points at.
AskMove(kind, S, k) ==
  /\ ui.inventory.editable /\ ui.inventory.targets > 0
  /\ IF ui.inventory.loose THEN crashed' = "modal"
     ELSE k \in others(ui.inventory) /\ UNCHANGED crashed
  /\ ask(kind, S, k)

Cancel ==
  /\ crashed = "no" /\ ui.dialog.kind # "none"
  /\ ui' = [ui EXCEPT !.dialog = NoDialog]
  /\ UNCHANGED <<clientVars, acts, typed, crashed>>

\* What is done to the sheet on show, be it another than when it was asked.
accepted(u) ==
  /\ crashed = "no"
  /\ ui' = IF ui.dialog.crossed
           THEN spoil([u EXCEPT !.dialog = NoDialog, !.slips = @ \cup {"crossed"}], ui.sheet.id)
           ELSE [u EXCEPT !.dialog = NoDialog]
  /\ UNCHANGED <<clientVars, acts>>

\* What the user removed, if it was the sheet's.
withoutRows(rows) ==
  IF ui.sheet.id \in DOMAIN typed /\ ui.inventory.at # 0 /\ ~ui.dialog.crossed
  THEN [typed EXCEPT ![ui.sheet.id].items = [x \in Item |-> @[x] - rowCount(rows, x)]]
  ELSE typed

DeleteCharacter ==
  /\ crashed = "no" /\ ui.dialog.kind = "character"
  /\ ui' \in deleteCharacter([ui EXCEPT !.dialog = NoDialog], ui.dialog.at)
  /\ typed' = [c \in DOMAIN typed \ {ui.dialog.at} |-> typed[c]]
  /\ UNCHANGED <<clientVars, acts, crashed>>

\* _bufferedSelectedIndex, which a reload may have unset.
DeleteInventory ==
  /\ ui.dialog.kind = "inventory"
  /\ IF ui.inventory.at = 0
     THEN accepted(ui) /\ crashed' = "inventory" /\ UNCHANGED typed
     ELSE /\ accepted([ui EXCEPT !.inventory = deleteInventory(@, ui.sheet.readOnly)])
          /\ typed' = withoutRows(ui.inventory.rows)
          /\ UNCHANGED crashed

RemoveRows ==
  LET S == ui.dialog.rows \cap DOMAIN ui.inventory.rows IN
  /\ ui.dialog.kind = "rows"
  /\ accepted([ui EXCEPT !.inventory.rows = removeRows(@, S)])
  /\ typed' = withoutRows(rowsAt(ui.inventory.rows, S))
  /\ UNCHANGED crashed

\* Items go to an inventory that is not there any more if the sheet was loaded
\* again meanwhile.
MoveItems ==
  LET u == [ui EXCEPT !.inventory = moveInventoryItems(@, ui.dialog.rows, ui.dialog.at)] IN
  /\ ui.dialog.kind = "move"
  /\ IF ui.dialog.crossed
     THEN accepted(ui) /\ crashed' = "modal"
     ELSE accepted(u) /\ UNCHANGED crashed
  /\ UNCHANGED typed

SplitItem ==
  LET i == Min(ui.dialog.rows) IN
  /\ ui.dialog.kind = "split"
  /\ IF ui.dialog.crossed
     THEN accepted(ui) /\ crashed' = "modal"
     ELSE /\ \E n \in 0..ui.inventory.rows[i].n - 1 :
               accepted([ui EXCEPT !.inventory = splitInventoryItem(@, i, n, ui.dialog.at)])
          /\ UNCHANGED crashed
  /\ UNCHANGED typed

UserStep ==
  \/ \E k \in DOMAIN ui.combo.items : Pick(k)
  \/ Save
  \/ WriteTabs
  \/ \E x \in Item : AddRow(x)
  \/ \E k \in DOMAIN ui.inventory.list : PickInventory(k)
  \/ AddInventory
  \/ \E c \in Local \ DOMAIN ui.db : AddCharacter(c)
  \/ AskDeleteCharacter
  \/ AskDeleteInventory
  \/ \E S \in (SUBSET DOMAIN ui.inventory.rows) \ {{}}, k \in DOMAIN ui.inventory.list :
       AskMove("move", S, k)
  \/ \E i \in DOMAIN ui.inventory.rows, k \in DOMAIN ui.inventory.list :
       ui.inventory.rows[i].n > 1 /\ AskMove("split", {i}, k)
  \/ \E S \in (SUBSET DOMAIN ui.inventory.rows) \ {{}} : AskRemoveRows(S)
  \/ Cancel
  \/ DeleteCharacter
  \/ DeleteInventory
  \/ RemoveRows
  \/ MoveItems
  \/ SplitItem

---------------------------------------------------------------------------
(* Connections *)

\* ConnectWidget::_tryConnectToServer: the client is made with the sheet in the
\* database, then the one on show is saved, and nobody told.
Connect(c) ==
  /\ act /\ ui.dialog.kind = "none" /\ ~client.up
  /\ client' = [NoClient EXCEPT !.up = TRUE, !.me = c,
                                !.sent = IF c = NoId THEN NewCharacter ELSE ui.db[c]]
  /\ ui' = loadEmpty(IF c = NoId \/ isSaved(c) THEN ui
                     ELSE [ui EXCEPT !.slips = @ \cup {"unsaved"}], allowed)
  /\ UNCHANGED <<signals, allowed, listed, news, typed, crashed>>

\* The user leaves or the client fails. What the client signalled is still to
\* come, what it was told is lost.
Disconnect ==
  /\ act /\ client.up
  /\ client' = NoClient
  /\ signals' = [n \in DOMAIN signals |-> [signals[n] EXCEPT !.late = TRUE]]
  /\ allowed' = FALSE
  /\ listed' = Nobody
  /\ ui' = [loadLocalCharacters(ui) EXCEPT !.told = <<>>]
  /\ UNCHANGED <<news, typed, crashed>>

\* A start that reads what a stop left in the file. What could not be kept is
\* taken from there.
restart(file, kept) ==
  LET u == started(readCharacters(file)) IN
  /\ ui' = u
  /\ typed' = [c \in DOMAIN u.db |->
                 IF c \in kept \ ui.spoilt THEN typed[c] ELSE contentOf(u.db[c])]
  /\ client' = NoClient /\ signals' = <<>> /\ allowed' = FALSE /\ listed' = Nobody
  /\ UNCHANGED <<news, crashed>>

\* ~CharacterEditor saves the sheet.
Quit ==
  /\ act /\ ui.dialog.kind = "none"
  /\ restart(maySaveCurrentCharacter(ui, Tell).file,
             IF ui.version # NoVersion THEN DOMAIN ui.db ELSE {})

\* A stop that lets nothing be saved, or cuts a save.
Crash ==
  /\ act
  /\ \/ restart(ui.file, IF ui.version # NoVersion THEN {c \in DOMAIN ui.db : isSaved(c)} ELSE {})
     \/ \E file \in cutShort : isSavable(ui.selection) /\ restart(file, {})

---------------------------------------------------------------------------
(* The client's thread *)

read == client.up /\ news < MaxNews /\ crashed = "no" /\ news' = news + 1
signal(kind, c, sheets) ==
  signals' = Append(signals, [kind |-> kind, id |-> c, sheets |-> sheets, late |-> FALSE])

GameSessionSync(S) ==
  /\ read /\ ~client.synced
  /\ LET users == [c \in S |-> NewCharacter]
         all == IF client.me = NoId THEN users ELSE insert(users, client.me, client.sent)
     IN /\ client' = [client EXCEPT !.synced = TRUE, !.theirs = all]
        /\ signal("session", NoId, all)
  /\ allowed' = TRUE
  /\ UNCHANGED <<ui, listed, acts, typed, crashed>>

UserIn(c) ==
  /\ read /\ c \notin DOMAIN client.theirs
  /\ client' = [client EXCEPT !.theirs = insert(@, c, NewCharacter)]
  /\ signal("in", c, insert(Nobody, c, NewCharacter))
  /\ UNCHANGED <<ui, allowed, listed, acts, typed, crashed>>

UserOut(c) ==
  /\ read /\ c \in DOMAIN client.theirs
  /\ client' = [client EXCEPT !.theirs = [d \in DOMAIN @ \ {c} |-> @[d]]]
  /\ signal("out", c, Nobody)
  /\ UNCHANGED <<ui, allowed, listed, acts, typed, crashed>>

UserDataChanged(c) ==
  /\ read /\ c \in DOMAIN client.theirs
  /\ LET sheet == [client.theirs[c] EXCEPT !.tabs = @ + 1] IN
     /\ client' = [client EXCEPT !.theirs[c] = sheet]
     /\ signal("changed", c, insert(Nobody, c, sheet))
  /\ UNCHANGED <<ui, allowed, listed, acts, typed, crashed>>

notifyCharacterChange ==
  /\ crashed = "no" /\ client.up /\ ui.told # <<>>
  /\ ui' = [ui EXCEPT !.told = Tail(@)]
  /\ client' = [client EXCEPT !.theirs[client.me] = Head(ui.told), !.sent = Head(ui.told)]
  /\ signal("changed", client.me, insert(Nobody, client.me, Head(ui.told)))
  /\ UNCHANGED <<allowed, listed, acts, news, typed, crashed>>

ClientStep ==
  \/ \E S \in SUBSET Remote : GameSessionSync(S)
  \/ \E c \in Remote : UserIn(c) \/ UserOut(c) \/ UserDataChanged(c)
  \/ notifyCharacterChange

---------------------------------------------------------------------------
(* Signals, in the interface *)

slipped(u, slip, if) == IF if THEN [u EXCEPT !.slips = @ \cup {slip}] ELSE u

\* The list is made of the client's table, which may be ahead of the session:
\* who came since will be added again.
onGameSessionReceived(s) ==
  LET raced == \E n \in DOMAIN signals : signals[n].kind = "in" /\ ~signals[n].late
      u == slipped(ui, "raced", raced)
  IN IF client.up
     THEN /\ ui' \in {slipped(v, "late", s.late) :
                        v \in loadFromRemote(u, client.me, Tell, client.theirs)}
          /\ listed' = s.sheets
          /\ UNCHANGED crashed
     ELSE crashed' = "session" /\ ui' = slipped(u, "late", s.late) /\ UNCHANGED listed

handleUser(s) ==
  LET u == slipped(ui, "late", s.late) IN
  /\ CASE s.kind = "in" ->
            /\ ui' = onUserJoinedServer(u, s.id, Tell, client.theirs)
            /\ listed' = insert(listed, s.id, s.sheets[s.id])
       [] s.kind = "out" ->
            /\ ui' \in removeCharacterId(u, s.id, Tell, client.theirs)
            /\ listed' = [c \in DOMAIN listed \ {s.id} |-> listed[c]]
       [] s.kind = "changed" ->
            /\ ui' = onUserDataChanged(u, s.id, s.sheets[s.id], Tell)
            /\ listed' = insert(listed, s.id, s.sheets[s.id])
  /\ UNCHANGED crashed

HandleSignal ==
  /\ crashed = "no" /\ signals # <<>>
  /\ signals' = Tail(signals)
  /\ IF Head(signals).kind = "session" THEN onGameSessionReceived(Head(signals))
     ELSE handleUser(Head(signals))
  /\ UNCHANGED <<client, allowed, acts, news, typed>>

---------------------------------------------------------------------------
Init ==
  /\ ui = started(readCharacters(saveAsFile(apiVersion, StartSheets)))
  /\ client = NoClient /\ signals = <<>> /\ allowed = FALSE /\ listed = Nobody
  /\ acts = 0 /\ news = 0
  /\ typed = [c \in DOMAIN StartSheets |-> contentOf(StartSheets[c])]
  /\ crashed = "no"

Next ==
  \/ UserStep
  \/ \E c \in DOMAIN ui.db \cup {NoId} : Connect(c)
  \/ Disconnect
  \/ Quit
  \/ Crash
  \/ ClientStep
  \/ HandleSignal

Spec == Init /\ [][Next]_vars

---------------------------------------------------------------------------
(* Correctness *)

\* What the user wrote in a sheet, through every tab, inventory, pick, save,
\* connection and start, is what the sheet shows or will show: but for sheets
\* known not to keep it (spoilt).
EditsKept ==
  crashed = "no" => \A c \in DOMAIN ui.db \ ui.spoilt : seen(c) = typed[c]

\* Once nothing is on its way and the sheet on show is saved, the others know
\* the user's character as the database does: but if it was connected with
\* before it was saved.
OthersSeeSheet ==
  client.synced /\ client.me \in DOMAIN ui.db /\ ui.told = <<>>
    => client.sent = ui.db[client.me] \/ "unsaved" \in ui.slips

\* Once the signals are handled, the list to pick from has each character of the
\* session once, the user's as such, and the list of players their sheets.
PickerListsPlayers ==
  client.synced /\ signals = <<>> /\ ui.slips \cap {"late", "raced", "unpicked"} = {}
    => /\ listed = client.theirs
       /\ ToSet(ui.combo.items) =
            IF listed = Nobody THEN {Placeholder}
            ELSE {item(c, IF c = client.me THEN "Local" ELSE "Remote") : c \in DOMAIN listed}
       /\ IsInjective(ui.combo.items)

\* Pointers are followed to nothing for three reasons only: a session whose
\* client ended; an item moved from a table that shows another sheet's inventory;
\* a dialog whose sheet was loaded again. What the widgets hold is otherwise well
\* typed, the sheet on show being the one picked.
PointersHold ==
  /\ TypeOK
  /\ crashed = "session" => "late" \in ui.slips
  /\ crashed = "modal" => ui.slips \cap {"loose", "crossed"} # {}
  /\ crashed = "inventory" => "crossed" \in ui.slips
=============================================================================
