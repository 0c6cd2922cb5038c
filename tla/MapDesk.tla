------------------------------ MODULE MapDesk -------------------------------
(***************************************************************************)
(* A map on one machine: the storage in the map thread (AtomsStorage with  *)
(* ViewMapHint and MapHint) and, in the interface's thread, the layout     *)
(* tree, the editor of atoms and the view.                                 *)
(*                                                                         *)
(* An alteration made in the interface is handled there at once and queued *)
(* for the map thread; one that comes from the map thread (undo, redo, a   *)
(* map loaded) or from the network is queued for both. The view hears of   *)
(* an alteration from the map thread only, once the map has it. Thus the   *)
(* tree may be ahead of the map and the view behind.                       *)
(***************************************************************************)
EXTENDS AtomsStorage, MapDisplays

CONSTANTS
  InitialMap,      \* the map at the start
  InitiallyStored, \* the assets in the database at the start
  MyCharacter,     \* the character that the user plays, unless host
  NoGI             \* an atom without a graphics item

ASSUME InitialMapAssumption == InitialMap \in Maps
ASSUME InitiallyStoredAssumption == InitiallyStored \subseteq Assets
ASSUME MyCharacterAssumption == MyCharacter \in Values
ASSUME MovedAssumption == 1 \in Values
ASSUME NoGIAssumption ==
  NoGI \notin [atom : AtomId, made : Nat, token : BOOLEAN, asset : Assets \cup {NoAsset}]

VARIABLES
  hostAble,        \* Authorisations::isHostAble: the map is the user's own
  deskInbox,       \* event queue of the interface's thread
  tree,            \* MapLayoutModel
  edited,          \* AtomEditor::_currentSelectionDescr.selectedAtomIds
  menu,            \* the menu that is open, with what it offers
  view,            \* MapView
  stored,          \* the assets in the database
  GItemsById,      \* ViewMapHint::_GItemsById
  missingAssets,   \* _missingAssetHashesFromDb, as the items to replace
  ownedTokenIds,   \* _ownedTokenIds
  built,           \* alterations that built items so far
  dirty,           \* MapHint::_isMapDirty
  saved,           \* the atoms in the file of the map
  crashed,         \* history variable: where a pointer to nothing was followed
  slips            \* history variable: see mayCross, letsGo, removeItems, handleSave, ackRemoteness

interfaceVars == <<deskInbox, tree, edited, view, stored>>
itemVars == <<GItemsById, missingAssets, ownedTokenIds, built>>
fileVars == <<dirty, saved>>
deskVars == <<hostAble, interfaceVars, itemVars, fileVars, menu, crashed, slips>>

\* NoMenu: none is open.
NoMenu == [open |-> FALSE, ids |-> {}, layers |-> {}, somethingUndoable |-> FALSE,
           somethingRedoable |-> FALSE]

isGItem(x) ==
  /\ x.atom \in AtomId /\ x.made \in Nat /\ x.token \in BOOLEAN
  /\ x.asset \in Assets \cup {NoAsset}

DeskTypeOK ==
  /\ atoms \in Maps
  /\ hostAble \in BOOLEAN
  /\ \A c \in DOMAIN tree : tree[c] \subseteq AtomId
  /\ edited \subseteq AtomId
  /\ menu.ids \subseteq AtomId
  /\ \A x \in view.shown : isGItem(x)
  /\ view.selected \cup view.owned \subseteq view.shown
  /\ view.tool \in MapTool
  /\ \A i \in AtomId : GItemsById[i] # NoGI => GItemsById[i].atom = i
  /\ ownedTokenIds \subseteq {i \in AtomId : GItemsById[i] # NoGI}
  /\ dirty \in BOOLEAN
  /\ saved \in Maps
  /\ crashed \in {"no", "tree", "view", "item", "placeholder", "walk", "menu"}
  /\ slips \subseteq {"crossing", "saving", "letting go", "forgetting", "session"}

---------------------------------------------------------------------------
(* Graphics items *)

isMissing(a) == a.asset # NoAsset /\ a.asset \notin stored

\* _buildGraphicsItemFromAtom: a placeholder when the asset is not there.
\* Items are told apart by the alteration that made them.
graphicsItem(i, a, k) ==
  [atom |-> i, made |-> k, token |-> isAtomOwnable(a) /\ ~isMissing(a),
   asset |-> IF isMissing(a) THEN a.asset ELSE NoAsset]

isPlaceholder(x) == x.asset # NoAsset

tokensOf(items) == {x \in items : x.token}

owns(character) == hostAble \/ character = MyCharacter

\* _hasOwnershipOf, once the owners of the atoms added are known.
ownedOf(items, ownedIds) == {x \in tokensOf(items) : hostAble \/ x.atom \in ownedIds}

scene(type, items, owned, toReplace) ==
  [op |-> "scene", type |-> type, items |-> items, owned |-> owned,
   toReplace |-> toReplace]
update(items, moved) == [op |-> "update", items |-> items, moved |-> moved]
ownership(items, owned) == [op |-> "ownership", items |-> items, owned |-> owned]

\* The items in memory: those shown, and those on their way to the view.
Alive ==
  view.shown \cup
    UNION {deskInbox[n].items : n \in {n \in DOMAIN deskInbox :
             deskInbox[n].op = "scene" /\ deskInbox[n].type \in {"Added", "Reset", "Replaced"}}}

\* The map at the start has been shown.
InitialItems ==
  [i \in AtomId |->
     IF InitialMap[i] = NoAtom THEN NoGI ELSE graphicsItem(i, InitialMap[i], 0)]

DeskInit ==
  /\ hostAble \in BOOLEAN
  /\ atoms = InitialMap
  /\ assetHashes = HashesOf(InitialMap)
  /\ restrictedAtomIds = RestrictedIdsOf(InitialMap)
  /\ ownableAtomIdsByOwner =
       [i \in AtomId |-> IF isAtomOwnable(InitialMap[i])
                         THEN InitialMap[i].meta["CharacterId"] ELSE NoEntry]
  /\ redoHistory = <<>> /\ undoHistory = <<>> /\ payloadHistoryIndex = 0
  /\ latestDuplication = {} /\ duplicationCount = 0
  /\ inbox = <<>> /\ posted = 0
  /\ issued = IdsOf(InitialMap)
  /\ versions = <<InitialMap>> /\ replaced = FALSE
  /\ deskInbox = <<>>
  /\ tree = treeOf(InitialMap)
  /\ edited = {}
  /\ menu = NoMenu
  /\ stored = InitiallyStored
  /\ GItemsById = InitialItems
  /\ missingAssets = {x \in {InitialItems[i] : i \in IdsOf(InitialMap)} : isPlaceholder(x)}
  /\ ownedTokenIds = {i \in IdsOf(InitialMap) : isAtomOwnable(InitialMap[i]) /\
                                                owns(InitialMap[i].meta["CharacterId"])}
  /\ LET items == {InitialItems[i] : i \in IdsOf(InitialMap)}
     IN view = EmptyView(items, ownedOf(items, ownedTokenIds))
  /\ built = 0
  /\ dirty = FALSE
  /\ saved = InitialMap
  /\ crashed = "no"
  /\ slips = {}

---------------------------------------------------------------------------
(* Posting *)

select(ids) == [op |-> "select", ids |-> ids]

\* The atoms an event makes its handlers look for, and those whose presence or
\* state it decides. Undo, redo and load may be about any.
named(e) == CASE e.op = "select" -> e.ids
              [] e.op = "alter" -> namedAtoms(e.payload)
              [] OTHER -> {}
touched(e) == CASE e.op \in {"undo", "redo", "load"} -> AtomId
                [] e.op = "alter" -> IF e.payload.type = "Reset" THEN AtomId
                                     ELSE named(e) \cup IdsOf(e.payload.atoms)
                [] OTHER -> named(e)

Pending == {inbox[n] : n \in DOMAIN inbox} \cup {deskInbox[n] : n \in DOMAIN deskInbox}

\* The event meets another about the same atoms that was not handled
\* everywhere, or is about atoms that are gone.
mayCross(e) ==
  slips' = IF named(e) \subseteq IdsOf(atoms) /\ \A f \in Pending : touched(e) \cap touched(f) = {}
           THEN slips ELSE slips \cup {"crossing"}

\* What the tree and the editor do, in this order, with an event; an atom that
\* the tree does not know is a null pointer. The editor tests a removal twice
\* and a reset never: it keeps the atoms it had.
handleInInterface(e) ==
  IF ~(named(e) \subseteq atomsOf(tree))
  THEN crashed' = "tree" /\ UNCHANGED <<tree, edited>>
  ELSE /\ tree' = IF e.op = "alter" THEN treeAfter(tree, e.payload) ELSE tree
       /\ edited' = CASE e.op = "select" -> e.ids
                      [] e.op = "alter" /\ e.payload.type = "Removed" -> edited \ e.payload.ids
                      [] OTHER -> edited
       /\ UNCHANGED crashed

\* An event made in the interface, handled there before anything else.
propagate(e) ==
  /\ Post(e)
  /\ handleInInterface(e)
  /\ mayCross(e)
  /\ UNCHANGED <<hostAble, deskInbox, view, stored, itemVars, fileVars>>

\* An alteration from the network.
receive(p) ==
  /\ Post(alter(p))
  /\ mayCross(alter(p))
  /\ deskInbox' = Append(deskInbox, alter(p))
  /\ UNCHANGED <<hostAble, tree, edited, view, stored, itemVars, fileVars, crashed>>

\* A call posted to the map thread.
invoke(e) ==
  /\ Post(e)
  /\ mayCross(e)
  /\ UNCHANGED <<issued, hostAble, interfaceVars, itemVars, fileVars, crashed>>

\* Atoms that the menu and the shortcuts are about: those selected in the tree
\* or in the view, which may be ahead and behind.
Selectable == ((SUBSET atomsOf(tree)) \cup (SUBSET {x.atom : x \in view.shown})) \ {{}}

moves(ids) ==
  BulkMetadataChangedPayload(
    [i \in AtomId |-> IF i \in ids THEN [NoUpdate EXCEPT !["Position"] = 1] ELSE NoUpdate])

additions == {[NoAtoms EXCEPT ![i] = a] : i \in AtomId \ issued, a \in Templates}

---------------------------------------------------------------------------
(* The menu of the tree and of the view. It asks the map what is possible, and  *)
(* stays open while both threads go on.                                          *)

layersOf(ids) == {atoms[i].meta["Layer"] : i \in ids}

\* _determineMinMaxLayer
minMaxLayer(layers) ==
  Values \cap ({l + 1 : l \in {l \in layers : \A k \in layers : k <= l}}
                 \cup {l - 1 : l \in {l \in layers : \A k \in layers : k >= l}})

\* getPossibleActions: atoms have layers to go to, above and below, if none is
\* interactive. No atom is locked.
possibleActions(ids) ==
  [open |-> TRUE, ids |-> ids,
   layers |-> IF \E i \in ids : atoms[i].type # "Object" THEN {} ELSE minMaxLayer(layersOf(ids)),
   somethingUndoable |-> canUndo, somethingRedoable |-> canRedo]

\* Of the rows that are selected, which is not the map's affair, or of the items.
invoked ==
  ((SUBSET atomsOf(tree)) \ {{}})
    \cup IF view.tool = "Default" THEN {{x.atom : x \in view.selected}} ELSE {}

\* An atom that is not in the map is a null pointer, read before it is tested.
invokeMenu ==
  /\ hostAble /\ menu = NoMenu
  /\ \E ids \in invoked :
       IF ids \subseteq IdsOf(atoms)
       THEN menu' = possibleActions(ids) /\ UNCHANGED crashed
       ELSE crashed' = "menu" /\ UNCHANGED menu
  /\ UNCHANGED <<vars, hostAble, interfaceVars, itemVars, fileVars, slips>>

choose == menu.open /\ menu' = NoMenu

closeMenu ==
  choose /\ UNCHANGED <<vars, hostAble, interfaceVars, itemVars, fileVars, crashed, slips>>

moveAtomsToLayer ==
  /\ choose
  /\ \E layer \in menu.layers :
       propagate(alter(MetadataChangedPayload(menu.ids, [NoUpdate EXCEPT !["Layer"] = layer])))
  /\ UNCHANGED issued

\* Shown or hidden, locked or unlocked: of the parameters left out.
alterAtoms ==
  /\ choose /\ menu.ids # {}
  /\ propagate(alter(MetadataChangedPayload(menu.ids, NoUpdate)))
  /\ UNCHANGED issued

removeInvoked ==
  /\ choose /\ menu.ids # {}
  /\ propagate(alter(RemovedPayload(menu.ids)))
  /\ UNCHANGED issued

chooseTimeline ==
  /\ choose
  /\ \/ menu.somethingUndoable /\ invoke([op |-> "undo"])
     \/ menu.somethingRedoable /\ invoke([op |-> "redo"])

---------------------------------------------------------------------------
(* The interface *)

\* integrateGraphicsItemAsPayload
draw ==
  /\ hostAble
  /\ \E m \in additions : propagate(alter(AddedPayload(m))) /\ issued' = issued \cup IdsOf(m)

removeAtoms ==
  /\ hostAble
  /\ \E ids \in Selectable : propagate(alter(RemovedPayload(ids)))
  /\ UNCHANGED issued

\* AtomEditor::_emitPayload
edit ==
  /\ hostAble
  /\ edited # {}
  /\ \E u \in UpdateChoices : propagate(alter(MetadataChangedPayload(edited, u)))
  /\ UNCHANGED issued

\* The menus and shortcuts of the map thread: undo, redo, open, save.
invokeUndo == hostAble /\ invoke([op |-> "undo"])
invokeRedo == hostAble /\ invoke([op |-> "redo"])
invokeSave == hostAble /\ invoke([op |-> "save"])

openFile ==
  /\ hostAble
  /\ PostLoad
  /\ mayCross(inbox'[Len(inbox')])
  /\ UNCHANGED <<hostAble, interfaceVars, itemVars, fileVars, crashed>>

\* Rows are selected in the tree; it tells after a while.
selectInTree ==
  /\ \E ids \in SUBSET atomsOf(tree) : propagate(select(ids))
  /\ UNCHANGED issued

\* Items are selected with the default tool, or none is.
selectInView ==
  /\ view.tool = "Default"
  /\ \E items \in SUBSET view.shown :
       /\ Post(select({x.atom : x \in items}))
       /\ handleInInterface(select({x.atom : x \in items}))
       /\ mayCross(select({x.atom : x \in items}))
       /\ view' = [view EXCEPT !.selected = items]
  /\ UNCHANGED <<issued, hostAble, deskInbox, stored, itemVars, fileVars>>

viewChanges(newView) ==
  /\ view' = newView
  /\ UNCHANGED <<vars, hostAble, deskInbox, tree, edited, stored, itemVars, fileVars>>

startWalking ==
  /\ mayWalk(view)
  /\ viewChanges(changeTool(view, "Walking"))
  /\ UNCHANGED <<crashed, slips>>

\* The items unselected by a change of tool are told to all: none is selected.
toolChanges(newView) ==
  /\ view' = newView
  /\ IF view.selected = {} \/ newView.selected # {}
     THEN UNCHANGED <<inbox, edited>>
     ELSE inbox' = Append(inbox, select({})) /\ edited' = {}
  /\ UNCHANGED <<mapVars, historyVars, duplicationVars, issued, posted, hostAble, tree,
                 stored, itemVars, fileVars, slips>>

\* Escape, or a right click.
resetTool ==
  /\ view.tool # "Default"
  /\ toolChanges(changeTool(view, "Default"))
  /\ UNCHANGED <<deskInbox, crashed>>

\* The helper paints the way of its items, then tells where they go.
walk ==
  /\ view.tool = "Walking"
  /\ IF view.helper \subseteq Alive
     THEN propagate(alter(moves({x.atom : x \in view.helper}))) /\ UNCHANGED issued
     ELSE viewChanges(view) /\ crashed' = "walk" /\ UNCHANGED slips

\* Items of the host that are no tokens are dragged; mightNotifyMovement looks
\* for them in the map.
drag ==
  /\ hostAble
  /\ view.tool = "Default"
  /\ LET ids == {x.atom : x \in {x \in view.selected : ~x.token}} \cap IdsOf(atoms)
     IN ids # {} /\ propagate(alter(moves(ids)))
  /\ UNCHANGED issued

\* ToysTreeView::_onReceivedAsset
storeAsset ==
  /\ \E h \in Assets \ stored :
       /\ Post([op |-> "asset", hash |-> h])
       /\ stored' = stored \cup {h}
  /\ UNCHANGED <<issued, hostAble, deskInbox, tree, edited, view, itemVars, fileVars,
                 crashed, slips>>

---------------------------------------------------------------------------
(* The network *)

\* A player moves a token on the map of the host.
receiveMove ==
  /\ hostAble
  /\ \E i \in {i \in IdsOf(atoms) : isAtomOwnable(atoms[i])} : receive(moves({i}))
  /\ UNCHANGED issued

\* The host adds, removes, updates or resets what the player has.
receiveFromHost ==
  /\ ~hostAble
  /\ \/ \E m \in additions : receive(AddedPayload(m)) /\ issued' = issued \cup IdsOf(m)
     \/ /\ \/ \E i \in issued : receive(RemovedPayload({i}))
           \/ \E i \in issued, u \in UpdateChoices : receive(MetadataChangedPayload({i}, u))
           \/ receive(ResetPayload(InitialMap, HashesOf(InitialMap)))
        /\ UNCHANGED issued

\* The host's client has received the session.
receiveSession == hostAble /\ invoke([op |-> "session"])

---------------------------------------------------------------------------
(* The map thread *)

\* _atomAdded for each atom, then _basicAlterationDone: the view is told whether
\* tokens are owned before it is given them (and, by a reset, once more after).
addItems(p, itemsById, missing, ownedIds) ==
  LET added == IdsOf(p.atoms)
      items == {graphicsItem(i, p.atoms[i], built + 1) : i \in added}
      ownable == {i \in added : isAtomOwnable(p.atoms[i])}
      mine == {i \in ownable : owns(p.atoms[i].meta["CharacterId"])}
  IN /\ GItemsById' = [i \in AtomId |-> IF i \in added THEN graphicsItem(i, p.atoms[i], built + 1)
                                         ELSE itemsById[i]]
     /\ missingAssets' = missing \cup {x \in items : isPlaceholder(x)}
     /\ ownedTokenIds' = (ownedIds \ ownable) \cup mine
     /\ built' = built + 1
     /\ deskInbox' = Append(deskInbox, scene(p.type, items, ownedOf(items, mine), {}))
     /\ UNCHANGED slips

\* Mutant: the items of the map before stay known.
resetItemsKeeping(p) == addItems(p, GItemsById, missingAssets, ownedTokenIds)

resetItems(p) == addItems(p, [i \in AtomId |-> NoGI], {}, {})

stillOwned(removed) == ownedTokenIds \ removed

\* What is missing is not looked at: a placeholder may stay there.
removeItems(p) ==
  LET removed == p.ids \cap IdsOf(atoms) IN
  /\ GItemsById' = [i \in AtomId |-> IF i \in removed THEN NoGI ELSE GItemsById[i]]
  /\ ownedTokenIds' = stillOwned(removed)
  /\ deskInbox' = Append(deskInbox,
       scene("Removed", {GItemsById[i] : i \in removed} \ {NoGI}, {}, {}))
  /\ slips' = IF {GItemsById[i] : i \in removed} \cap missingAssets = {} THEN slips
              ELSE slips \cup {"forgetting"}
  /\ UNCHANGED <<missingAssets, built>>

\* _syncAtom, then _updatesDone: an owner that changes is told first. A bulk
\* update tells the view of all the ids it names, known or not.
updateItems(p) ==
  LET updated == IF p.type = "MetadataChanged" THEN p.ids \cap IdsOf(atoms) ELSE namedAtoms(p)
      moved == {i \in updated : p.updates[i]["Position"] # Keep}
      newOwner(i) == p.updates[i]["CharacterId"]
      bound(i) == IF ownableAtomIdsByOwner[i] = NoEntry THEN 0 ELSE ownableAtomIdsByOwner[i]
      changed == {i \in updated \cap IdsOf(atoms) :
                    /\ newOwner(i) # Keep /\ newOwner(i) # bound(i)
                    /\ GItemsById[i] # NoGI}
      mine == {i \in changed : owns(newOwner(i))}
      items(ids) == {GItemsById[i] : i \in ids}
      told(ids, owned) == IF ids = {} THEN <<>> ELSE <<ownership(items(ids), owned)>>
  IN /\ ownedTokenIds' = (ownedTokenIds \ changed) \cup mine
     /\ deskInbox' = deskInbox \o told(mine, TRUE) \o told(changed \ mine, FALSE)
                       \o <<update(items(updated), items(moved))>>
     /\ UNCHANGED <<GItemsById, missingAssets, built, slips>>

sceneFollows(p) ==
  CASE p.type = "Reset" -> resetItems(p)
    [] p.type = "Added" -> addItems(p, GItemsById, missingAssets, ownedTokenIds)
    [] p.type = "Removed" -> removeItems(p)
    [] OTHER -> updateItems(p)

\* Mutant: what undo and redo do is no change.
shouldMakeMapDirtyOnce(p) == hostAble /\ p.type # "Reset" /\ ~p.timeline

\* A reset is a map just loaded, as that of new parameters is left out.
shouldMakeMapDirty(p) == hostAble /\ p.type # "Reset"

handleAlteration ==
  /\ HandleAlteration
  /\ LET p == Head(inbox).payload IN
       /\ sceneFollows(p)
       /\ dirty' = (dirty \/ shouldMakeMapDirty(p))
  /\ UNCHANGED <<hostAble, tree, edited, view, stored, saved, crashed>>

\* What the map thread emits is also queued for the interface.
emitted ==
  /\ deskInbox' = IF Len(inbox') = Len(inbox) THEN Append(deskInbox, inbox'[Len(inbox')]) ELSE deskInbox
  /\ UNCHANGED <<hostAble, tree, edited, view, stored, itemVars, crashed, slips>>

handleUndo == undo /\ emitted /\ UNCHANGED fileVars
handleRedo == redo /\ emitted /\ UNCHANGED fileVars

handleLoad ==
  /\ loadRPZMap
  /\ emitted
  /\ saved' = Head(inbox).payload.atoms
  /\ dirty' = FALSE

\* A handler of the map thread that leaves the map as it is.
handleHead(op) ==
  /\ inbox # <<>>
  /\ Head(inbox).op = op
  /\ inbox' = Tail(inbox)
  /\ UNCHANGED <<mapVars, historyVars, duplicationVars, issued, posted>>

\* A reset of the map waits for its turn.
ResetUnderway ==
  \E n \in DOMAIN inbox : inbox[n].op = "alter" /\ inbox[n].payload.type = "Reset"

\* A map that is loaded, and altered before its reset, is saved as it is.
handleSave ==
  /\ handleHead("save")
  /\ saved' = atoms
  /\ dirty' = FALSE
  /\ slips' = IF ResetUnderway THEN slips \cup {"saving"} ELSE slips
  /\ UNCHANGED <<hostAble, interfaceVars, itemVars, crashed>>

\* A session begins: the host's map is taken for clean.
ackRemoteness ==
  /\ handleHead("session")
  /\ dirty' = FALSE
  /\ slips' = IF dirty THEN slips \cup {"session"} ELSE slips
  /\ UNCHANGED <<hostAble, interfaceVars, itemVars, saved, crashed>>

handleSelect ==
  /\ handleHead("select")
  /\ deskInbox' = Append(deskInbox,
       scene("Selected", {GItemsById[i] : i \in Head(inbox).ids \cap IdsOf(atoms)}, {}, {}))
  /\ UNCHANGED <<hostAble, tree, edited, view, stored, itemVars, fileVars, crashed, slips>>

\* Mutant: the placeholders are left in the table of items.
replaceUnbound(i, x) == GItemsById[i]
replaceBound(i, x) == x

\* _replaceMissingAssetPlaceholders: the atom is read from the placeholder,
\* which may have been deleted. Of the placeholders of one atom, the last that is
\* met is replaced.
handleAsset ==
  /\ handleHead("asset")
  /\ LET placeholders == {x \in missingAssets : x.asset = Head(inbox).hash}
         ids == {x.atom : x \in placeholders} \cap IdsOf(atoms)
         item(i) == graphicsItem(i, atoms[i], built + 1)
         items == {item(i) : i \in ids}
     IN \/ placeholders = {} /\ UNCHANGED <<deskInbox, itemVars, crashed>>
        \/ /\ ~(placeholders \subseteq Alive)
           /\ crashed' = "placeholder"
           /\ UNCHANGED <<deskInbox, itemVars>>
        \/ /\ placeholders # {} /\ placeholders \subseteq Alive
           /\ GItemsById' = [i \in AtomId |->
                               IF i \in ids THEN replaceBound(i, item(i)) ELSE GItemsById[i]]
           /\ missingAssets' = missingAssets \ placeholders
           /\ built' = built + 1
           /\ \E last \in [ids -> placeholders] :
                /\ \A i \in ids : last[i].atom = i
                /\ deskInbox' = Append(deskInbox,
                     scene("Replaced", items, ownedOf(items, ownedTokenIds),
                           {last[i] : i \in ids}))
           /\ UNCHANGED <<ownedTokenIds, crashed>>
  /\ UNCHANGED <<hostAble, tree, edited, view, stored, fileVars, slips>>

---------------------------------------------------------------------------
(* The interface's queue *)

\* The next event of the interface's queue.
dequeue(op) ==
  /\ deskInbox # <<>>
  /\ Head(deskInbox).op = op
  /\ deskInbox' = Tail(deskInbox)

\* An alteration made elsewhere reaches the tree and the editor.
handlePropagated ==
  /\ dequeue("alter")
  /\ handleInInterface(Head(deskInbox))
  /\ UNCHANGED <<vars, hostAble, view, stored, itemVars, fileVars, slips>>

\* Items that are walked, or could be, are deleted under the helper.
letsGo(items) == view.tool # "Walking" /\ view.helper \cap items # {}

requested(request) ==
  CASE request.type = "Reset" -> onReset(request.items, request.owned)
    [] request.type = "Added" -> onAdded(view, request.items, request.owned)
    [] request.type = "Replaced" ->
         onReplaced(view, request.items, request.owned, request.toReplace)
    [] request.type = "Removed" -> onRemoved(view, request.items)
    [] OTHER -> onSelected(view, request.items)

\* _onUIAlterationRequest: what an item that is not there makes of a request.
misses(request) ==
  IF request.type = "Selected" /\ NoGI \in request.items THEN "view"
  ELSE IF \/ request.type \in {"Selected", "Removed"} /\ ~(request.items \subseteq view.shown)
          \/ ~(request.toReplace \subseteq view.shown)
       THEN "item" ELSE "no"

onUIAlterationRequest ==
  /\ dequeue("scene")
  /\ LET request == Head(deskInbox) IN
       /\ crashed' = misses(request)
       /\ view' = IF misses(request) = "no" THEN requested(request) ELSE view
       /\ slips' = IF request.type = "Removed" /\ letsGo(request.items)
                   THEN slips \cup {"letting go"} ELSE slips
  /\ UNCHANGED <<vars, hostAble, tree, edited, stored, itemVars, fileVars>>

\* An item that is none survives its update; the fog, asked about one that
\* moved, does not.
onUIUpdateRequest ==
  /\ dequeue("update")
  /\ LET request == Head(deskInbox) IN
       crashed' = IF NoGI \in request.moved THEN "view"
                  ELSE IF request.items \ {NoGI} \subseteq view.shown THEN "no" ELSE "item"
  /\ UNCHANGED <<vars, hostAble, tree, edited, view, stored, itemVars, fileVars, slips>>

\* _onOwnershipChanged: a token that is walked and taken back changes the tool.
handleOwnership ==
  /\ dequeue("ownership")
  /\ LET told == Head(deskInbox) IN
       /\ crashed' = IF told.items \subseteq view.shown THEN "no" ELSE "item"
       /\ toolChanges(onOwnershipChanged(view, tokensOf(told.items), told.owned))

\* What the user does with no menu in the way.
gesturesNext ==
  \/ draw \/ removeAtoms \/ edit \/ invokeUndo \/ invokeRedo \/ invokeSave \/ openFile
  \/ selectInTree \/ selectInView \/ startWalking \/ resetTool \/ walk \/ drag

menuNext ==
  \/ invokeMenu \/ closeMenu \/ moveAtomsToLayer \/ alterAtoms \/ removeInvoked
  \/ chooseTimeline

interfaceQueueNext ==
  \/ handlePropagated \/ onUIAlterationRequest \/ onUIUpdateRequest \/ handleOwnership
  \/ storeAsset

mapThreadNext ==
  \/ handleAlteration \/ handleUndo \/ handleRedo \/ handleLoad \/ handleSave \/ ackRemoteness
  \/ handleSelect \/ handleAsset

\* Nothing happens after a crash.
DeskNext ==
  \/ crashed = "no" /\ menu = NoMenu /\ gesturesNext /\ UNCHANGED menu
  \/ crashed = "no" /\ menuNext
  \/ crashed = "no" /\ interfaceQueueNext /\ UNCHANGED menu
  \/ crashed = "no" /\ (receiveMove \/ receiveFromHost \/ receiveSession) /\ UNCHANGED menu
  \/ crashed = "no" /\ mapThreadNext /\ UNCHANGED menu

DeskSpec == DeskInit /\ [][DeskNext]_<<vars, deskVars>>

---------------------------------------------------------------------------
(* Properties *)

\* The tree is told of an alteration at once and the map later, or both are by
\* the map thread: once both have it, and unless two alterations of the same
\* atoms crossed, the tree has the rows and the categories of the map.
TreeShowsMap ==
  (/\ inbox = <<>> /\ crashed = "no" /\ "crossing" \notin slips
   /\ \A n \in DOMAIN deskInbox : deskInbox[n].op # "alter")
  => tree = treeOf(atoms)

\* A pointer to an item that was deleted is followed for two reasons only: it is
\* a placeholder that was removed before its asset came, or the walking helper
\* points at it.
LostItemsHaveCauses ==
  /\ crashed \in {"item", "placeholder"} => "forgetting" \in slips
  /\ crashed = "walk" => "letting go" \in slips

\* A pointer to nothing is followed for three more: by the tree, or by the view
\* for an atom that has no item, when alterations of the same atoms crossed; to
\* an atom that the menu is asked about, when the tree or the view and the map
\* have not both heard of what was done.
CrashesHaveCauses ==
  /\ LostItemsHaveCauses
  /\ crashed \in {"tree", "view"} => "crossing" \in slips
  /\ crashed = "menu" => "crossing" \in slips \/ inbox # <<>> \/ deskInbox # <<>>

\* Once all is handled the scene has the item of each atom, a placeholder only
\* for those whose asset is missing, and its tokens know whether they are the
\* user's: whatever the order in which atoms, owners and assets came.
SceneShowsMap ==
  (inbox = <<>> /\ deskInbox = <<>> /\ crashed = "no" /\ "crossing" \notin slips)
  => /\ view.shown = {GItemsById[i] : i \in IdsOf(atoms)}
     /\ \A i \in IdsOf(atoms) :
          LET x == GItemsById[i] IN
            /\ x # NoGI
            /\ isPlaceholder(x) <=> isMissing(atoms[i])
            /\ x \in view.owned <=> x.token /\ owns(atoms[i].meta["CharacterId"])

\* The items that the tool in hand walks are in the scene, whoever removes or
\* takes them while they are walked, unless some were deleted under the helper
\* while another tool was in hand.
WalkedItemsExist ==
  (view.tool = "Walking" /\ "letting go" \notin slips)
  => view.helper # {} /\ view.helper \subseteq view.shown

\* The state is well typed, and whatever names an item names one that is there:
\* selection, ownership, the table of items by atom, the walk.
ItemsNamedExist == DeskTypeOK /\ WalkedItemsExist

\* A map that is told to have no changes is the one in its file, through undos,
\* redos, loads and saves, unless it was saved with a reset underway or a session
\* began before it was saved.
DirtyTellsUnsaved ==
  (hostAble /\ ~dirty /\ ~ResetUnderway /\ slips \cap {"saving", "session"} = {}) => saved = atoms
=============================================================================
