---------------------------- MODULE MapDisplays -----------------------------
(***************************************************************************)
(* What the interface shows of a map: the layout tree (src/ui/mapLayout)   *)
(* and the view (MapView and WalkingHelper). All of it belongs to the      *)
(* interface's thread.                                                     *)
(*                                                                         *)
(* The tree has the atoms as rows below categories, one for each layer and *)
(* one for each interactive type: a function from the categories shown to  *)
(* the atoms below them. It is kept from the alterations alone and never   *)
(* looks at the map.                                                       *)
(*                                                                         *)
(* A view is a record of the graphics items shown, those selected, those   *)
(* the user owns, the tool in hand and the items that the walking helper   *)
(* points at, an empty helper being none; the operators tell what each     *)
(* request of the map thread, and each gesture of the user, makes of it.   *)
(***************************************************************************)
EXTENDS MapPayloads

---------------------------------------------------------------------------
(* The layout tree *)

EmptyTree == [c \in {} |-> {}]

\* The category of an atom and its sorter.
categoryOf(a) ==
  IF a.type = "Object" THEN <<"Layout", a.meta["Layer"]>> ELSE <<"Interactive", a.type>>

rowsOf(tree, c) == IF c \in DOMAIN tree THEN tree[c] ELSE {}

\* _atomsByAtomId
atomsOf(tree) == UNION {tree[c] : c \in DOMAIN tree}

\* A category is created with its first atom.
createAtoms(tree, m) ==
  [c \in DOMAIN tree \cup {categoryOf(m[i]) : i \in IdsOf(m)} |->
     rowsOf(tree, c) \cup {i \in IdsOf(m) : categoryOf(m[i]) = c}]

\* Mutant: a category stays when its last atom goes.
maybeRemoveNoCategory(tree, altered) == tree

\* Of the categories altered, those that are empty go.
maybeRemoveCategories(tree, altered) ==
  [c \in {c \in DOMAIN tree : c \in altered => tree[c] # {}} |-> tree[c]]

removeRows(tree, ids) ==
  maybeRemoveCategories([c \in DOMAIN tree |-> tree[c] \ ids],
                        {c \in DOMAIN tree : tree[c] \cap ids # {}})

\* Out of the old layers, into the new ones, which may be created; the layers
\* left empty go. Only atoms of a layer are given another one (canChangeLayer).
handleLayerMoves(tree, p) ==
  LET moved == {i \in atomsOf(tree) : p.updates[i]["Layer"] # Keep}
      newLayer(i) == <<"Layout", p.updates[i]["Layer"]>>
      altered == {newLayer(i) : i \in moved} \cup {c \in DOMAIN tree : tree[c] \cap moved # {}}
  IN maybeRemoveCategories(
       [c \in DOMAIN tree \cup altered |->
          (rowsOf(tree, c) \ moved) \cup {i \in moved : newLayer(i) = c}], altered)

\* The tree of a whole map.
treeOf(m) == createAtoms(EmptyTree, m)

\* The atoms that an alteration makes the tree look for.
namedAtoms(p) ==
  p.ids \cup {i \in AtomId : p.type = "BulkMetadataChanged" /\ p.updates[i] # NoUpdate}

\* The tree once an alteration is handled.
treeAfter(tree, p) ==
  CASE p.type = "Reset" -> treeOf(p.atoms)
    [] p.type = "Added" -> createAtoms(tree, p.atoms)
    [] p.type = "Removed" -> removeRows(tree, p.ids)
    [] OTHER -> handleLayerMoves(tree, p)

---------------------------------------------------------------------------
(* The view *)

\* Drawing, measuring and the tools held for the time of a click are left out.
MapTool == {"Default", "Walking"}

EmptyView(items, owned) ==
  [shown |-> items, selected |-> {}, owned |-> owned, tool |-> "Default", helper |-> {}]

\* Any tool but walking unselects, and destroys the walking helper.
changeTool(view, newTool) ==
  IF newTool = "Walking" THEN [view EXCEPT !.tool = newTool]
  ELSE [view EXCEPT !.tool = newTool, !.selected = {}, !.helper = {}]

\* The items leave the scene; a helper that points at them is not told.
deleted(view, items) ==
  [view EXCEPT !.shown = @ \ items, !.selected = @ \ items, !.owned = @ \ items]

onReset(items, owned) == EmptyView(items, owned)

onAdded(view, items, owned) ==
  [view EXCEPT !.shown = @ \cup items, !.owned = @ \cup owned]

onReplaced(view, items, owned, toReplace) ==
  deleted(onAdded(view, items, owned), toReplace)

\* Mutant: the tool stays in hand.
onRemovedWalking(view, items) == deleted(view, items)

\* An item that is being walked takes the tool with it.
onRemoved(view, items) ==
  IF view.helper \cap items # {} /\ view.tool = "Walking"
  THEN deleted(changeTool(view, "Default"), items)
  ELSE deleted(view, items)

isWalkable(view, items) == items # {} /\ items \subseteq view.owned

\* A new helper for items that may all be walked. Otherwise the helper stays,
\* unless it is in use.
onSelected(view, items) ==
  LET selecting == [view EXCEPT !.selected = items] IN
  IF isWalkable(view, items) THEN [selecting EXCEPT !.helper = items]
  ELSE IF view.tool = "Walking" THEN changeTool(selecting, "Default")
  ELSE selecting

\* Only tokens are told whether they are owned.
onOwnershipChanged(view, tokens, owned) ==
  LET told == [view EXCEPT !.owned = IF owned THEN @ \cup tokens ELSE @ \ tokens] IN
  IF ~owned /\ view.helper \cap tokens # {} THEN changeTool(told, "Default") ELSE told

\* A press on an item, some being selected, starts to walk.
mayWalk(view) == view.tool = "Default" /\ view.helper # {} /\ view.selected # {}
=============================================================================
