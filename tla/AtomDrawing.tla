---------------------------- MODULE AtomDrawing -----------------------------
(***************************************************************************)
(* Drawing on one's own map with what the toys box offers: MapView and its *)
(* AtomDrawingAssist in the interface's thread, the template atom, the     *)
(* ghost and the map itself in the map thread.                             *)
(*                                                                         *)
(* What the user draws is a temporary item of the view. Once finished it   *)
(* is queued for the map as an atom made of the template of the moment,    *)
(* and the temporary item is dropped when the atom comes back as an item   *)
(* of the scene; the user goes on drawing, changing tools and toys in the  *)
(* meantime. The interface and the map thread have one event queue each.   *)
(***************************************************************************)
EXTENDS Naturals, Sequences, FiniteSets

CONSTANTS
  Toy,       \* the invokable items of the toys box
  TypeOf,    \* RPZToy::atomType of each
  NoToy,     \* an empty RPZToy
  MaxInput,  \* bound on what the user does
  MaxLoads   \* bound on the maps loaded meanwhile

None == 0    \* no item, no stroke, no atom: a null pointer

ASSUME DrawingAssumption ==
  /\ NoToy \notin Toy
  /\ TypeOf \in [Toy -> {"Drawing", "Brush", "Object"}]
  /\ MaxInput \in Nat /\ MaxLoads \in Nat

BrushType == {"Stamp", "Cutter"}
MapTool == {"Default", "Atom", "Measure"}   \* Measure stands for any tool of the bar
Slip == {"recommitted", "retemplated", "crushed", "continued", "abandoned", "carried",
         "ghostless"}

VARIABLES
  view,      \* MapView, its AtomDrawingAssist, MapTools and ToysTreeView::_selectedToy
  hint,      \* ViewMapHint: template atom and toy, ghost
  map,       \* the atoms of the map and which map it is
  items,     \* ghosts that exist
  mapInbox,  \* event queue of the map thread
  uiInbox,   \* event queue of the interface
  strokes,   \* history variable: what the user drew, in order
  inputs,    \* what the user did so far
  loads,     \* maps loaded so far
  crashed    \* history variable: a null item was used

vars == <<view, hint, map, items, mapInbox, uiInbox, strokes, inputs, loads, crashed>>

TypeOK ==
  /\ view.tool \in MapTool /\ view.quickTool \in {"Default", "Scroll"}
  /\ view.tempDrawing \in 0..Len(strokes)
  /\ view.sticky \in BOOLEAN /\ view.pressed \in BOOLEAN /\ view.detour \in BOOLEAN
  /\ view.selectedToy \in Toy \cup {NoToy}
  /\ hint.toy \in Toy \cup {NoToy} /\ hint.brush \in BrushType
  /\ \A a \in map.atoms : a.stroke \in DOMAIN strokes /\ a.toy \in Toy
  /\ \A s \in DOMAIN strokes : strokes[s].slips \subseteq Slip
  /\ crashed \in BOOLEAN

Init ==
  /\ view = [tool |-> "Default", quickTool |-> "Default", pressed |-> FALSE,
             tempDrawing |-> None, commitedId |-> None, sticky |-> FALSE, lastId |-> None,
             selectedToy |-> NoToy, detour |-> FALSE, map |-> 0]
  /\ \E b \in BrushType :
       hint = [toy |-> NoToy, toyOfAtom |-> NoToy, brush |-> b, ghost |-> None]
  /\ map = [atoms |-> {}, number |-> 0]
  /\ items = {}
  /\ mapInbox = <<>> /\ uiInbox = <<>>
  /\ strokes = <<>>
  /\ inputs = 0 /\ loads = 0
  /\ crashed = FALSE

Quiet == mapInbox = <<>> /\ uiInbox = <<>>

---------------------------------------------------------------------------
(* What a handler of the interface does, as a step: the view, the strokes  *)
(* and what it queues for the map thread.                                  *)

now == [view |-> view, strokes |-> strokes, posts |-> <<>>]

Taken(s) ==
  /\ view' = s.view
  /\ strokes' = s.strokes
  /\ mapInbox' = mapInbox \o s.posts

slipped(s, stroke, causes) == [s EXCEPT !.strokes[stroke].slips = @ \cup causes]

\* Mutant: the map thread is not told.
clearUnnotified(s) == [s EXCEPT !.view.selectedToy = NoToy, !.view.detour = FALSE]

\* ToysTreeView::clearSelection, then selectionChanged: nothing when nothing was selected
clearSelectedToy(s) ==
  IF s.view.selectedToy = NoToy THEN s
  ELSE [s EXCEPT !.view.selectedToy = NoToy, !.view.detour = FALSE,
                 !.posts = Append(@, [type |-> "ToySelected", toy |-> NoToy])]

\* A Selected alteration: the toys box hears it at once
notifySelection(s) == clearSelectedToy(s)

\* ViewMapHint::integrateGraphicsItemAsPayload: an atom of the template of the moment
integrate(s, stroke) ==
  [s EXCEPT !.view.lastId = @ + 1,
            !.posts = Append(@, [type |-> "Added",
                                 atom |-> [id |-> s.view.lastId + 1, stroke |-> stroke,
                                           toy |-> hint.toyOfAtom]])]

commitSlips(s, stroke) ==
  (IF strokes[stroke].commited THEN {"recommitted"} ELSE {})
    \cup (IF hint.toyOfAtom # strokes[stroke].toy THEN {"retemplated"} ELSE {})

\* mayCommitDrawing: paths have two elements at least from the start, and
\* whether the drawing was commited before is not asked
mayCommitDrawing(s) ==
  LET temp == s.view.tempDrawing IN
  IF temp = None THEN s
  ELSE LET c == integrate(slipped(s, temp, commitSlips(s, temp)), temp) IN
       [c EXCEPT !.view.commitedId = c.view.lastId, !.strokes[temp].commited = TRUE]

\* AtomDrawingAssist::onMouseRelease
onMouseRelease(s) == IF s.view.sticky THEN s ELSE mayCommitDrawing(s)

\* _destroyTempDrawing, as far as the temporary drawing goes
destroyTempDrawing(s, cause) ==
  LET temp == s.view.tempDrawing IN
  IF temp = None THEN s
  ELSE LET c == IF s.strokes[temp].commited THEN s ELSE slipped(s, temp, {cause}) IN
       [c EXCEPT !.view.tempDrawing = None, !.view.sticky = FALSE]

\* clearDrawing
clearDrawing(s) == [destroyTempDrawing(s, "crushed") EXCEPT !.view.commitedId = None]

\* _beginDrawing
beginDrawing(s, sticky) ==
  [s EXCEPT !.strokes = Append(@, [toy |-> hint.toyOfAtom, map |-> view.map,
                                   commited |-> FALSE, slips |-> {}]),
            !.view.tempDrawing = Len(s.strokes) + 1, !.view.sticky = sticky]

currentTool(v) == IF v.quickTool = "Default" THEN v.tool ELSE v.quickTool

\* _changeTool, the host being able to use every tool. Clearing the selection of
\* the scene notifies it if there was any and the scene's signals are heard.
changeTool(s, newTool, notifies) ==
  LET c == mayCommitDrawing(s)
      n == IF notifies \/ (c.view.tool = "Atom" /\ newTool = "Default")
           THEN notifySelection(c) ELSE c IN
  [n EXCEPT !.view.tool = newTool,
            !.view.detour = @ \/ (newTool = "Measure" /\ n.view.selectedToy # NoToy)]

changeQuickTool(s, newTool) == [mayCommitDrawing(s) EXCEPT !.view.quickTool = newTool]

resetTool(s, notifies) ==
  changeTool([s EXCEPT !.view.quickTool = "Default"], "Default", notifies)

---------------------------------------------------------------------------
(* The user *)

does(s) ==
  /\ inputs < MaxInput /\ inputs' = inputs + 1
  /\ Taken(s)
  /\ UNCHANGED <<hint, map, items, uiInbox, loads>>

\* ToysTreeView::selectionChanged
SelectToy(t) ==
  /\ t # view.selectedToy
  /\ does(IF t = NoToy THEN clearSelectedToy(now)
          ELSE [now EXCEPT !.view.selectedToy = t,
                           !.posts = <<[type |-> "ToySelected", toy |-> t]>>])
  /\ UNCHANGED crashed

\* The editor of atoms: AtomTemplateChangedPayload with a type of brush
ChangeBrush(b) ==
  /\ b # hint.brush
  /\ does([now EXCEPT !.posts = <<[type |-> "AtomTemplateChanged", brush |-> b]>>])
  /\ UNCHANGED crashed

pressed(s) == [s EXCEPT !.view.pressed = TRUE]

templateType == TypeOf[hint.toyOfAtom]
drawsWithCutter == templateType = "Brush" /\ hint.brush = "Cutter"

presses(tool) ==
  ~view.pressed /\ currentTool(view) = tool

\* addDrawingPoint where no drawing goes on: an item is made from the template's
\* toy and its geometry is asked for, although there may be no toy any more
PressToDraw ==
  /\ presses("Atom") /\ hint.toyOfAtom # NoToy /\ templateType # "Object"
  /\ ~(drawsWithCutter /\ view.tempDrawing # None)
  /\ does(pressed(beginDrawing(destroyTempDrawing([now EXCEPT !.view.sticky = drawsWithCutter],
                                                  "abandoned"),
                               drawsWithCutter)))
  /\ crashed' = (hint.toy = NoToy)

\* addDrawingPoint with the cutter: one more node, the last one if it is near
\* the first. A drawing which is commited already gets it just the same.
PressNode(closes) ==
  /\ presses("Atom") /\ hint.toyOfAtom # NoToy
  /\ drawsWithCutter /\ view.tempDrawing # None
  /\ LET n == [now EXCEPT !.view.sticky = TRUE]
         s == IF strokes[view.tempDrawing].commited
              THEN slipped(n, view.tempDrawing, {"continued"}) ELSE n
     IN does(pressed(IF closes THEN mayCommitDrawing(s) ELSE s))
  /\ UNCHANGED crashed

\* Any other atom is a copy of the ghost, if there is one
PressToInsert ==
  /\ presses("Atom") /\ hint.toyOfAtom # NoToy /\ templateType = "Object"
  /\ LET n == Len(strokes) + 1
         slips == IF hint.ghost = None THEN {"ghostless"} ELSE {}
         s == [now EXCEPT !.strokes = Append(@, [toy |-> hint.toyOfAtom, map |-> view.map,
                                                 commited |-> TRUE, slips |-> slips])]
     IN does(pressed(IF hint.ghost = None THEN s ELSE integrate(s, n)))
  /\ UNCHANGED crashed

PressElsewhere ==
  /\ ~view.pressed /\ currentTool(view) # "Atom"
  /\ does(pressed(now))
  /\ UNCHANGED crashed

\* mouseReleaseEvent, left button; in the Default tool the selection may be notified
ReleaseLeft(notifies) ==
  /\ view.pressed
  /\ notifies => currentTool(view) = "Default"
  /\ LET s == onMouseRelease([now EXCEPT !.view.pressed = FALSE])
     IN does(IF notifies THEN notifySelection(s) ELSE s)
  /\ UNCHANGED crashed

\* mouseReleaseEvent, right button
ReleaseRight(notifies) ==
  /\ currentTool(view) # "Default"
  /\ does(changeTool(now, "Default", notifies))
  /\ UNCHANGED crashed

\* mousePressEvent, middle button
PressMiddle ==
  /\ does(changeQuickTool(now, IF view.quickTool = "Default" THEN "Scroll" ELSE "Default"))
  /\ UNCHANGED crashed

PressEscape(notifies) ==
  /\ does(resetTool(now, notifies))
  /\ UNCHANGED crashed

\* MapTools::_onToolSelectionChanged: a tool of the bar is checked or unchecked
ToggleToolOfBar(notifies) ==
  /\ does(changeTool(now, IF view.tool = "Measure" THEN "Default" ELSE "Measure", notifies))
  /\ UNCHANGED crashed

---------------------------------------------------------------------------
(* The map thread *)

handles(type) == mapInbox # <<>> /\ Head(mapInbox).type = type

resetIsQueued == \E i \in DOMAIN mapInbox : mapInbox[i].type = "Reset"

\* MapHint::loadRPZMap: the map is replaced at once; the reset is queued for the
\* map thread and for the interface, where the toys box listens
Load ==
  /\ loads < MaxLoads /\ loads' = loads + 1
  /\ map' = [atoms |-> {}, number |-> map.number + 1]
  /\ mapInbox' = Append(mapInbox, [type |-> "Reset", number |-> map.number + 1])
  /\ uiInbox' = Append(uiInbox, [type |-> "AlterationReset"])
  /\ UNCHANGED <<view, hint, items, strokes, inputs, crashed>>

\* Mutant: the atoms of the map before stay.
HandleResetOfGhost ==
  /\ handles("Reset")
  /\ hint' = [hint EXCEPT !.ghost = None]
  /\ mapInbox' = Tail(mapInbox)
  /\ uiInbox' = Append(uiInbox, [type |-> "Reset", number |-> Head(mapInbox).number])
  /\ UNCHANGED <<view, map, items, strokes, inputs, loads, crashed>>

\* The ghost is forgotten: clearing the scene deletes it
HandleReset ==
  /\ handles("Reset")
  /\ hint' = [hint EXCEPT !.ghost = None]
  /\ map' = [map EXCEPT !.atoms = {}]
  /\ mapInbox' = Tail(mapInbox)
  /\ uiInbox' = Append(uiInbox, [type |-> "Reset", number |-> Head(mapInbox).number])
  /\ UNCHANGED <<view, items, strokes, inputs, loads, crashed>>

HandleAdded ==
  /\ handles("Added")
  /\ LET a == Head(mapInbox).atom IN
     /\ map' = [map EXCEPT !.atoms = @ \cup {a}]
     /\ uiInbox' = Append(uiInbox, [type |-> "Added", id |-> a.id])
     /\ strokes' = IF strokes[a.stroke].map # map.number /\ ~resetIsQueued
                   THEN [strokes EXCEPT ![a.stroke].slips = @ \cup {"carried"}] ELSE strokes
  /\ mapInbox' = Tail(mapInbox)
  /\ UNCHANGED <<view, hint, items, inputs, loads, crashed>>

\* _generateGhostItem with _resetTemplate: an empty toy leaves the template atom as
\* it is. The item of the ghost before is signalled as removed.
HandleToySelected ==
  /\ handles("ToySelected")
  /\ LET toy == Head(mapInbox).toy
         ghost == IF toy = NoToy THEN None ELSE Cardinality(items) + 1
         removed == IF hint.ghost = None THEN <<>>
                    ELSE <<[type |-> "Removed", ghost |-> hint.ghost]>>
     IN /\ hint' = [hint EXCEPT !.toy = toy, !.ghost = ghost,
                                !.toyOfAtom = IF toy = NoToy THEN @ ELSE toy]
        /\ items' = IF ghost = None THEN items
                    ELSE items \cup {[ghost |-> ghost, state |-> "made"]}
        /\ uiInbox' = uiInbox \o removed \o <<[type |-> "ToySelected", ghost |-> ghost]>>
  /\ mapInbox' = Tail(mapInbox)
  /\ UNCHANGED <<view, map, strokes, inputs, loads, crashed>>

\* _updateTemplateAtom
HandleAtomTemplateChanged ==
  /\ handles("AtomTemplateChanged")
  /\ hint' = [hint EXCEPT !.brush = Head(mapInbox).brush]
  /\ mapInbox' = Tail(mapInbox)
  /\ UNCHANGED <<view, map, items, uiInbox, strokes, inputs, loads, crashed>>

---------------------------------------------------------------------------
(* What the interface hears of the map thread *)

hears(type, s) ==
  /\ uiInbox # <<>> /\ Head(uiInbox).type = type
  /\ uiInbox' = Tail(uiInbox)
  /\ Taken(s)
  /\ UNCHANGED <<hint, map, inputs, loads, crashed>>

inState(state, ghosts) ==
  {IF x.ghost \in ghosts THEN [x EXCEPT !.state = state] ELSE x : x \in items}

\* ToysTreeView::_handleAlterationRequest
HearAlterationReset ==
  /\ hears("AlterationReset", clearSelectedToy(now))
  /\ UNCHANGED items

\* _onUIAlterationRequest, Added: compareItemToCommitedDrawing
HearAdded ==
  /\ LET s == IF uiInbox # <<>> /\ Head(uiInbox).type = "Added"
                  /\ Head(uiInbox).id = view.commitedId
              THEN clearDrawing(now) ELSE now
     IN hears("Added", s)
  /\ UNCHANGED items

\* Reset: the tool is reset, which commits what is being drawn; then the scene is
\* cleared
HearReset ==
  /\ LET s == clearDrawing(resetTool(now, FALSE)) IN
     /\ hears("Reset", [s EXCEPT !.view.map = Head(uiInbox).number])
     /\ items' = inState("deleted", {x.ghost : x \in {y \in items : y.state = "shown"}})

\* Removed, of a ghost
HearRemoved ==
  /\ hears("Removed", now)
  /\ items' = inState("deleted", {Head(uiInbox).ghost})

\* ToySelected: the scene's signals are blocked
HearToySelected ==
  /\ LET ghost == Head(uiInbox).ghost
         newTool == IF ghost = None THEN "Default" ELSE "Atom"
     IN /\ hears("ToySelected", changeTool(now, newTool, FALSE))
        /\ items' = inState("shown", {ghost})

Next ==
  /\ ~crashed
  /\ \/ \E t \in Toy \cup {NoToy} : SelectToy(t)
     \/ \E b \in BrushType : ChangeBrush(b)
     \/ PressToDraw
     \/ \E closes \in BOOLEAN : PressNode(closes)
     \/ PressToInsert
     \/ PressElsewhere
     \/ PressMiddle
     \/ \E notifies \in BOOLEAN :
          \/ ReleaseLeft(notifies)
          \/ ReleaseRight(notifies)
          \/ PressEscape(notifies)
          \/ ToggleToolOfBar(notifies)
     \/ Load
     \/ HandleReset \/ HandleAdded \/ HandleToySelected \/ HandleAtomTemplateChanged
     \/ HearAlterationReset \/ HearAdded \/ HearReset \/ HearRemoved \/ HearToySelected

Spec == Init /\ [][Next]_vars

---------------------------------------------------------------------------
(* Properties *)

atomsOf(s) == {a \in map.atoms : a.stroke = s}

(* Once all is handled, what was drawn on the map that is shown is one atom of it,  *)
(* made of the toy it was drawn with, and what was drawn on an earlier map is not   *)
(* in this one; unless the drawing slipped in one of the ways told by Slip: it was   *)
(* commited again before it came back, made of a later template, dropped for the     *)
(* sake of another one (AtomDrawingAssist.hpp:85,:48), or carried to a new map by   *)
(* the reset of the tool (MapView.cpp:270).                                          *)
StrokesBecomeAtoms ==
  Quiet => \A s \in DOMAIN strokes :
    LET stroke == strokes[s] IN
    stroke.slips = {} /\ s # view.tempDrawing =>
      IF stroke.map = map.number
      THEN Cardinality(atomsOf(s)) = 1 /\ \A a \in atomsOf(s) : a.toy = stroke.toy
      ELSE atomsOf(s) = {}

(* A temporary drawing does not outlive its atom: once all is handled none that    *)
(* was commited is left in the view (compareItemToCommitedDrawing).                  *)
NoDrawingLeftBehind ==
  Quiet /\ view.tempDrawing # None => ~strokes[view.tempDrawing].commited

(* The tool that inserts atoms is at hand with no toy behind it only while the     *)
(* view has still to be told: a click in between draws with an item that could not  *)
(* be made (AtomDrawingAssist.hpp:149). Once all is handled the toys box, the        *)
(* template and the tool agree, but for a tool of the bar taken over a toy.          *)
ToolFollowsToy ==
  /\ view.tool = "Atom" /\ hint.toy = NoToy =>
       \E i \in DOMAIN uiInbox : uiInbox[i].type = "ToySelected" /\ uiInbox[i].ghost = None
  /\ Quiet =>
       /\ view.selectedToy = hint.toy
       /\ view.tool = "Atom" => hint.toy # NoToy
       /\ hint.toy # NoToy => view.tool = "Atom" \/ view.detour

(* The ghost is made in one thread and deleted in the other: neither the template   *)
(* nor a signal under way names one that is deleted, and once all is handled the     *)
(* scene shows the ghost of the template and no other (ViewMapHint.cpp:492).         *)
GhostsAlive ==
  LET live == {x.ghost : x \in {y \in items : y.state # "deleted"}} IN
  /\ hint.ghost # None => hint.ghost \in live
  /\ \A i \in DOMAIN uiInbox :
       uiInbox[i].type \in {"Removed", "ToySelected"} /\ uiInbox[i].ghost # None
         => uiInbox[i].ghost \in live
  /\ Quiet => live = {hint.ghost} \ {None}
=============================================================================
