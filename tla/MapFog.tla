------------------------------- MODULE MapFog -------------------------------
(***************************************************************************)
(* The fog of war on the host's own machine: what the user paints on the   *)
(* item of the fog (MapViewFog), the fog that the map keeps (MapDatabase), *)
(* and an item of the map that the fog may cover while it is dragged or    *)
(* animated from a place to another (MapViewAnimator).                     *)
(*                                                                         *)
(* Places and shapes are sets of cells; an animated item goes through the  *)
(* cells in between, one tick at a time. The map thread and the interface  *)
(* have one event queue each. The item of the fog is made in the map       *)
(* thread, at a reset, and used by the interface from then on.             *)
(***************************************************************************)
EXTENDS Integers, Sequences, FiniteSets

CONSTANTS
  Width,      \* cells are 1..Width
  StoredFog,  \* the fog in the file of the map
  StoredPlace, \* where the item stands in the file of the map
  Painted,    \* the cells that the user paints
  MaxActs     \* bound on what happens: gestures, moves by others, maps loaded

Cell == 1..Width

FogAssumption ==
  /\ Width \in Nat /\ StoredFog \subseteq Cell /\ StoredPlace \in Cell
  /\ Painted \subseteq Cell
  /\ MaxActs \in Nat

Mode == {"PathIsFog", "PathIsButFog"}
ChangeType == {"Added", "Removed"}
Button == {"left", "right"}
Nowhere == 0
Slip == {"returned", "retargeted", "under way", "preview", "crossed", "wiped", "fresh", "swapped"}

VARIABLES
  map,       \* MapDatabase: fog parameters, _fogBuffer, and the place of the item
  fogItems,  \* the items of the fog made so far: ViewMapHint::_fogItem is the last one
  item,      \* the item of the map, as shown
  hand,      \* the tool and the buttons of the mouse
  mapInbox,  \* event queue of the map thread
  uiInbox,   \* event queue of the interface
  gesture,   \* history variable: what the button that was pressed last means
  meant,     \* history variable: the fog that the gestures meant
  slips,     \* history variable: see Slip
  acts,      \* what happened so far
  loads,     \* maps loaded so far
  crashed    \* history variable: a deleted item was added to the scene

vars == <<map, fogItems, item, hand, mapInbox, uiInbox, gesture, meant, slips, acts, loads, crashed>>

fogNow == fogItems[Len(fogItems)]

TypeOK ==
  /\ map.fog \subseteq Cell /\ map.buffer \subseteq Cell
  /\ map.mode \in Mode /\ map.place \in Cell
  /\ \A i \in DOMAIN fogItems :
       /\ fogItems[i].fog \subseteq Cell /\ fogItems[i].drawn \subseteq Cell
       /\ fogItems[i].clip \subseteq Cell /\ fogItems[i].points \in 0..2
       /\ fogItems[i].mode \in Mode /\ fogItems[i].ope \in ChangeType
       /\ fogItems[i].state \in {"made", "shown", "deleted"}
  /\ item.place \in Cell /\ item.dest \in Cell \cup {Nowhere} /\ item.covered \in BOOLEAN
  /\ hand.paints \in BOOLEAN /\ hand.reversed \in BOOLEAN
  /\ hand.buttons \subseteq Button /\ hand.pressed \in BOOLEAN
  /\ slips \subseteq Slip

Quiet == mapInbox = <<>> /\ uiInbox = <<>>

---------------------------------------------------------------------------
(* MapViewFog *)

\* What is in the fog, of the shape that is painted
foggy(shape, mode) == IF mode = "PathIsFog" THEN shape ELSE Cell \ shape

\* _generateClipPath: the fog, and what is being drawn over it
generateClipPath(f) ==
  LET base == foggy(f.fog, f.mode)
      mustUnite == (f.ope = "Added") = (f.mode = "PathIsFog")
  IN [f EXCEPT !.clip = IF f.points = 0 THEN base
                        ELSE IF mustUnite THEN base \cup f.drawn ELSE base \ f.drawn]

\* The constructor; _drawnOpe is left as the memory has it
MapViewFog(shape, mode, memory) ==
  generateClipPath([fog |-> shape, mode |-> mode, drawn |-> {}, points |-> 0, ope |-> memory,
                    clip |-> {}, state |-> "made"])

\* What is deleted is told apart by its state alone
deletedFog == [MapViewFog({}, "PathIsFog", "Added") EXCEPT !.state = "deleted"]

\* initDrawing, and drawToPoint at the same place
initDrawing(f, type) == generateClipPath([f EXCEPT !.ope = type, !.drawn = {}, !.points = 1])

\* drawToPoint; more than three points make a drawing, told as 2
drawToPoint(f, c, many) ==
  generateClipPath([f EXCEPT !.drawn = @ \cup {c},
                             !.points = IF many \/ @ = 2 THEN 2 ELSE 1])

\* updateFog, once what is drawn is cleared
clearDrawing(f) == IF f.points = 0 THEN f ELSE generateClipPath([f EXCEPT !.drawn = {}, !.points = 0])

updateFog(f, shape) == generateClipPath([clearDrawing(f) EXCEPT !.fog = shape])

setFogMode(f, mode) == generateClipPath([f EXCEPT !.mode = mode])

\* _generateClipPathWithDiff: items are looked for where they are shown, and none
\* is found by an item of the fog that is in no scene
coveredAfterDiff(before, after) ==
  IF before.state # "shown" THEN item.covered
  ELSE LET then == item.place \in before.clip
           nowIs == item.place \in after.clip
       IN IF then = nowIs THEN item.covered ELSE nowIs

\* Mutant: where the item goes is not looked at.
coveredOnCheckHere(f, x) == x.place \in f.clip

\* visibilityChangeFromList: a moving item is tested where it goes
coveredOnCheck(f, x) == (IF x.dest = Nowhere THEN x.place ELSE x.dest) \in f.clip

---------------------------------------------------------------------------
(* MapViewAnimator *)

still == [runs |-> FALSE, at |-> Nowhere, end |-> Nowhere]

\* animateMove with _animateMove: an animation that runs is sent elsewhere, and the
\* destination noted on the item stays the first one
animateMove(x, place) ==
  IF x.place = place THEN x
  ELSE IF x.anim.runs THEN [x EXCEPT !.anim.at = x.place, !.anim.end = place]
  ELSE [x EXCEPT !.anim = [runs |-> TRUE, at |-> x.place, end |-> place], !.dest = place]

moveSlips(x, place) ==
  (IF x.place = place /\ x.anim.runs /\ x.anim.end # place THEN {"returned"} ELSE {})
    \cup (IF x.place # place /\ x.anim.runs /\ x.dest # place THEN {"retargeted"} ELSE {})

\* A tick of the animation, which sets the place on its own way; the last one ends it
Tick ==
  /\ item.anim.runs
  /\ LET at == IF item.anim.end > item.anim.at THEN item.anim.at + 1 ELSE item.anim.at - 1
     IN item' = IF at = item.anim.end
                THEN [item EXCEPT !.place = at, !.anim = still, !.dest = Nowhere]
                ELSE [item EXCEPT !.place = at, !.anim.at = at]
  /\ UNCHANGED <<map, fogItems, hand, mapInbox, uiInbox, gesture, meant, slips, acts, loads, crashed>>

---------------------------------------------------------------------------
(* The user, at the fog *)

queues(posts) ==
  /\ mapInbox' = mapInbox \o posts
  /\ UNCHANGED <<map, uiInbox, meant, loads, crashed>>

acted == acts < MaxActs /\ acts' = acts + 1

\* What only goes on or ends is not bounded
ends(posts) == queues(posts) /\ UNCHANGED acts

does(posts) == queues(posts) /\ acted

typeOf(button) == IF button = "left" THEN "Added" ELSE "Removed"

noGesture == [type |-> "Added", cells |-> {}, on |-> 0]

fogBecomes(f) == fogItems' = [fogItems EXCEPT ![Len(fogItems)] = f]

\* The fog is chosen in the toys box
TakeFog ==
  /\ ~hand.paints /\ hand.buttons = {}
  /\ hand' = [hand EXCEPT !.paints = TRUE]
  /\ ends(<<>>)
  /\ UNCHANGED <<fogItems, item, gesture, slips>>

\* mousePressEvent
Press(button) ==
  /\ hand.paints /\ button \notin hand.buttons
  /\ hand' = [hand EXCEPT !.buttons = @ \cup {button}, !.pressed = TRUE]
  /\ fogBecomes(initDrawing(fogNow, typeOf(button)))
  /\ gesture' = [type |-> typeOf(button), cells |-> {}, on |-> Len(fogItems)]
  /\ does(<<>>)
  /\ UNCHANGED <<item, slips>>

\* mouseMoveEvent; bounded to one cell a press
Draw(c, many) ==
  /\ hand.paints /\ hand.pressed /\ gesture.cells = {}
  /\ fogBecomes(drawToPoint(fogNow, c, many))
  /\ gesture' = [gesture EXCEPT !.cells = @ \cup {c}]
  /\ slips' = IF gesture.on # Len(fogItems) THEN slips \cup {"fresh"} ELSE slips
  /\ ends(<<>>)
  /\ UNCHANGED <<item, hand>>

\* mouseReleaseEvent: commitDrawing, of the type that the released button tells; the
\* right button lets go of the tool besides. What is drawn stays on the item.
Release(button) ==
  /\ hand.paints /\ button \in hand.buttons
  /\ hand' = [hand EXCEPT !.buttons = @ \ {button}, !.pressed = FALSE,
                          !.paints = button = "left"]
  /\ LET f == fogNow
         commits == f.points = 2
     IN /\ ends(IF commits THEN <<[type |-> "FogChanged", change |-> typeOf(button),
                                   cells |-> f.drawn, means |-> gesture]>>
                ELSE <<>>)
        /\ slips' = IF commits /\ typeOf(button) # gesture.type THEN slips \cup {"swapped"}
                    ELSE slips
  /\ gesture' = IF hand.buttons = {button} THEN noGesture ELSE gesture
  /\ UNCHANGED <<fogItems, item>>

\* A button pressed with the fog is released in another tool
ReleaseElsewhere ==
  /\ ~hand.paints /\ hand.buttons # {}
  /\ hand' = [hand EXCEPT !.buttons = {}, !.pressed = FALSE]
  /\ gesture' = noGesture
  /\ ends(<<>>)
  /\ UNCHANGED <<fogItems, item, slips>>

\* keyPressEvent
Escape ==
  /\ hand.paints
  /\ hand' = [hand EXCEPT !.paints = FALSE]
  /\ does(<<>>)
  /\ UNCHANGED <<fogItems, item, gesture, slips>>

\* _changeFogMode, by the box of the layout
ChangeFogMode ==
  /\ does(<<[type |-> "FogModeChanged",
             mode |-> IF hand.reversed THEN "PathIsFog" ELSE "PathIsButFog"]>>)
  /\ hand' = [hand EXCEPT !.reversed = ~@]
  /\ UNCHANGED <<fogItems, item, gesture, slips>>

\* _handleFogReset
ResetFog ==
  /\ does(<<[type |-> "FogChanged", change |-> "Reset", cells |-> {}, means |-> noGesture]>>)
  /\ UNCHANGED <<fogItems, item, hand, gesture, slips>>

---------------------------------------------------------------------------
(* The user, at the item, with the default tool *)

\* mightNotifyMovement: what stands elsewhere than the map says has moved
notifiesMovement(place) ==
  does(IF place = map.place THEN <<>> ELSE <<[type |-> "Moved", place |-> place]>>)

\* A drag, then the release; an animation goes on meanwhile
Drag(place) ==
  /\ ~hand.paints /\ hand.buttons = {}
  /\ place # item.place
  /\ item' = [item EXCEPT !.place = place]
  /\ notifiesMovement(place)
  /\ UNCHANGED <<fogItems, hand, gesture, slips>>

\* The item is caught in the selection without being dragged
RubberBand ==
  /\ ~hand.paints /\ hand.buttons = {}
  /\ item.place # map.place
  /\ notifiesMovement(item.place)
  /\ UNCHANGED <<fogItems, item, hand, gesture, slips>>

---------------------------------------------------------------------------
(* The map thread *)

handles(type) ==
  /\ mapInbox # <<>> /\ Head(mapInbox).type = type
  /\ mapInbox' = Tail(mapInbox)
  /\ UNCHANGED <<item, hand, gesture, slips, acts, loads, crashed>>

signals(signal) == uiInbox' = Append(uiInbox, signal)

\* Another user moves the item, or a move is undone
MoveByOther(place) ==
  /\ place # map.place
  /\ acted
  /\ mapInbox' = Append(mapInbox, [type |-> "Moved", place |-> place])
  /\ UNCHANGED <<map, fogItems, item, hand, uiInbox, gesture, meant, slips, loads, crashed>>

\* MapHint::loadRPZMap: the fog read is in the parameters, not in the buffer yet
Load ==
  /\ acted /\ loads' = loads + 1
  /\ map' = [fog |-> StoredFog, buffer |-> {}, mode |-> "PathIsFog", place |-> StoredPlace]
  /\ meant' = StoredFog
  /\ mapInbox' = Append(mapInbox, [type |-> "Reset"])
  /\ UNCHANGED <<fogItems, item, hand, uiInbox, gesture, slips, crashed>>

\* setFogParams, which fills the buffer; a new item of the fog is made
HandleReset ==
  /\ handles("Reset")
  /\ map' = [fog |-> StoredFog, buffer |-> StoredFog, mode |-> "PathIsFog", place |-> StoredPlace]
  /\ meant' = StoredFog
  /\ \E memory \in ChangeType :
       fogItems' = Append(fogItems, MapViewFog(StoredFog, "PathIsFog", memory))
  /\ signals([type |-> "Reset", place |-> StoredPlace])

altered(fog, type, cells) ==
  CASE type = "Added" -> fog \cup cells
    [] type = "Removed" -> fog \ cells
    [] OTHER -> {}

\* Mutant: the buffer is left behind.
alterFogUnbuffered(m, change, cells) == [m EXCEPT !.fog = altered(m.buffer, change, cells)]

\* MapDatabase::alterFog: the operation is done on the buffer
alterFog(m, change, cells) ==
  LET fog == altered(m.buffer, change, cells) IN [m EXCEPT !.fog = fog, !.buffer = fog]

HandleFogChanged ==
  /\ handles("FogChanged")
  /\ LET p == Head(mapInbox) IN
     /\ map' = alterFog(map, p.change, p.cells)
     /\ meant' = IF p.change = "Reset" THEN {} ELSE altered(meant, p.means.type, p.means.cells)
     /\ signals([type |-> "fogChanged", fog |-> alterFog(map, p.change, p.cells).fog,
                 of |-> Len(fogItems)])
  /\ UNCHANGED fogItems

HandleFogModeChanged ==
  /\ handles("FogModeChanged")
  /\ map' = [map EXCEPT !.mode = Head(mapInbox).mode]
  /\ signals([type |-> "fogModeChanged", mode |-> Head(mapInbox).mode, of |-> Len(fogItems)])
  /\ UNCHANGED <<fogItems, meant>>

HandleMoved ==
  /\ handles("Moved")
  /\ map' = [map EXCEPT !.place = Head(mapInbox).place]
  /\ signals([type |-> "moved", place |-> Head(mapInbox).place])
  /\ UNCHANGED <<fogItems, meant>>

---------------------------------------------------------------------------
(* What the interface hears of the map thread *)

hears(type) ==
  /\ uiInbox # <<>> /\ Head(uiInbox).type = type
  /\ uiInbox' = Tail(uiInbox)
  /\ UNCHANGED <<map, mapInbox, gesture, meant, acts, loads>>

diffSlips(of) ==
  (IF of # Len(fogItems) THEN {"crossed"} ELSE {})
    \cup (IF item.anim.runs THEN {"under way"} ELSE {})

\* _onFogChanged: what is drawn is cleared first, were it a new drawing
HearFogChanged ==
  /\ hears("fogChanged")
  /\ LET signal == Head(uiInbox)
         f == updateFog(fogNow, signal.fog)
     IN /\ fogBecomes(f)
        /\ item' = [item EXCEPT !.covered = coveredAfterDiff(clearDrawing(fogNow), f)]
        /\ slips' = slips \cup diffSlips(signal.of)
                     \cup (IF hand.pressed THEN {"wiped"} ELSE {})
  /\ UNCHANGED <<hand, crashed>>

\* _onFogModeChanged: what is drawn takes part in both shapes
HearFogModeChanged ==
  /\ hears("fogModeChanged")
  /\ LET signal == Head(uiInbox)
         f == setFogMode(fogNow, signal.mode)
     IN /\ fogBecomes(f)
        /\ item' = [item EXCEPT !.covered = coveredAfterDiff(fogNow, f)]
        /\ slips' = slips \cup diffSlips(signal.of)
                     \cup (IF fogNow.points # 0 THEN {"preview"} ELSE {})
  /\ UNCHANGED <<hand, crashed>>

\* _onUIUpdateRequest, of the position
HearMoved ==
  /\ hears("moved")
  /\ LET place == Head(uiInbox).place
         x == animateMove(item, place)
     IN /\ item' = [x EXCEPT !.covered = coveredOnCheck(fogNow, x)]
        /\ slips' = slips \cup moveSlips(item, place)
                     \cup (IF fogNow.points # 0 THEN {"preview"} ELSE {})
  /\ UNCHANGED <<fogItems, hand, crashed>>

\* _onUIAlterationRequest, Reset: the tool is reset, the scene cleared, and the
\* last item of the fog added, were it in the scene that was cleared
HearReset ==
  /\ hears("Reset")
  /\ hand' = [hand EXCEPT !.paints = FALSE, !.reversed = FALSE]
  /\ crashed' = (fogNow.state = "shown")
  /\ fogItems' = [i \in DOMAIN fogItems |->
       IF i = Len(fogItems) THEN [fogItems[i] EXCEPT !.state = "shown"]
       ELSE IF fogItems[i].state = "shown" THEN deletedFog
       ELSE fogItems[i]]
  /\ item' = [place |-> Head(uiInbox).place, anim |-> still, dest |-> Nowhere,
              covered |-> Head(uiInbox).place \in fogNow.clip]
  /\ slips' = IF fogNow.points # 0 THEN slips \cup {"preview"} ELSE slips

Init ==
  /\ map = [fog |-> StoredFog, buffer |-> StoredFog, mode |-> "PathIsFog", place |-> StoredPlace]
  /\ fogItems = <<[MapViewFog(StoredFog, "PathIsFog", "Added") EXCEPT !.state = "shown"]>>
  /\ item = [place |-> StoredPlace, anim |-> still, dest |-> Nowhere,
             covered |-> StoredPlace \in StoredFog]
  /\ hand = [paints |-> FALSE, buttons |-> {}, pressed |-> FALSE, reversed |-> FALSE]
  /\ mapInbox = <<>> /\ uiInbox = <<>>
  /\ gesture = noGesture
  /\ meant = StoredFog
  /\ slips = {}
  /\ acts = 0 /\ loads = 0
  /\ crashed = FALSE

Next ==
  /\ ~crashed
  /\ \/ Tick
     \/ TakeFog \/ Escape \/ ReleaseElsewhere \/ ChangeFogMode \/ ResetFog
     \/ \E button \in Button : Press(button) \/ Release(button)
     \/ \E c \in Painted : \E many \in BOOLEAN : Draw(c, many)
     \/ \E c \in Cell : Drag(c) \/ MoveByOther(c)
     \/ RubberBand
     \/ Load
     \/ HandleReset \/ HandleFogChanged \/ HandleFogModeChanged \/ HandleMoved
     \/ HearFogChanged \/ HearFogModeChanged \/ HearMoved \/ HearReset

Spec == Init /\ [][Next]_vars

---------------------------------------------------------------------------
(* Properties *)

Settled == Quiet /\ ~item.anim.runs /\ ~hand.pressed

(* Once all is handled and nothing moves, the item is told covered exactly when it    *)
(* stands in the fog of the map, unless it slipped: the fog changed while it moved,    *)
(* what was drawn and not cleared took part in a test (MapViewFog.hpp:297), its move   *)
(* was given another end than the one noted (MapViewAnimator.hpp:134) or was not, or   *)
(* the fog of a map that was replaced reached the item of the new one.                 *)
FogCoversItem ==
  Settled /\ slips \cap {"under way", "preview", "retargeted", "returned", "crossed"} = {}
    => item.covered = (map.place \in foggy(map.fog, map.mode))

(* Once all is handled and nothing moves, the item stands where the map says, unless  *)
(* a move back to where it was just passing was taken for done                        *)
(* (MapViewAnimator.hpp:68): a selection then never moves what nobody dragged, but     *)
(* for what is under way.                                                              *)
ItemStandsInPlace == Settled /\ "returned" \notin slips => item.place = map.place

(* The map keeps the fog that the gestures meant, in its parameters as in its buffer   *)
(* once it is no more being loaded, unless the drawing was wiped by the answer to the  *)
(* one before (MapViewFog.hpp:120), went on upon the fog of another map, or was ended   *)
(* by another button than it was begun with (MapView.cpp:705).                          *)
FogAsPainted ==
  /\ slips \cap {"wiped", "fresh", "swapped"} = {} /\ Quiet => map.fog = meant
  /\ map.fog = map.buffer \/ \E i \in DOMAIN mapInbox : mapInbox[i].type = "Reset"

(* Once all is handled the view shows one fog, that of the map, unless a change of a   *)
(* map that was replaced crossed the reset; and the item of the fog is in the scene:   *)
(* it is deleted under it only by a reset that follows another too closely.             *)
FogShown ==
  /\ Quiet /\ ~crashed =>
       /\ "crossed" \notin slips => fogNow.fog = map.fog /\ fogNow.mode = map.mode
       /\ \A i \in DOMAIN fogItems : fogItems[i].state = "shown" <=> i = Len(fogItems)
  /\ crashed => loads > 1
=============================================================================
