----------------------------- MODULE MCMapTools ------------------------------
(***************************************************************************)
(* Model checking of the tools that draw on the map. A user takes one of   *)
(* them: toys (AtomDrawing), the fog (MapFog) or the pencil of the quick   *)
(* drawings (QuickDrawings); what leaving one for another does is part of  *)
(* each.                                                                   *)
(***************************************************************************)
EXTENDS AtomDrawing

CONSTANTS
  brush, object,
  Width, StoredFog, StoredPlace, Painted, MaxActs,
  User, Drawers, RateFloor, MaxDrawings, MaxPoints, MaxComings

VARIABLES
  drawsWith,
  fogMap, fogItems, item, hand, fogMapInbox, fogUiInbox, gesture, meant, slips, acts, fogLoads,
  fogCrashed,
  assist, drawings, toServer, inbox, drawn, shown, missed, comings, quickCrashed

fogVars == <<fogMap, fogItems, item, hand, fogMapInbox, fogUiInbox, gesture, meant, slips, acts,
             fogLoads, fogCrashed>>
quickVars == <<assist, drawings, toServer, inbox, drawn, shown, missed, comings, quickCrashed>>

Fog == INSTANCE MapFog WITH
  map <- fogMap, mapInbox <- fogMapInbox, uiInbox <- fogUiInbox, loads <- fogLoads,
  crashed <- fogCrashed

Quick == INSTANCE QuickDrawings WITH crashed <- quickCrashed

ASSUME Fog!FogAssumption /\ Quick!QuickAssumption

MCTypeOf == [t \in Toy |-> IF t = brush THEN "Brush" ELSE "Object"]

ToolsInit ==
  /\ drawsWith \in {"toys", "fog", "pencil"}
  /\ Init /\ Fog!Init /\ Quick!Init
  \* The tools that are not taken stay in one state
  /\ drawsWith # "toys" => hint.brush = "Stamp"
  /\ drawsWith # "pencil" => \A u \in User : ~assist[u].client

ToolsNext ==
  /\ UNCHANGED drawsWith
  /\ \/ drawsWith = "toys" /\ Next /\ UNCHANGED fogVars /\ UNCHANGED quickVars
     \/ drawsWith = "fog" /\ Fog!Next /\ UNCHANGED vars /\ UNCHANGED quickVars
     \/ drawsWith = "pencil" /\ Quick!Next /\ UNCHANGED vars /\ UNCHANGED fogVars

ToolsSpec == ToolsInit /\ [][ToolsNext]_<<drawsWith, vars, fogVars, quickVars>>

(* What is drawn with a toy becomes one atom, and leaves nothing behind in the view *)
(* (AtomDrawing).                                                                     *)
DrawnOnce == StrokesBecomeAtoms /\ NoDrawingLeftBehind

(* The tool and the ghost under the mouse are those of the toy selected              *)
(* (AtomDrawing).                                                                     *)
ToolAndGhostFollowToy == ToolFollowsToy /\ GhostsAlive

(* An item stands where the map says, and is told covered when the fog is there      *)
(* (MapFog).                                                                          *)
ItemsFollowMapAndFog == Fog!ItemStandsInPlace /\ Fog!FogCoversItem

(* The fog that was painted is the one of the map, and the one on show (MapFog).     *)
FogIsThePainted == Fog!FogAsPainted /\ Fog!FogShown

(* Quick drawings are seen by the others, point by point, and vanish                 *)
(* (QuickDrawings).                                                                   *)
DrawingsSeenThenGone == Quick!DrawingsSeen /\ Quick!DrawingsVanish
=============================================================================
