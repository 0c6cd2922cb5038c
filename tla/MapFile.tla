------------------------------ MODULE MapFile -------------------------------
(***************************************************************************)
(* Maps in their files: what the program does to a map as it is created,   *)
(* loaded, saved and saved elsewhere, as the server leaves a snapshot of   *)
(* it, and as files of other versions are opened. A map is a set of        *)
(* brushes; the styles of brushes were numbered otherwise before version 7 *)
(* and the outlines of some were not reduced before version 9.             *)
(***************************************************************************)
EXTENDS JSONDatabase

CONSTANTS
  Path,         \* the files of maps
  StartPath,    \* the one that there is at first
  StartFiles,   \* what it may hold
  MaxMapActs    \* bound: what the user does, and the program's stops

FileAssumption == MaxMapActs \in Nat /\ StartPath \in Path

VARIABLES
  disks,      \* the file of each path, with its copies
  mapFile,    \* the map of the program
  mapActs,    \* how many acts the user has made
  held,       \* history: the brushes that a save or an opening put in a file
  misread,    \* history: the brushes read from a document without a version
  dropped     \* history: the brushes that someone chose to lose, or a stop cut

fileVars == <<disks, mapFile, mapActs, held, misread, dropped>>

apiVersion == 9
UpdateHandlers == {7, 8, 9}

\* Some of the styles, by their number.
Rectangle == 2
RoundBrush == 4
Scissors == 6
typesToFix == {RoundBrush, Scissors}

\* drawnAs is history: the style that the brush was drawn with.
brush(id, style, reduced) == [id |-> id, style |-> style, reduced |-> reduced, drawnAs |-> style]
styleIn(version, b) == IF version < 7 THEN b.drawnAs - 1 ELSE b.drawnAs

\* A document written by a program of another version.
writtenBy(version, brushes) ==
  saveAsFile(version, {[b EXCEPT !.style = styleIn(version, b)] : b \in brushes})

updateBrush(version, b) ==
  CASE version = 7 -> [b EXCEPT !.style = @ + 1]
    [] version = 8 -> b
    [] version = 9 -> IF b.style \in typesToFix THEN [b EXCEPT !.reduced = TRUE] ELSE b

updateMap(version, content) == {updateBrush(version, b) : b \in content}

changeSourceFile(map, p) == [map EXCEPT !.path = p]

IdsIn(content) == {b.id : b \in content}
IdsOn(file) == IF file.kind = "json" THEN IdsIn(file.content) ELSE {}
IdsAt(disk) == UNION {IdsOn(disk[f]) : f \in DOMAIN disk}

NoMap == [path |-> "none", version |-> NoVersion, content |-> {}]
running == mapFile # NoMap

userActs == mapActs < MaxMapActs /\ mapActs' = mapActs + 1

---------------------------------------------------------------------------
(* loadRPZMap, to which creating a map comes down.                          *)

\* _handleVersionMissmatch: each handler on the result of the one before
updated(file) ==
  FoldLeft(LAMBDA done, v : updateMap(v, done), file.content,
           SetToSortSeq(toApply(UpdateHandlers, file.version, apiVersion), <))

opening(p) ==
  initDatabaseFromJSONFile(disks[p], apiVersion, UpdateHandlers, updated(disks[p].file), {})

isVersionless(file) == file.kind = "json" /\ file.version = NoVersion

loadRPZMap(p) ==
  /\ userActs
  /\ mapFile' = [path |-> p, version |-> opening(p).version, content |-> opening(p).content]
  /\ disks' = [disks EXCEPT ![p] = opening(p).disk]
  /\ held' = held \cup IdsOn(disks[p].file)
  \* A document without a version takes the place of the last old copy
  /\ IF isVersionless(disks[p].file)
     THEN /\ misread' = misread \cup IdsOn(disks[p].file)
          /\ dropped' = dropped \cup IdsOn(disks[p].oldVersion)
     ELSE UNCHANGED <<misread, dropped>>

\* The program stops while it loads, before or between two writes.
StopWhileLoading(p) ==
  /\ userActs
  /\ \E disk \in openingCutShort(disks[p], opening(p).disk) : disks' = [disks EXCEPT ![p] = disk]
  /\ mapFile' = NoMap
  /\ held' = held \cup IdsOn(disks[p].file)
  /\ IF isVersionless(disks[p].file)
     THEN /\ misread' = misread \cup IdsOn(disks[p].file)
          /\ dropped' = dropped \cup IdsOn(disks[p].oldVersion)
     ELSE UNCHANGED <<misread, dropped>>

---------------------------------------------------------------------------
(* Drawing and saving                                                       *)

Draw ==
  /\ running /\ userActs
  /\ \E style \in {Rectangle, Scissors} :
       mapFile' = [mapFile EXCEPT !.content =
                     @ \cup {brush(mapActs', style, style \in typesToFix)}]
  /\ UNCHANGED <<disks, held, misread, dropped>>

\* The brushes that only the file held that is written.
overwritten(map) == IdsOn(disks[map.path].file) \ IdsIn(map.content)

save(map) ==
  /\ mapFile' = map
  /\ disks' = [disks EXCEPT ![map.path] = updateDbFile(@, map.version, map.content)]
  /\ held' = held \cup IdsIn(map.content)
  /\ dropped' = dropped \cup overwritten(map)
  /\ UNCHANGED misread

saveRPZMap == running /\ userActs /\ save(mapFile)

saveRPZMapAs(p) == running /\ userActs /\ save(changeSourceFile(mapFile, p))

\* A stop that cuts a save loses what was in the file and what was in memory.
StopWhileSaving ==
  /\ running /\ userActs
  /\ \E f \in cutShort : disks' = [disks EXCEPT ![mapFile.path].file = f]
  /\ dropped' = dropped \cup IdsOn(disks[mapFile.path].file) \cup IdsIn(mapFile.content)
  /\ mapFile' = NoMap
  /\ UNCHANGED <<held, misread>>

\* The user stops, and may not save.
StopWithoutSaving ==
  /\ running /\ userActs
  /\ mapFile' = NoMap
  /\ dropped' = dropped \cup (IdsIn(mapFile.content) \ held)
  /\ UNCHANGED <<disks, held, misread>>

\* As it stops, the server leaves its copy of the map, that was never in a file,
\* in a file of its own.
SaveSnapshot(p) ==
  /\ running /\ userActs
  /\ disks[p].file = EmptyFile
  /\ disks' = [disks EXCEPT ![p] = updateDbFile(@, NoVersion, mapFile.content)]
  /\ held' = held \cup IdsIn(mapFile.content)
  /\ UNCHANGED <<mapFile, misread, dropped>>

---------------------------------------------------------------------------
FileInit ==
  /\ \E file \in StartFiles :
       disks = [p \in Path |-> alone(IF p = StartPath THEN file ELSE EmptyFile)]
  /\ mapFile = NoMap /\ mapActs = 0 /\ held = {} /\ misread = {} /\ dropped = {}

FileNext ==
  \/ \E p \in Path : loadRPZMap(p) \/ StopWhileLoading(p) \/ saveRPZMapAs(p) \/ SaveSnapshot(p)
  \/ Draw \/ saveRPZMap \/ StopWhileSaving \/ StopWithoutSaving

FileSpec == FileInit /\ [][FileNext]_fileVars

---------------------------------------------------------------------------
(* A brush keeps the style it was drawn with, in the map and in every file and copy,  *)
(* as files of every version are opened, saved and left half written, until it is     *)
(* read from a document that says no version: such a document is taken for an old one *)
(* and each style is moved to the next, though the program itself wrote it, for a     *)
(* snapshot or from a map whose file could not be read (_handleVersionMissmatch).     *)
\* And the brushes of an open map have the outlines that this version expects.
StylesSurvive ==
  LET same(version, content) ==
        \A b \in content : b.id \notin misread =>
          b.style = (IF version = NoVersion THEN b.drawnAs ELSE styleIn(version, b))
  IN /\ same(apiVersion, mapFile.content)
     /\ \A p \in Path : \A f \in DOMAIN disks[p] :
          disks[p][f].kind = "json" => same(disks[p][f].version, disks[p][f].content)
     /\ \A b \in mapFile.content :
          b.style \in typesToFix /\ b.id \notin misread => b.reduced

(* A brush that was once in a file is in the map, in a file or in one of its copies:  *)
(* neither a migration nor a stop within one loses it. What is lost is what the user  *)
(* saves over, a save that a stop cuts, and the last old copy when a document without *)
(* a version is opened (_duplicateDbFile, _updateDbFile).                             *)
NothingLost ==
  held \ dropped \subseteq IdsIn(mapFile.content) \cup UNION {IdsAt(disks[p]) : p \in Path}
=============================================================================
