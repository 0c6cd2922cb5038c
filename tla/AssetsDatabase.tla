--------------------------- MODULE AssetsDatabase ---------------------------
(***************************************************************************)
(* AssetsDatabase (src/shared/database): what its operations make of its   *)
(* three tables. Folders are not objects: a folder is a path, a string,    *)
(* and the paths below it are found by comparing strings. A path is a      *)
(* sequence of names, a name a sequence of letters, so that a name may     *)
(* continue another; the first name of a path is a storage container.      *)
(***************************************************************************)
EXTENDS Naturals, FiniteSets, SequencesExt

CONSTANTS
  Hash,         \* RPZAsset::Hash
  Letter,       \* what names are made of
  Container     \* AssetsDatabase::StorageContainer, as the letter of its chunk

ASSUME ContainerAssumption == Container \subseteq Letter

Name == Seq(Letter)
FolderPath == Seq(Name)

containerPath(c) == <<<<c>>>>

\* _paths, _assets and _w_assetToPath.
isDatabase(d) ==
  /\ \A p \in DOMAIN d.paths : p \in FolderPath /\ d.paths[p] \subseteq Hash
  /\ d.assets \subseteq Hash
  /\ \A h \in DOMAIN d.assetToPath : h \in Hash /\ d.assetToPath[h] \in FolderPath

EmptyDatabase == [paths |-> <<>>, assets |-> {}, assetToPath |-> <<>>]

Without(f, S) == [x \in DOMAIN f \ S |-> f[x]]

\* QMap::insert, of one value for each of some keys.
insert(map, keys, value) ==
  [k \in DOMAIN map \cup keys |-> IF k \in keys THEN value ELSE map[k]]

\* QMap::value and operator[]: a path that is not there has no assets.
contentOf(d, path) == IF path \in DOMAIN d.paths THEN d.paths[path] ELSE {}

---------------------------------------------------------------------------
(* Paths *)

\* QString::startsWith: the last name compared may be continued in path.
startsWith(path, ancestor) ==
  LET n == Len(ancestor) IN
  \/ n = 0
  \/ /\ n <= Len(path)
     /\ SubSeq(path, 1, n - 1) = SubSeq(ancestor, 1, n - 1)
     /\ IsPrefix(ancestor[n], path[n])

\* QString::replace of the ancestor a path starts with, its continuation kept.
\* The ancestor occurs once, as it starts with the chunk of a container.
replace(path, ancestor, replacing) ==
  LET n == Len(ancestor)
      continuation == SubSeq(path[n], Len(ancestor[n]) + 1, Len(path[n]))
  IN Front(replacing) \o <<Last(replacing) \o continuation>>
       \o SubSeq(path, n + 1, Len(path))

getPathsStartingWith(d, ancestor) == {p \in DOMAIN d.paths : startsWith(p, ancestor)}

---------------------------------------------------------------------------
(* Rerouting *)

\* Mutant: what the new path already holds is replaced.
rerouteOver(d, ancestor, replacing, oldPath) ==
  LET hashes == contentOf(d, oldPath)
      newPath == replace(oldPath, ancestor, replacing)
  IN [d EXCEPT !.paths = insert(Without(@, {oldPath}), {newPath}, hashes),
               !.assetToPath = insert(@, hashes, newPath)]

\* One turn of the loop of _reroutePaths.
reroute(d, ancestor, replacing, oldPath) ==
  LET hashes == contentOf(d, oldPath)
      newPath == replace(oldPath, ancestor, replacing)
      left == [d EXCEPT !.paths = Without(@, {oldPath})]
  IN [left EXCEPT !.paths = insert(@, {newPath}, hashes \cup contentOf(left, newPath)),
                  !.assetToPath = insert(@, hashes, newPath)]

\* The databases that _reroutePaths may leave: a QSet has no order.
reroutePaths(d, ancestor, replacing, subjects) ==
  {FoldLeft(LAMBDA e, p : reroute(e, ancestor, replacing, p), d, order) :
     order \in SetToSeqs(subjects)}

---------------------------------------------------------------------------
(* Operations. Each ends by saving the tables. *)

addAsset(d, h, path) ==
  [paths |-> insert(d.paths, {path}, contentOf(d, path) \cup {h}),
   assets |-> d.assets \cup {h},
   assetToPath |-> insert(d.assetToPath, {h}, path)]

createFolderInDb(d, uniquePath) == [d EXCEPT !.paths = insert(@, {uniquePath}, {})]

\* The databases that a folder renamed may leave.
renameFolderInDb(d, pathToRename, toRequest) ==
  reroutePaths(d, pathToRename, toRequest, getPathsStartingWith(d, pathToRename))

\* _removeAssets with references only, then _removeHashesFromPaths: a path
\* that loses its last asset is forgotten.
removeReferences(d, hashes) ==
  LET linked == {h \in hashes \cap d.assets : h \in DOMAIN d.assetToPath}
      lost(p) == {h \in linked : d.assetToPath[h] = p}
      emptied == {p \in DOMAIN d.paths : lost(p) # {} /\ d.paths[p] \subseteq lost(p)}
  IN [d EXCEPT !.paths = [p \in DOMAIN d.paths \ emptied |-> d.paths[p] \ lost(p)],
               !.assetToPath = Without(@, linked)]

\* Mutant: the assets stay in their paths.
removeAssetsOnly(d, hashes) ==
  [d EXCEPT !.assets = @ \ hashes, !.assetToPath = Without(@, hashes \cap d.assets)]

removeAssets(d, hashes) ==
  [removeReferences(d, hashes) EXCEPT !.assets = @ \ hashes]

removeFolders(d, topMostPathsToRemove) ==
  LET subpaths == UNION {getPathsStartingWith(d, p) : p \in topMostPathsToRemove}
      hashes == UNION {d.paths[p] : p \in subpaths}
  IN [d EXCEPT !.paths = Without(@, subpaths),
               !.assets = @ \ hashes,
               !.assetToPath = Without(@, hashes \cap d.assets)]

\* The destination is created, even for no asset at all.
moveAssetsTo(d, path, hashesToMove) ==
  LET r == removeReferences(d, hashesToMove)
  IN [r EXCEPT !.paths = insert(@, {path}, contentOf(r, path) \cup hashesToMove),
               !.assetToPath = insert(@, hashesToMove, path)]

\* The databases that folders moved, in any order, may leave: what is to be
\* rerouted is known before the first of them is moved.
moveFoldersTo(d, path, topmostPathsToMove) ==
  LET moveOne(databases, topmost) ==
        UNION {reroutePaths(e, topmost, Append(path, Last(topmost)),
                            getPathsStartingWith(d, topmost)) : e \in databases}
  IN UNION {FoldLeft(moveOne, {d}, order) : order \in SetToSeqs(topmostPathsToMove)}

\* _setupLocalData: the links are made again from the paths.
loadDatabase(d) ==
  {[d EXCEPT !.assetToPath = link] :
     link \in {f \in [UNION {d.paths[p] : p \in DOMAIN d.paths} -> DOMAIN d.paths] :
                 \A h \in DOMAIN f : h \in d.paths[f[h]]}}

---------------------------------------------------------------------------
\* Every asset is in one folder, the one that its link tells, and nothing else
\* is in a folder or linked.
EachInOneFolder(d) ==
  /\ DOMAIN d.assetToPath = d.assets
  /\ \A h \in d.assets : d.assetToPath[h] \in DOMAIN d.paths
  /\ \A p \in DOMAIN d.paths :
       d.paths[p] = {h \in d.assets : d.assetToPath[h] = p}
=============================================================================
