------------------------------ MODULE ToysTree ------------------------------
(***************************************************************************)
(* The toys box: ToysTreeViewModel and its items (src/ui/toysBox) over the *)
(* AssetsDatabase. An item is told from its parent and keeps the path it   *)
(* had when its parent was last set; every operation is done twice, on the *)
(* paths of the database and on the items. It all runs in the thread of    *)
(* the interface, which also receives the assets sent by the server.       *)
(***************************************************************************)
EXTENDS AssetsDatabase

CONSTANTS
  Downloaded,      \* the container of the assets sent by the server
  Movable,         \* the containers where folders are created, items dropped
  NewNames,        \* the names generated for new folders
  GivenNames,      \* the names that users give to folders
  NoItem,          \* an item that does not exist
  MaxItems,        \* bound: items of the tree
  MaxDepth,        \* bound: names in a path
  MaxSelected,     \* bound: items selected together
  MaxOperations    \* bound: operations in a behaviour

ASSUME ContainersAssumption == Downloaded \in Container /\ Movable \subseteq Container
ASSUME NamesAssumption == NewNames \subseteq Name /\ GivenNames \subseteq Name
ASSUME ItemsAssumption == Container \cap (1..MaxItems) = {}
ASSUME NoItemAssumption ==
  NoItem \notin [type : {"Folder"}, name : Name, ancestor : Container \cup (1..MaxItems),
                 path : FolderPath]
               \cup [type : {"Asset"}, hash : Hash, ancestor : Container \cup (1..MaxItems),
                     path : FolderPath]
ASSUME BoundsAssumption ==
  MaxItems \in Nat /\ MaxDepth \in Nat /\ MaxSelected \in Nat /\ MaxOperations \in Nat

VARIABLES
  db,           \* AssetsDatabase, in memory and as last saved
  files,        \* the files of assets on disk, by hash
  items,        \* the ToysTreeViewItem objects: folders and assets
  confused,     \* history variable: see Ambiguous
  crashed,      \* history variable: the application stopped within an operation
  operations    \* bounded by MaxOperations

vars == <<db, files, items, confused, crashed, operations>>

ItemId == 1..MaxItems

folderItem(name, ancestor, path) ==
  [type |-> "Folder", name |-> name, ancestor |-> ancestor, path |-> path]
assetItem(h, ancestor, path) ==
  [type |-> "Asset", hash |-> h, ancestor |-> ancestor, path |-> path]

Existing == {i \in ItemId : items[i] # NoItem}
FoldersOf(tree) == {i \in ItemId : tree[i] # NoItem /\ tree[i].type = "Folder"}
AssetsOf(tree) == {i \in ItemId : tree[i] # NoItem /\ tree[i].type = "Asset"}
Folders == FoldersOf(items)

isItem(x) ==
  /\ x.ancestor \in Container \cup Folders
  /\ x.path \in FolderPath
  /\ \/ x.type = "Folder" /\ x.name \in Name
     \/ x.type = "Asset" /\ x.hash \in Hash

\* What is known of the state; an item hangs below a container or a folder
\* that exists (~ToysTreeViewItem deletes what is below).
TypeOK ==
  /\ isDatabase(db)
  /\ files \subseteq Hash
  /\ DOMAIN items = ItemId
  /\ \A i \in Existing : isItem(items[i])
  /\ confused \in BOOLEAN
  /\ crashed \in BOOLEAN
  /\ operations \in 0..MaxOperations

Init ==
  /\ db = EmptyDatabase
  /\ files = {}
  /\ items = [i \in ItemId |-> NoItem]
  /\ confused = FALSE
  /\ crashed = FALSE
  /\ operations = 0

---------------------------------------------------------------------------
(* The tree *)

\* The items of S and all below them.
AndBelow(tree, S) ==
  LET down[k \in 0..MaxItems] ==
        IF k = 0 THEN S
        ELSE LET above == down[k - 1]
             IN above \cup {i \in ItemId : tree[i] # NoItem /\ tree[i].ancestor \in above}
  IN down[MaxItems]

\* What the view can show.
Reachable(tree) == AndBelow(tree, Container) \ Container

pathOf(x) == IF x \in Container THEN containerPath(x) ELSE items[x].path

\* appendSubItem: a new ancestor and, for the item and all below it, new paths.
appendSubItem(tree, i, ancestor) ==
  LET top == IF ancestor \in Container THEN containerPath(ancestor) ELSE tree[ancestor].path
      path == IF tree[i].type = "Folder" THEN Append(top, tree[i].name) ELSE top
      old == tree[i].path
  IN [j \in ItemId |->
        IF j = i THEN [tree[i] EXCEPT !.ancestor = ancestor, !.path = path]
        ELSE IF j \in AndBelow(tree, {i})
        THEN [tree[j] EXCEPT !.path = path \o SubSeq(@, Len(old) + 1, Len(@))]
        ELSE tree[j]]

\* rename: the paths are redefined from the ancestor.
renamed(tree, i, newName) ==
  appendSubItem([tree EXCEPT ![i].name = newName], i, tree[i].ancestor)

\* The folders that the tree and the strings of the database do not tell the
\* same way: two items of one path, or one that continues another's name.
Ambiguous(tree) ==
  \E i, j \in FoldersOf(tree) :
    i # j /\ startsWith(tree[j].path, tree[i].path) /\ j \notin AndBelow(tree, {i})

\* The next free items.
Fresh(tree) == {i \in ItemId : tree[i] = NoItem /\ \A j \in 1..(i - 1) : tree[j] # NoItem}

Operate ==
  /\ operations < MaxOperations
  /\ operations' = operations + 1

\* Items are not nested nor named deeper than the bound.
Bounded(tree) == \A i \in ItemId : tree[i] # NoItem => Len(tree[i].path) <= MaxDepth

---------------------------------------------------------------------------
(* Adding *)

\* A name is generated until it is unique below the parent.
createFolder(parent) ==
  /\ Operate
  /\ parent \in Movable \cup Folders
  /\ \E name \in NewNames, i \in Fresh(items) :
       LET uniquePath == Append(pathOf(parent), name) IN
       /\ uniquePath \notin DOMAIN db.paths
       /\ db' = createFolderInDb(db, uniquePath)
       /\ items' = [items EXCEPT ![i] = folderItem(name, parent, uniquePath)]
  /\ Bounded(items')
  /\ confused' = (confused \/ Ambiguous(items'))
  /\ UNCHANGED <<files, crashed>>

\* An image is dropped; several are added one after the other. It is copied
\* first: the copy fails, and the image is refused, if the file is there.
insertAssets(parent) ==
  /\ Operate
  /\ parent \in Movable \cup Folders
  /\ \E h \in Hash \ files, i \in Fresh(items) :
       /\ files' = files \cup {h}
       /\ db' = addAsset(db, h, pathOf(parent))
       /\ items' = [items EXCEPT ![i] = assetItem(h, parent, pathOf(parent))]
  /\ UNCHANGED <<confused, crashed>>

\* The file of the package is written unless it is there.
mayIntegrate(h) == h \notin files

\* The server sent an asset.
integrateAsset ==
  /\ Operate
  /\ \E h \in Hash, i \in Fresh(items) :
       /\ mayIntegrate(h)
       /\ files' = files \cup {h}
       /\ db' = addAsset(db, h, containerPath(Downloaded))
       /\ items' = [items EXCEPT ![i] = assetItem(h, Downloaded, containerPath(Downloaded))]
  /\ UNCHANGED <<confused, crashed>>

---------------------------------------------------------------------------
(* Renaming, moving and removing *)

renameFolder(i) ==
  /\ Operate
  /\ i \in Folders
  /\ \E newName \in GivenNames \ {items[i].name} :
       LET toRequest == Append(Front(items[i].path), newName) IN
       /\ toRequest \notin DOMAIN db.paths
       /\ db' \in renameFolderInDb(db, items[i].path, toRequest)
       /\ items' = renamed(items, i, newName)
  /\ confused' = (confused \/ Ambiguous(items'))
  /\ UNCHANGED <<files, crashed>>

Selections == {S \in SUBSET (Reachable(items)) : S # {} /\ Cardinality(S) <= MaxSelected}

\* Items of S with an ancestor in S.
Nested(S) == {i \in S : i \in AndBelow(items, {j \in ItemId : items[j] # NoItem /\ items[j].ancestor \in S})}

\* The topmost items of a selection, sorted by row: the first one is taken
\* whatever is above it. Rows are left out, so any item may be the first.
TopMost(S) == {{first} \cup (S \ Nested(S)) : first \in S}

pathsOf(S) == {items[i].path : i \in S \cap Folders}

\* An item whose asset is gone is of no use to the database.
hashesOf(S) == {items[i].hash : i \in S \cap AssetsOf(items)} \cap db.assets

\* The database after the removal of items.
dbWithout(S) == removeAssets(removeFolders(db, pathsOf(S)), hashesOf(S))

filesWithout(S) == files \ (db.assets \ dbWithout(S).assets)
itemsWithout(S) ==
  LET gone == AndBelow(items, S)
  IN [i \in ItemId |-> IF i \in gone THEN NoItem ELSE items[i]]

removeItems(S) ==
  /\ Operate
  /\ \E topmost \in TopMost(S) :
       /\ db' = dbWithout(topmost)
       /\ files' = filesWithout(topmost)
       /\ items' = itemsWithout(topmost)
  /\ UNCHANGED <<confused, crashed>>

\* canDropMimeData refuses where an item is already, and the view of Qt, as
\* dragMoveEvent makes it a move, what is below an item.
mayDrop(S, dest) ==
  /\ dest \in Movable \cup Folders
  /\ dest \notin AndBelow(items, S)
  /\ \A i \in S : items[i].ancestor # dest

\* Dropped, or sent to a container by the menu.
moveItemsToContainer(S, dest) ==
  /\ Operate
  /\ dest \in Movable \/ mayDrop(S, dest)
  /\ \E topmost \in TopMost(S) :
       /\ db' \in moveFoldersTo(moveAssetsTo(db, pathOf(dest), hashesOf(topmost)),
                                pathOf(dest), pathsOf(topmost))
       /\ \E order \in SetToSeqs(topmost) :
            items' = FoldLeft(LAMBDA tree, i : appendSubItem(tree, i, dest), items, order)
  /\ Bounded(items')
  /\ confused' = (confused \/ Nested(S) # {} \/ Ambiguous(items'))
  /\ UNCHANGED <<files, crashed>>

---------------------------------------------------------------------------
(* Restarting *)

\* The folders that the paths of a database name, and those above them.
folderPathsOf(d) ==
  UNION {{SubSeq(p, 1, n) : n \in 2..Len(p)} : p \in DOMAIN d.paths}

storedAssets(d) ==
  UNION {(d.paths[p] \cap d.assets) \X {p} : p \in DOMAIN d.paths}

\* The tree that _injectDbStructure builds: an item for each folder named, and
\* for each asset of a path.
TreeOf(d) ==
  LET folders == SetToSeq(folderPathsOf(d))
      assets == SetToSeq(storedAssets(d))
      itemAt(p) == IF Len(p) = 1 THEN p[1][1]
                   ELSE CHOOSE n \in DOMAIN folders : folders[n] = p
  IN [i \in ItemId |->
        CASE i \in DOMAIN folders ->
               folderItem(Last(folders[i]), itemAt(Front(folders[i])), folders[i])
          [] i - Len(folders) \in DOMAIN assets ->
               LET a == assets[i - Len(folders)] IN assetItem(a[1], itemAt(a[2]), a[2])
          [] OTHER -> NoItem]

\* The application starts on database d.
start(d) ==
  /\ Cardinality(folderPathsOf(d)) + Cardinality(storedAssets(d)) <= MaxItems
  /\ db' \in loadDatabase(d)
  /\ items' = TreeOf(d)
  /\ confused' = Ambiguous(items')

restart ==
  /\ Operate
  /\ start(db)
  /\ UNCHANGED <<files, crashed>>

\* It stopped after the file of an asset was written, or those of the assets
\* removed were, and before the database was saved.
crash ==
  /\ Operate
  /\ start(db)
  /\ crashed' = TRUE
  /\ \/ \E h \in Hash \ files : files' = files \cup {h}
     \/ \E S \in Selections : \E topmost \in TopMost(S) : files' = filesWithout(topmost)

Next ==
  \/ \E parent \in Movable \cup ItemId : createFolder(parent) \/ insertAssets(parent)
  \/ integrateAsset
  \/ \E i \in ItemId : renameFolder(i)
  \/ \E S \in Selections :
       \/ removeItems(S)
       \/ \E dest \in Movable \cup ItemId : moveItemsToContainer(S, dest)
  \/ restart
  \/ crash

Spec == Init /\ [][Next]_vars

---------------------------------------------------------------------------
(* Properties *)

\* Every operation of the toys box is done once on strings and once on items
\* (moveItemsToContainer, removeItems, renameItem): the two agree on which
\* assets there are and in which folder each is, and the view reaches all of
\* them, as long as no folder's path is also the beginning of another's (and
\* no stop had an asset added twice).
TreeShowsDatabase ==
  ~confused /\ ~crashed =>
    /\ storedAssets(db) = {<<items[i].hash, items[i].path>> : i \in AssetsOf(items)}
    /\ Cardinality(AssetsOf(items)) = Cardinality(db.assets)
    /\ Existing \subseteq Reachable(items)

\* Whatever is moved, renamed or removed, and however paths run into each
\* other, _paths, _assets and _w_assetToPath tell one folder for each asset;
\* a stop between the files and the tables may have an asset added twice.
AssetsInOneFolder == ~crashed => EachInOneFolder(db)

\* The files on disk are those of the assets of the database, so that an image
\* that was removed can be added again: addAsset and _removeAssetFiles go
\* together in every operation, unless the application stops between them.
FilesFollowAssets == ~crashed => files = db.assets

\* The state is well typed, each asset is in one folder, and has its file.
AssetsStored == TypeOK /\ AssetsInOneFolder /\ FilesFollowAssets
=============================================================================
