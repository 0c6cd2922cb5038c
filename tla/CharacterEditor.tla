-------------------------- MODULE CharacterEditor ---------------------------
(***************************************************************************)
(* The editor of characters: the list to pick one from, the sheet on show  *)
(* and the database that it saves itself to, as operators from what the    *)
(* interface holds to what it holds next.                                  *)
(*                                                                         *)
(* The inventories of the sheet on show are a list, one of which is in a   *)
(* table. The table keeps pointers to the inventories of the list, which   *)
(* items are moved to, and shows its own rows until it is loaded again.    *)
(***************************************************************************)
EXTENDS JSONDatabase, FiniteSetsExt, SequencesExt, Naturals

CONSTANT Item   \* names of items

\* QMap::insert.
insert(map, key, value) ==
  [k \in DOMAIN map \cup {key} |-> IF k = key THEN value ELSE map[k]]

\* The numbers of a set, the least first.
inOrder(S) ==
  CHOOSE q \in [1..Cardinality(S) -> S] : \A i, j \in DOMAIN q : i < j => q[i] < q[j]

\* RPZInventory: how many there are, by name.
isBag(b) == b \in [DOMAIN b -> Nat] /\ DOMAIN b \subseteq Item /\ IsFiniteSet(DOMAIN b)
NoBag == [x \in {} |-> 0]

bagCount(bag, x) == IF x \in DOMAIN bag THEN bag[x] ELSE 0
rowCount(rows, x) == FoldLeft(LAMBDA n, r : n + (IF r.item = x THEN r.n ELSE 0), 0, rows)

fromBag(bag) == LET names == SetToSeq(DOMAIN bag) IN
                [i \in DOMAIN names |-> [item |-> names[i], n |-> bag[names[i]]]]

merged(bag, moved) ==
  [x \in DOMAIN bag \cup DOMAIN moved |-> bagCount(bag, x) + bagCount(moved, x)]

\* Rows of the same name are one item: the last of them.
fromRows(rows) ==
  [x \in {r.item : r \in ToSet(rows)} |->
     rows[Max({i \in DOMAIN rows : rows[i].item = x})].n]

homonyms(rows) == \E i, j \in DOMAIN rows : i # j /\ rows[i].item = rows[j].item

\* list: _inventories; at: the one picked, 0 for none; rows, editable, targets: the
\* table; loose: its pointers are those of a list that is gone.
EmptyInventory ==
  [list |-> <<>>, at |-> 0, rows |-> <<>>, editable |-> TRUE, targets |-> 0, loose |-> FALSE]

updateInventory(inv) ==
  IF inv.at = 0 THEN inv ELSE [inv EXCEPT !.list[inv.at] = fromRows(inv.rows)]

loadInventory(inv, k, readOnly) ==
  [inv EXCEPT !.at = k, !.rows = fromBag(inv.list[k]), !.editable = ~readOnly,
              !.targets = Len(inv.list) - 1, !.loose = FALSE]

\* The last is picked. Without any nothing is told to the table, which stays.
loadInventories(inv, list, readOnly) ==
  IF list = <<>> THEN [inv EXCEPT !.list = <<>>, !.at = 0, !.loose = TRUE]
  ELSE loadInventory([inv EXCEPT !.list = list], Len(list), readOnly)

\* Mutant: the table is not saved before another is picked.
selectUnsaved(inv, k, readOnly) == loadInventory(inv, k, readOnly)

onSelectedIndexChanged(inv, k, readOnly) ==
  loadInventory(IF readOnly THEN inv ELSE updateInventory(inv), k, readOnly)

addButtonPressed(inv, readOnly) ==
  loadInventories(inv, Append((IF readOnly THEN inv ELSE updateInventory(inv)).list, NoBag), readOnly)

\* Mutant: whether there is one or not.
mayDeleteAnyway(inv, readOnly) == ~readOnly

mayDelete(inv, readOnly) == ~readOnly /\ inv.at # 0

deleteInventory(inv, readOnly) == loadInventories(inv, RemoveAt(inv.list, inv.at), readOnly)

rowsAt(rows, S) == LET kept == inOrder(S) IN [i \in DOMAIN kept |-> rows[kept[i]]]

removeRows(rows, S) == rowsAt(rows, DOMAIN rows \ S)

\* What is picked in the modal is keyed by name.
moveInventoryItems(inv, S, target) ==
  [inv EXCEPT !.rows = removeRows(inv.rows, S),
              !.list[target] = merged(@, fromRows(rowsAt(inv.rows, S)))]

splitInventoryItem(inv, i, k, target) ==
  [inv EXCEPT !.rows[i].n = @ - k,
              !.list[target] = merged(@, [x \in {inv.rows[i].item} |-> k])]

\* How many of an item the user sees, over all the inventories.
itemTotal(inv, x) ==
  FoldLeft(+, 0, [i \in DOMAIN inv.list |->
    IF i = inv.at THEN rowCount(inv.rows, x) ELSE bagCount(inv.list[i], x)])

bagsTotal(bags, x) == FoldLeft(+, 0, [i \in DOMAIN bags |-> bagCount(bags[i], x)])

---------------------------------------------------------------------------

(* The list of characters: one's own, from the database, or those of the     *)
(* session. An item is a character with where it comes from.                 *)

Origin == {"Unknown", "Local", "Remote"}
NoId == 0
item(id, origin) == [id |-> id, origin |-> origin]
Placeholder == item(NoId, "Unknown")

\* at: currentIndex, 0 for none.
Combo(Id) == [items : Seq([id : Id \cup {NoId}, origin : Origin]), at : Nat]
EmptyCombo == [items |-> <<Placeholder>>, at |-> 1]

currentCharacter(c) == IF c.at = 0 THEN Placeholder ELSE c.items[c.at]

\* The placeholder is added to an empty list, and whatever is alone and not picked
\* is taken for one.
mayTooglePlaceholder(c) ==
  CASE c.items = <<>> -> EmptyCombo
    [] Len(c.items) = 1 /\ currentCharacter(c).id = NoId -> [items |-> <<>>, at |-> 0]
    [] OTHER -> c

addItem(c, i) == [items |-> Append(c.items, i), at |-> IF c.items = <<>> THEN 1 ELSE c.at]

indexOf(c, id) ==
  LET found == {k \in DOMAIN c.items : c.items[k].id = id} IN
  IF found = {} THEN 0 ELSE Min(found)

\* What Qt picks when an item goes: the same one, or the one before it, or, for
\* the first, the next or none.
removeItem(c, k) ==
  LET left == RemoveAt(c.items, k)
      nextAt == IF left = <<>> THEN {0}
                ELSE CASE k < c.at -> {c.at - 1}
                       [] k > c.at -> {c.at}
                       [] k = c.at /\ k > 1 -> {k - 1}
                       [] OTHER -> {0, 1}
  IN {[items |-> left, at |-> n] : n \in nextAt}

pickLast(c) == [c EXCEPT !.at = Len(c.items)]

localCombo(ids) ==
  IF ids = {} THEN EmptyCombo
  ELSE LET order == inOrder(ids) IN
       [items |-> [k \in DOMAIN order |-> item(order[k], "Local")], at |-> 1]

\* Mutant: one's own character is not told apart.
remoteComboOfOthers(order, me) ==
  [items |-> [k \in DOMAIN order |-> item(order[k], "Remote")], at |-> 1]

\* The characters of a session; one's own, if it is there, is picked.
remoteCombo(order, me) ==
  LET items == [k \in DOMAIN order |->
                  item(order[k], IF order[k] = me THEN "Local" ELSE "Remote")]
      mine == {k \in DOMAIN order : order[k] = me}
  IN [items |-> items, at |-> IF mine = {} THEN 1 ELSE Max(mine)]

---------------------------------------------------------------------------
(* The sheet on show *)

\* RPZCharacter, with everything but the inventories in one.
character(tabs, bags) == [tabs |-> tabs, bags |-> bags]
isSheet(s) ==
  /\ s = character(s.tabs, s.bags) /\ s.tabs \in Nat
  /\ Len(s.bags) \in Nat /\ s.bags = [k \in 1..Len(s.bags) |-> s.bags[k]]
  /\ \A k \in 1..Len(s.bags) : isBag(s.bags[k])
NewCharacter == character(0, <<>>)
Nobody == [c \in {} |-> NewCharacter]
NoSheet == [id |-> NoId, tabs |-> 0, readOnly |-> TRUE]
NoDialog == [kind |-> "none", rows |-> {}, at |-> 0, crossed |-> FALSE]

isSavable(selection) == selection.id # NoId /\ selection.origin = "Local"

generateCharacter(u) == character(u.sheet.tabs, updateInventory(u.inventory).list)

---------------------------------------------------------------------------
(* Saving and showing. tell: whether the server is told; theirs: the sheets  *)
(* that the client can be asked for. History: spoilt, the sheets that are    *)
(* known not to keep what was written, and slips, what happened.             *)

write(u) == [u EXCEPT !.file = saveAsFile(u.version, u.db)]

updateCharacter(u, c, sheet) == write([u EXCEPT !.db = insert(@, c, sheet)])

spoil(u, c) == [u EXCEPT !.spoilt = @ \cup {c}]

\* Mutant: the server is not told.
maySaveUntold(u, tell) ==
  IF ~isSavable(u.selection) \/ u.sheet.readOnly \/ u.sheet.id = NoId THEN u
  ELSE updateCharacter([u EXCEPT !.inventory = updateInventory(@)], u.sheet.id,
                       generateCharacter(u))

maySaveCurrentCharacter(u, tell) ==
  IF ~isSavable(u.selection) \/ u.sheet.readOnly \/ u.sheet.id = NoId THEN u
  ELSE LET v == updateCharacter([u EXCEPT !.inventory = updateInventory(@)], u.sheet.id,
                                generateCharacter(u))
       IN IF tell THEN [v EXCEPT !.told = Append(@, v.db[u.sheet.id])] ELSE v

crossDialog(u) ==
  IF u.dialog.kind \in {"none", "character"} THEN u ELSE [u EXCEPT !.dialog.crossed = TRUE]

loadCharacter(u, c, sheet, readOnly) ==
  LET inventory == loadInventories(u.inventory, sheet.bags, readOnly) IN
  crossDialog([u EXCEPT !.sheet = [id |-> c, tabs |-> sheet.tabs, readOnly |-> readOnly],
                        !.inventory = inventory,
                        !.slips = IF inventory.loose THEN @ \cup {"loose"} ELSE @])

\* toDisplay was read before the sheet on show is saved: of the same character
\* it is what was saved before.
onRequestedSheetToDisplay(u, selection, c, sheet, tell) ==
  LET v == maySaveCurrentCharacter(u, tell)
      w == loadCharacter([v EXCEPT !.selection = selection], c, sheet, ~isSavable(selection))
  IN IF c # NoId /\ c \in DOMAIN v.db /\ isSavable(selection) /\ v.db[c] # sheet
     THEN spoil(w, c) ELSE w

selectionChanged(u, tell, theirs) ==
  LET i == currentCharacter(u.combo)
      found == CASE i.origin = "Local" -> u.db
                 [] i.origin = "Remote" -> theirs
                 [] OTHER -> Nobody
  IN IF i.id \in DOMAIN found
     THEN onRequestedSheetToDisplay(u, i, i.id, found[i.id], tell)
     ELSE onRequestedSheetToDisplay(u, i, NoId, NewCharacter, tell)

loadLocalCharacters(u) ==
  selectionChanged([u EXCEPT !.combo = localCombo(DOMAIN u.db)], FALSE, Nobody)

loadEmpty(u, tell) == selectionChanged([u EXCEPT !.combo = EmptyCombo], tell, Nobody)

\* CharactersDatabase: nothing updates one of another version.
apiVersion == 1
readCharacters(file) ==
  initDatabaseFromJSONFile(alone(file), apiVersion, {}, Nobody, Nobody)

\* setup, on a database just read.
started(read) ==
  loadLocalCharacters(
    [db |-> read.content, version |-> read.version, file |-> read.disk.file,
     combo |-> EmptyCombo, selection |-> Placeholder, sheet |-> NoSheet,
     inventory |-> EmptyInventory, dialog |-> NoDialog, told |-> <<>>,
     spoilt |-> {}, slips |-> {}])

\* _removeCharacterId. Qt tells of the item that is current whenever its row
\* changes.
removeCharacterId(u, id, tell, theirs) ==
  IF indexOf(u.combo, id) = 0 THEN {u}
  ELSE {LET v == [u EXCEPT !.combo = c,
                           !.slips = IF c.at = 0 /\ Len(c.items) = 1
                                     THEN @ \cup {"unpicked"} ELSE @]
            w == IF c.at = u.combo.at /\ currentCharacter(c) = currentCharacter(u.combo)
                 THEN v ELSE selectionChanged(v, tell, theirs)
        IN [w EXCEPT !.combo = mayTooglePlaceholder(@)] :
          c \in removeItem(u.combo, indexOf(u.combo, id))}

onUserJoinedServer(u, id, tell, theirs) ==
  LET before == mayTooglePlaceholder(u.combo)
      v == [u EXCEPT !.combo = addItem(before, item(id, "Remote"))]
  IN IF v.combo.at = before.at THEN v ELSE selectionChanged(v, tell, theirs)

\* Of one's own character there is nothing to show again.
onUserDataChanged(u, id, sheet, tell) ==
  LET i == currentCharacter(u.combo) IN
  IF i.origin = "Remote" /\ i.id = id
  THEN onRequestedSheetToDisplay(u, i, id, sheet, tell) ELSE u

\* _loadFromRemote, in one of the orders of a set.
loadFromRemote(u, me, tell, theirs) ==
  IF theirs = Nobody THEN {loadEmpty(u, tell)}
  ELSE {selectionChanged([u EXCEPT !.combo = remoteCombo(order, me)], tell, theirs) :
          order \in SetToSeqs(DOMAIN theirs)}

addNewCharacter(u, c) ==
  LET v == updateCharacter(u, c, NewCharacter) IN
  selectionChanged([v EXCEPT !.combo = pickLast(addItem(mayTooglePlaceholder(@), item(c, "Local")))],
                   FALSE, Nobody)

\* The selection is emptied first, lest the sheet saves itself again.
deleteCharacter(u, c) ==
  removeCharacterId(
    write([u EXCEPT !.selection = Placeholder, !.db = [d \in DOMAIN @ \ {c} |-> @[d]]]),
    c, FALSE, Nobody)
=============================================================================
