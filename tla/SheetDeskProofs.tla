--------------------------- MODULE SheetDeskProofs ---------------------------
(***************************************************************************)
(* What users know of each other's sheets: pointers are followed to nothing *)
(* for three reasons only (PointersHoldAlways), the others have the sheet  *)
(* that the database has (OthersKnowTheSheet), and the list to pick from   *)
(* is the list of the players (PickerAlwaysListsPlayers).                  *)
(*                                                                         *)
(* First each operation of CharacterEditor is described by a predicate:    *)
(* what it keeps of a table, a list or an inventory. Then an action is a   *)
(* step of the interface and one of the client, and IInv is kept by both.  *)
(* The roster, what the signals on their way will make of the lists, comes *)
(* last.                                                                   *)
(***************************************************************************)
EXTENDS SheetDesk, FiniteSetTheorems, TLAPS

\* Induction, on a set rather than on a predicate: of the least number out of the set the one
\* before would be in it.
LEMMA Induction ==
  ASSUME NEW S, 0 \in S, \A n \in Nat : n \in S => n + 1 \in S
  PROVE  Nat \subseteq S
<1> SUFFICES ASSUME NEW k \in Nat, k \notin S
             PROVE  FALSE
  OBVIOUS
<1> DEFINE T == {n \in 0..k : n \notin S}
           f == [n \in T |-> n - 1]
<1>1. IsFiniteSet(T)
  <2>1. IsFiniteSet(0..k)
    BY FS_Interval
  <2>2. T \in SUBSET (0..k)
    OBVIOUS
  <2> QED
    BY <2>1, <2>2, FS_Subset
<1>2. \A n \in T : n \in Nat /\ n - 1 \in T
  <2> TAKE n \in T
  <2>1. n \in Nat /\ n # 0
    OBVIOUS
  <2>2. n - 1 \in Nat /\ (n - 1) + 1 = n
    BY <2>1
  <2>3. n - 1 \notin S
    BY <2>2
  <2> QED
    BY <2>1, <2>2, <2>3
<1>3. f \in Injection(T, T)
  <2>1. f \in [T -> T]
    BY <1>2
  <2>2. \A a, b \in T : f[a] = f[b] => a = b
    BY <1>2
  <2> QED
    BY <2>1, <2>2 DEF Injection, IsInjective
<1>4. f \in Surjection(T, T)
  BY <1>1, <1>3, FS_Injection
<1>5. k \in T
  OBVIOUS
<1>6. PICK n \in T : f[n] = k
  BY <1>4, <1>5 DEF Surjection
<1> QED
  BY <1>2, <1>6

\* inOrder: each number of a finite set once, the least first. A number is where as many
\* are not above it.
LEMMA InOrder ==
  ASSUME NEW S \in SUBSET Nat, IsFiniteSet(S)
  PROVE  /\ Cardinality(S) \in Nat
         /\ inOrder(S) \in [1..Cardinality(S) -> S]
         /\ \A i, j \in 1..Cardinality(S) : i < j => inOrder(S)[i] < inOrder(S)[j]
         /\ \A x \in S : \E i \in 1..Cardinality(S) : inOrder(S)[i] = x
<1> DEFINE n == Cardinality(S)
           below(x) == {y \in S : y <= x}
           rank == [x \in S |-> Cardinality(below(x))]
<1>1. n \in Nat
  BY FS_CardinalityType
<1>2. \A x \in S : IsFiniteSet(below(x)) /\ rank[x] \in 1..n
  <2> TAKE x \in S
  <2>1. below(x) \in SUBSET S
    OBVIOUS
  <2>2. IsFiniteSet(below(x)) /\ Cardinality(below(x)) <= n
    BY <2>1, FS_Subset
  <2>3. Cardinality(below(x)) \in Nat
    BY <2>2, FS_CardinalityType
  <2>4. x \in below(x)
    OBVIOUS
  <2>5. Cardinality(below(x)) # 0
    BY <2>2, <2>4, FS_EmptySet
  <2> QED
    BY <1>1, <2>2, <2>3, <2>5
<1>3. \A x, y \in S : x < y => rank[x] < rank[y]
  <2> SUFFICES ASSUME NEW x \in S, NEW y \in S, x < y
               PROVE  rank[x] < rank[y]
    OBVIOUS
  <2>1. below(x) \in SUBSET below(y) /\ y \in below(y) /\ y \notin below(x)
    <3>1. x \in Nat /\ y \in Nat /\ \A z \in S : z \in Nat
      OBVIOUS
    <3>2. \A z \in S : z <= x => z <= y
      BY <3>1
    <3>3. y <= y /\ ~(y <= x)
      BY <3>1
    <3> QED
      BY <3>1, <3>2, <3>3
  <2>2. IsFiniteSet(below(y)) /\ rank[x] \in Nat /\ rank[y] \in Nat
    BY <1>2
  <2>3. Cardinality(below(x)) <= Cardinality(below(y))
    BY <2>1, <2>2, FS_Subset
  <2>4. Cardinality(below(x)) # Cardinality(below(y))
    BY <2>1, <2>2, FS_Subset
  <2> QED
    BY <2>2, <2>3, <2>4
<1>4. rank \in Injection(S, 1..n)
  <2>1. rank \in [S -> 1..n]
    BY <1>2
  <2>2. \A x, y \in S : rank[x] = rank[y] => x = y
    <3> SUFFICES ASSUME NEW x \in S, NEW y \in S, rank[x] = rank[y], x # y
                 PROVE  FALSE
      OBVIOUS
    <3>1. x \in Nat /\ y \in Nat
      OBVIOUS
    <3>2. rank[x] \in Nat /\ rank[y] \in Nat
      BY <1>2
    <3> HIDE DEF rank
    <3>3. CASE x < y
      BY <1>3, <3>2, <3>3
    <3>4. CASE y < x
      BY <1>3, <3>2, <3>4
    <3> QED
      BY <3>1, <3>3, <3>4
  <2> QED
    BY <2>1, <2>2 DEF Injection, IsInjective
<1>5. rank \in Surjection(S, 1..n)
  <2>1. IsFiniteSet(1..n) /\ Cardinality(1..n) = n
    BY <1>1, FS_Interval
  <2> HIDE DEF rank
  <2> QED
    BY <1>4, <2>1, FS_Injection
<1> DEFINE q == [i \in 1..n |-> CHOOSE x \in S : rank[x] = i]
<1>6. \A i \in 1..n : q[i] \in S /\ rank[q[i]] = i
  <2> HIDE DEF rank
  <2> QED
    BY <1>5 DEF Surjection
<1> DEFINE Ordered(p) == p \in [1..n -> S] /\ \A i, j \in 1..n : i < j => p[i] < p[j]
<1>7. Ordered(q)
  <2>1. q \in [1..n -> S]
    BY <1>6
  <2>2. ASSUME NEW i \in 1..n, NEW j \in 1..n, i < j
        PROVE  q[i] < q[j]
    <3>1. q[i] \in S /\ q[j] \in S /\ rank[q[i]] = i /\ rank[q[j]] = j
      BY <1>6
    <3> HIDE DEF q, rank
    <3>2. q[i] \in Nat /\ q[j] \in Nat
      BY <3>1
    <3>3. CASE q[j] < q[i]
      <4>1. rank[q[j]] < rank[q[i]]
        BY <1>3, <3>1, <3>3
      <4>2. j < i
        BY <3>1, <4>1
      <4> QED
        BY <1>1, <2>2, <4>2
    <3>4. CASE q[j] = q[i]
      BY <1>1, <2>2, <3>1, <3>4
    <3> QED
      BY <3>2, <3>3, <3>4
  <2> HIDE DEF q
  <2> QED
    BY <2>1, <2>2
<1>8. Ordered(inOrder(S))
  <2>1. inOrder(S) = CHOOSE p \in [1..n -> S] : \A i, j \in DOMAIN p : i < j => p[i] < p[j]
    BY DEF inOrder
  <2>2. \A p \in [1..n -> S] : DOMAIN p = 1..n
    OBVIOUS
  <2> HIDE DEF q
  <2> QED
    BY <1>7, <2>1, <2>2
<1>9. inOrder(S) \in Injection(1..n, S)
  <2> DEFINE p == inOrder(S)
  <2> HIDE DEF p
  <2>1. p \in [1..n -> S] /\ \A i, j \in 1..n : i < j => p[i] < p[j]
    BY <1>8 DEF p
  <2>2. ASSUME NEW i \in 1..n, NEW j \in 1..n, p[i] = p[j]
        PROVE  i = j
    <3>1. p[i] \in Nat /\ p[j] \in Nat
      BY <2>1
    <3> QED
      BY <1>1, <2>1, <2>2, <3>1
  <2> QED
    BY <2>1, <2>2 DEF Injection, IsInjective, p
<1>10. inOrder(S) \in Surjection(1..n, S)
  <2>1. IsFiniteSet(1..n) /\ Cardinality(1..n) = n
    BY <1>1, FS_Interval
  <2> QED
    BY <1>9, <2>1, FS_Injection
<1> QED
  BY <1>1, <1>8, <1>10 DEF Surjection

\* SetToSeq: each element of a finite set once.
LEMMA Enumerated ==
  ASSUME NEW S, IsFiniteSet(S)
  PROVE  /\ Cardinality(S) \in Nat
         /\ SetToSeq(S) \in [1..Cardinality(S) -> S]
         /\ \A i, j \in 1..Cardinality(S) : SetToSeq(S)[i] = SetToSeq(S)[j] => i = j
         /\ \A x \in S : \E i \in 1..Cardinality(S) : SetToSeq(S)[i] = x
<1> DEFINE n == Cardinality(S)
<1>1. n \in Nat /\ ExistsBijection(1..n, S)
  BY FS_CardinalityType
<1>2. \E f \in [1..n -> S] : IsInjective(f)
  BY <1>1 DEF ExistsBijection, Bijection, Injection
<1>3. SetToSeq(S) \in [1..n -> S] /\ IsInjective(SetToSeq(S))
  BY <1>2 DEF SetToSeq
<1>4. SetToSeq(S) \in Surjection(1..n, S)
  <2>1. IsFiniteSet(1..n) /\ Cardinality(1..n) = n
    BY <1>1, FS_Interval
  <2>2. SetToSeq(S) \in Injection(1..n, S)
    BY <1>3 DEF Injection
  <2> QED
    BY <2>1, <2>2, FS_Injection
<1> QED
  BY <1>1, <1>3, <1>4 DEF Surjection, IsInjective

\* Max and Min of a finite set of numbers.
LEMMA Extremes ==
  ASSUME NEW S \in SUBSET Nat, IsFiniteSet(S), S # {}
  PROVE  /\ Max(S) \in S /\ \A x \in S : x <= Max(S)
         /\ Min(S) \in S /\ \A x \in S : Min(S) <= x
<1> DEFINE n == Cardinality(S)
           q == inOrder(S)
<1> HIDE DEF q
<1>1. /\ n \in Nat /\ q \in [1..n -> S]
      /\ \A i, j \in 1..n : i < j => q[i] < q[j]
      /\ \A x \in S : \E i \in 1..n : q[i] = x
  BY InOrder DEF q
<1>2. n # 0
  BY FS_EmptySet
<1> HIDE DEF n
<1>3. 1 \in 1..n /\ n \in 1..n
  BY <1>1, <1>2
<1>4. \A i \in 1..n : q[i] \in S /\ q[i] \in Nat /\ q[i] <= q[n] /\ q[1] <= q[i]
  <2> TAKE i \in 1..n
  <2>1. q[i] \in Nat /\ q[n] \in Nat /\ q[1] \in Nat
    BY <1>1, <1>3
  <2>2. (i < n => q[i] < q[n]) /\ (1 < i => q[1] < q[i])
    BY <1>1, <1>3
  <2>3. (i < n \/ i = n) /\ (1 < i \/ i = 1)
    BY <1>1
  <2> QED
    BY <1>1, <2>1, <2>2, <2>3
<1>5. \A x \in S : x \in Nat /\ q[1] <= x /\ x <= q[n]
  BY <1>1, <1>4
<1>6. q[n] \in S /\ \A x \in S : q[n] >= x
  <2>1. q[n] \in Nat
    BY <1>3, <1>4
  <2> QED
    BY <1>3, <1>4, <1>5, <2>1
<1>7. q[1] \in S /\ \A x \in S : q[1] =< x
  BY <1>3, <1>4, <1>5
<1>8. Max(S) \in S /\ \A x \in S : Max(S) >= x
  BY <1>6 DEF Max
<1>9. Min(S) \in S /\ \A x \in S : Min(S) =< x
  BY <1>7 DEF Min
<1>10. \A x \in S : x <= Max(S)
  BY <1>5, <1>8
<1> QED
  BY <1>8, <1>9, <1>10

\* A function on the first numbers is a sequence.
LEMMA IsSeq ==
  ASSUME NEW X, NEW n \in Nat, NEW q \in [1..n -> X]
  PROVE  q \in Seq(X) /\ Len(q) = n
OBVIOUS

\* A sequence is empty when its length is 0.
LEMMA NoElements ==
  ASSUME NEW X, NEW s \in Seq(X)
  PROVE  Len(s) \in Nat /\ (s = <<>> <=> Len(s) = 0)
OBVIOUS

\* RemoveAt: those after move down.
LEMMA Removed ==
  ASSUME NEW X, NEW s \in Seq(X), NEW i \in 1..Len(s)
  PROVE  /\ RemoveAt(s, i) \in Seq(X) /\ Len(RemoveAt(s, i)) = Len(s) - 1
         /\ \A k \in 1..Len(s) - 1 : RemoveAt(s, i)[k] = IF k < i THEN s[k] ELSE s[k + 1]
<1>1. Len(s) \in Nat /\ i \in Nat /\ 1 <= i /\ i <= Len(s)
  OBVIOUS
<1> DEFINE a == SubSeq(s, 1, i - 1)
           b == SubSeq(s, i + 1, Len(s))
<1>2. a \in Seq(X) /\ Len(a) = i - 1 /\ \A k \in 1..i - 1 : a[k] = s[k]
  BY <1>1
<1>3. b \in Seq(X) /\ Len(b) = Len(s) - i /\ \A k \in 1..Len(s) - i : b[k] = s[i + k]
  BY <1>1
<1> HIDE DEF a, b
<1>4. a \o b \in Seq(X) /\ Len(a \o b) = Len(s) - 1
  <2>1. \A u, v \in Seq(X) : u \o v \in Seq(X) /\ Len(u \o v) = Len(u) + Len(v)
    OBVIOUS
  <2>2. (i - 1) + (Len(s) - i) = Len(s) - 1
    BY <1>1
  <2> QED
    BY <1>2, <1>3, <2>1, <2>2
<1>5. ASSUME NEW k \in 1..Len(s) - 1
      PROVE  (a \o b)[k] = IF k < i THEN s[k] ELSE s[k + 1]
  <2>1. CASE k < i
    <3>1. k \in 1..i - 1
      BY <1>1, <2>1
    <3>2. (a \o b)[k] = a[k]
      BY <1>1, <1>2, <1>3, <3>1
    <3> QED
      BY <1>2, <2>1, <3>1, <3>2
  <2>2. CASE ~(k < i)
    <3>1. k - (i - 1) \in 1..Len(s) - i /\ k \in 1..Len(s) - 1 /\ k > Len(a)
      BY <1>1, <1>2, <2>2
    <3>2. (a \o b)[k] = b[k - (i - 1)]
      BY <1>1, <1>2, <1>3, <3>1
    <3>3. i + (k - (i - 1)) = k + 1
      BY <1>1
    <3> QED
      BY <1>3, <2>2, <3>1, <3>2, <3>3
  <2> QED
    BY <2>1, <2>2
<1> QED
  BY <1>4, <1>5 DEF RemoveAt, a, b

---------------------------------------------------------------------------
(* Types *)

Bag == UNION {[D -> Nat] : D \in {E \in SUBSET Item : IsFiniteSet(E)}}
Sheet == [tabs : Nat, bags : Seq(Bag)]

Row == [item : Item, n : Nat]
Inventory == [list : Seq(Bag), at : Nat, rows : Seq(Row), editable : BOOLEAN,
              targets : Nat, loose : BOOLEAN]

Id == Local \cup Remote
Sheets(S) == UNION {[D -> Sheet] : D \in SUBSET S}

\* What can be picked: one's own characters, those of the others, or nothing.
Entry == {item(c, "Local") : c \in Local} \cup {item(c, "Remote") : c \in Remote}
         \cup {Placeholder}

Combos == [items : Seq(Entry), at : Nat]

DialogKind == {"none", "character", "inventory", "rows", "move", "split"}
Slip == {"late", "raced", "unpicked", "unsaved", "loose", "crossed"}
File == {EmptyFile, TornFile}
        \cup [kind : {"json"}, version : {NoVersion, apiVersion}, content : Sheets(Local)]

Ui == [db : Sheets(Local), version : {NoVersion, apiVersion}, file : File,
       combo : Combos, selection : Entry,
       sheet : [id : Id \cup {NoId}, tabs : Nat, readOnly : BOOLEAN],
       inventory : Inventory,
       dialog : [kind : DialogKind, rows : SUBSET Nat, at : Nat, crossed : BOOLEAN],
       told : Seq(Sheet), spoilt : SUBSET (Id \cup {NoId}), slips : SUBSET Slip]

\* How many of an item there are, of each bag.
LEMMA BagType ==
  ASSUME NEW b
  PROVE  b \in Bag <=> /\ b \in [DOMAIN b -> Nat]
                       /\ DOMAIN b \subseteq Item /\ IsFiniteSet(DOMAIN b)
<1>1. ASSUME b \in Bag
      PROVE  b \in [DOMAIN b -> Nat] /\ DOMAIN b \subseteq Item /\ IsFiniteSet(DOMAIN b)
  <2>1. PICK D \in SUBSET Item : IsFiniteSet(D) /\ b \in [D -> Nat]
    BY <1>1 DEF Bag
  <2>2. DOMAIN b = D
    BY <2>1
  <2> QED
    BY <2>1, <2>2
<1>2. ASSUME b \in [DOMAIN b -> Nat], DOMAIN b \subseteq Item, IsFiniteSet(DOMAIN b)
      PROVE  b \in Bag
  BY <1>2 DEF Bag
<1> QED
  BY <1>1, <1>2

LEMMA NoBagType == NoBag \in Bag
<1>1. IsFiniteSet({})
  BY FS_EmptySet
<1>2. DOMAIN NoBag = {} /\ NoBag \in [{} -> Nat]
  BY DEF NoBag
<1> QED
  BY <1>1, <1>2, BagType

\* A count in a bag is a number.
LEMMA BagCount ==
  ASSUME NEW b \in Bag, NEW k
  PROVE  bagCount(b, k) \in Nat
BY BagType DEF bagCount

\* fromRows: the last row of an item tells how many there are.
LEMMA FromRows ==
  ASSUME NEW rows \in Seq(Row)
  PROVE  /\ fromRows(rows) \in Bag
         /\ DOMAIN fromRows(rows) = {rows[i].item : i \in 1..Len(rows)}
         /\ \A k \in DOMAIN fromRows(rows) :
              \E i \in 1..Len(rows) : rows[i].item = k /\ fromRows(rows)[k] = rows[i].n
<1> DEFINE D == {rows[i].item : i \in 1..Len(rows)}
           at(k) == {i \in DOMAIN rows : rows[i].item = k}
<1>1. Len(rows) \in Nat /\ DOMAIN rows = 1..Len(rows) /\ \A i \in 1..Len(rows) : rows[i] \in Row
  OBVIOUS
<1>2. {r.item : r \in ToSet(rows)} = D
  BY <1>1 DEF ToSet
<1>3. fromRows(rows) = [k \in D |-> rows[Max(at(k))].n]
  BY <1>2 DEF fromRows
<1>4. IsFiniteSet(D) /\ D \subseteq Item
  <2> DEFINE f == [i \in 1..Len(rows) |-> rows[i].item]
  <2>1. f \in Surjection(1..Len(rows), D)
    BY DEF Surjection
  <2>2. IsFiniteSet(1..Len(rows))
    BY <1>1, FS_Interval
  <2>3. IsFiniteSet(D)
    BY <2>1, <2>2, FS_Surjection
  <2> QED
    BY <1>1, <2>3 DEF Row
<1>5. \A k \in D : Max(at(k)) \in 1..Len(rows) /\ rows[Max(at(k))].item = k
  <2> TAKE k \in D
  <2>1. at(k) \in SUBSET (1..Len(rows)) /\ at(k) # {}
    BY <1>1
  <2>2. IsFiniteSet(at(k))
    <3>1. IsFiniteSet(1..Len(rows))
      BY <1>1, FS_Interval
    <3> QED
      BY <2>1, <3>1, FS_Subset
  <2>3. at(k) \in SUBSET Nat
    BY <1>1, <2>1
  <2>4. Max(at(k)) \in at(k)
    BY <2>1, <2>2, <2>3, Extremes
  <2> QED
    BY <1>1, <2>4
<1>6. \A k \in D : fromRows(rows)[k] \in Nat
  BY <1>1, <1>3, <1>5 DEF Row
<1>7. fromRows(rows) \in [D -> Nat] /\ DOMAIN fromRows(rows) = D
  BY <1>3, <1>6
<1>8. fromRows(rows) \in Bag
  BY <1>4, <1>7, BagType
<1> QED
  BY <1>3, <1>5, <1>7, <1>8

\* fromBag: a row for each item.
LEMMA FromBag ==
  ASSUME NEW b \in Bag
  PROVE  fromBag(b) \in Seq(Row)
<1> DEFINE n == Cardinality(DOMAIN b)
           names == SetToSeq(DOMAIN b)
<1> HIDE DEF names
<1>1. b \in [DOMAIN b -> Nat] /\ DOMAIN b \subseteq Item /\ IsFiniteSet(DOMAIN b)
  BY BagType
<1>2. n \in Nat /\ names \in [1..n -> DOMAIN b]
  BY <1>1, Enumerated DEF names
<1> HIDE DEF n
<1>3. fromBag(b) = [i \in 1..n |-> [item |-> names[i], n |-> b[names[i]]]]
  BY <1>2 DEF fromBag, names
<1>4. fromBag(b) \in [1..n -> Row]
  BY <1>1, <1>2, <1>3 DEF Row
<1> QED
  BY <1>2, <1>4, IsSeq

\* merged: two bags put together are a bag.
LEMMA Merged ==
  ASSUME NEW a \in Bag, NEW b \in Bag
  PROVE  merged(a, b) \in Bag
<1>1. /\ IsFiniteSet(DOMAIN a) /\ DOMAIN a \subseteq Item
      /\ IsFiniteSet(DOMAIN b) /\ DOMAIN b \subseteq Item
  BY BagType
<1>2. IsFiniteSet(DOMAIN a \cup DOMAIN b)
  BY <1>1, FS_Union
<1>3. \A k : bagCount(a, k) + bagCount(b, k) \in Nat
  BY BagCount
<1>4. merged(a, b) \in [DOMAIN a \cup DOMAIN b -> Nat]
  BY <1>3 DEF merged
<1>5. DOMAIN merged(a, b) = DOMAIN a \cup DOMAIN b
  BY DEF merged
<1> QED
  BY <1>1, <1>2, <1>4, <1>5, BagType

\* The rows of some numbers, in their order.
LEMMA RowsAt ==
  ASSUME NEW rows \in Seq(Row), NEW S \in SUBSET (1..Len(rows))
  PROVE  rowsAt(rows, S) \in Seq(Row) /\ IsFiniteSet(S)
<1> DEFINE n == Cardinality(S)
           kept == inOrder(S)
<1> HIDE DEF kept
<1>1. Len(rows) \in Nat /\ \A i \in 1..Len(rows) : rows[i] \in Row
  OBVIOUS
<1>2. IsFiniteSet(S) /\ S \in SUBSET Nat
  <2>1. IsFiniteSet(1..Len(rows))
    BY <1>1, FS_Interval
  <2>2. IsFiniteSet(S)
    BY <2>1, FS_Subset
  <2> QED
    BY <1>1, <2>2
<1>3. n \in Nat /\ kept \in [1..n -> S]
  BY <1>2, InOrder DEF kept
<1> HIDE DEF n
<1>4. rowsAt(rows, S) = [i \in 1..n |-> rows[kept[i]]]
  BY <1>3 DEF rowsAt, kept
<1>5. rowsAt(rows, S) \in [1..n -> Row]
  BY <1>1, <1>3, <1>4
<1> QED
  BY <1>2, <1>3, <1>5, IsSeq

---------------------------------------------------------------------------
(* The inventories of the sheet on show *)

\* One is picked if there is one, and then the table points to those of the list.
Picked(inv) ==
  /\ inv.at <= Len(inv.list)
  /\ inv.at = 0 <=> inv.list = <<>>
  /\ inv.at # 0 => inv.targets = Len(inv.list) - 1 /\ ~inv.loose

LEMMA EmptyInventoryPicked == EmptyInventory \in Inventory /\ Picked(EmptyInventory)
BY DEF EmptyInventory, Inventory, Picked

\* The fields of an inventory on show.
LEMMA InventoryTypes ==
  ASSUME NEW inv \in Inventory
  PROVE  /\ inv.list \in Seq(Bag) /\ Len(inv.list) \in Nat /\ inv.at \in Nat
         /\ \A k \in 1..Len(inv.list) : inv.list[k] \in Bag
         /\ inv.rows \in Seq(Row) /\ Len(inv.rows) \in Nat /\ DOMAIN inv.rows = 1..Len(inv.rows)
         /\ DOMAIN inv.list = 1..Len(inv.list)
         /\ inv.targets \in Nat /\ inv.loose \in BOOLEAN /\ inv.editable \in BOOLEAN
BY DEF Inventory

\* updateInventory: the rows on show become the inventory picked, the others stay.
LEMMA Updated ==
  ASSUME NEW inv \in Inventory, Picked(inv)
  PROVE  /\ updateInventory(inv) \in Inventory /\ Picked(updateInventory(inv))
         /\ Len(updateInventory(inv).list) = Len(inv.list)
         /\ updateInventory(inv) = [inv EXCEPT !.list = updateInventory(inv).list]
         /\ updateInventory(inv).list = [k \in 1..Len(inv.list) |->
              IF k = inv.at THEN fromRows(inv.rows) ELSE inv.list[k]]
<1> DEFINE list == [k \in 1..Len(inv.list) |->
                      IF k = inv.at THEN fromRows(inv.rows) ELSE inv.list[k]]
<1>1. fromRows(inv.rows) \in Bag
  BY InventoryTypes, FromRows
<1>2. list \in Seq(Bag) /\ Len(list) = Len(inv.list)
  <2>1. list \in [1..Len(inv.list) -> Bag]
    BY <1>1, InventoryTypes
  <2> QED
    BY <2>1, InventoryTypes, IsSeq
<1>3. updateInventory(inv).list = list
  <2>1. CASE inv.at = 0
    BY <2>1, InventoryTypes DEF updateInventory
  <2>2. CASE inv.at # 0
    BY <2>2, InventoryTypes DEF updateInventory, Inventory, Picked
  <2> QED
    BY <2>1, <2>2
<1>4. updateInventory(inv) = [inv EXCEPT !.list = updateInventory(inv).list]
  BY DEF updateInventory, Inventory
<1> HIDE DEF list
<1>5. updateInventory(inv) \in Inventory
  BY <1>2, <1>3, <1>4 DEF Inventory
<1>6. (inv.list = <<>> <=> Len(inv.list) = 0) /\ (list = <<>> <=> Len(list) = 0)
  BY <1>2, InventoryTypes
<1>7. Picked(updateInventory(inv))
  BY <1>2, <1>3, <1>4, <1>6 DEF Picked, Inventory
<1> QED
  BY <1>2, <1>3, <1>4, <1>5, <1>7 DEF list

\* The inventories of a list, the k-th in the table, or none.
Shows(inv, list, k, readOnly) ==
  /\ inv \in Inventory /\ Picked(inv)
  /\ inv.list = list /\ inv.at = k /\ inv.rows = fromBag(list[k])
  /\ inv.editable = ~readOnly /\ inv.loose = FALSE

ShowsNone(inv, before) ==
  /\ inv \in Inventory /\ Picked(inv)
  /\ inv.list = <<>> /\ inv.at = 0 /\ inv.rows = before.rows
  /\ inv.editable = before.editable /\ inv.targets = before.targets /\ inv.loose = TRUE

\* loadInventory shows the inventory asked for.
LEMMA Loaded ==
  ASSUME NEW inv \in Inventory, NEW k \in 1..Len(inv.list), NEW readOnly \in BOOLEAN
  PROVE  Shows(loadInventory(inv, k, readOnly), inv.list, k, readOnly)
<1>1. Len(inv.list) \in Nat /\ Len(inv.list) # 0 /\ inv.list # <<>>
  BY InventoryTypes
<1>2. fromBag(inv.list[k]) \in Seq(Row)
  BY InventoryTypes, FromBag
<1>3. Len(inv.list) - 1 \in Nat /\ k \in Nat /\ k # 0 /\ k <= Len(inv.list)
  BY <1>1
<1> DEFINE loaded == loadInventory(inv, k, readOnly)
<1>4. /\ loaded.list = inv.list /\ loaded.at = k /\ loaded.rows = fromBag(inv.list[k])
      /\ loaded.editable = ~readOnly /\ loaded.targets = Len(inv.list) - 1
      /\ loaded.loose = FALSE
  BY DEF loadInventory, Inventory
<1>5. loaded \in Inventory
  BY <1>2, <1>3 DEF loadInventory, Inventory
<1> HIDE DEF loaded
<1>6. Picked(loaded)
  BY <1>1, <1>3, <1>4 DEF Picked
<1> QED
  BY <1>4, <1>5, <1>6 DEF loaded, Shows

\* loadInventories shows the last inventory, or none where there is none.
LEMMA AllLoaded ==
  ASSUME NEW inv \in Inventory, NEW list \in Seq(Bag), NEW readOnly \in BOOLEAN
  PROVE  IF list = <<>> THEN ShowsNone(loadInventories(inv, list, readOnly), inv)
         ELSE /\ Shows(loadInventories(inv, list, readOnly), list, Len(list), readOnly)
              /\ Len(list) \in 1..Len(list)
<1>1. CASE list = <<>>
  <2> DEFINE none == [inv EXCEPT !.list = <<>>, !.at = 0, !.loose = TRUE]
  <2>1. /\ none \in Inventory /\ none.list = <<>> /\ none.at = 0 /\ none.loose = TRUE
        /\ none.targets = inv.targets /\ none.rows = inv.rows /\ none.editable = inv.editable
    <3>1. <<>> \in Seq(Bag) /\ 0 \in Nat
      OBVIOUS
    <3> QED
      BY <3>1 DEF Inventory
  <2>2. loadInventories(inv, list, readOnly) = none
    BY <1>1 DEF loadInventories
  <2> HIDE DEF none
  <2>3. Len(none.list) = 0
    BY <2>1
  <2>4. Picked(none)
    BY <2>1, <2>3 DEF Picked
  <2> QED
    BY <1>1, <2>1, <2>2, <2>4 DEF ShowsNone
<1>2. CASE list # <<>>
  <2> DEFINE before == [inv EXCEPT !.list = list]
  <2>1. before \in Inventory /\ before.list = list
    BY DEF Inventory
  <2>2. Len(list) \in 1..Len(list)
    BY <1>2
  <2>3. loadInventories(inv, list, readOnly) = loadInventory(before, Len(list), readOnly)
    BY <1>2 DEF loadInventories
  <2> HIDE DEF before
  <2>4. Shows(loadInventory(before, Len(list), readOnly), before.list, Len(list), readOnly)
    BY <2>1, <2>2, Loaded
  <2> QED
    BY <1>2, <2>1, <2>2, <2>3, <2>4
<1> QED
  BY <1>1, <1>2

\* What the user does to them, the rows of the table being kept when another is picked.
LEMMA Selected ==
  ASSUME NEW inv \in Inventory, Picked(inv), NEW k \in 1..Len(inv.list),
         NEW readOnly \in BOOLEAN
  PROVE  /\ onSelectedIndexChanged(inv, k, readOnly) \in Inventory
         /\ Picked(onSelectedIndexChanged(inv, k, readOnly))
         /\ onSelectedIndexChanged(inv, k, readOnly).loose = FALSE
<1> DEFINE before == IF readOnly THEN inv ELSE updateInventory(inv)
<1>1. before \in Inventory /\ Len(before.list) = Len(inv.list)
  BY Updated
<1>2. onSelectedIndexChanged(inv, k, readOnly) = loadInventory(before, k, readOnly)
  BY DEF onSelectedIndexChanged
<1> HIDE DEF before
<1>3. k \in 1..Len(before.list)
  BY <1>1
<1>4. Shows(loadInventory(before, k, readOnly), before.list, k, readOnly)
  BY <1>1, <1>3, Loaded
<1> QED
  BY <1>2, <1>4 DEF Shows

\* addButtonPressed: an inventory is added, and one is picked.
LEMMA Added ==
  ASSUME NEW inv \in Inventory, Picked(inv)
  PROVE  /\ addButtonPressed(inv, FALSE) \in Inventory
         /\ Picked(addButtonPressed(inv, FALSE))
         /\ addButtonPressed(inv, FALSE).loose = FALSE
<1> DEFINE list == Append(updateInventory(inv).list, NoBag)
<1>1. updateInventory(inv) \in Inventory
  BY Updated
<1>2. list \in Seq(Bag) /\ list # <<>>
  <2>1. updateInventory(inv).list \in Seq(Bag)
    BY <1>1, InventoryTypes
  <2> QED
    BY <2>1, NoBagType
<1>3. addButtonPressed(inv, FALSE) = loadInventories(inv, list, FALSE)
  BY DEF addButtonPressed
<1> HIDE DEF list
<1>4. Shows(loadInventories(inv, list, FALSE), list, Len(list), FALSE)
  BY <1>2, AllLoaded
<1> QED
  BY <1>3, <1>4 DEF Shows

\* deleteInventory: pointers stay loose only when none is left to move items to.
LEMMA Deleted ==
  ASSUME NEW inv \in Inventory, Picked(inv), inv.at # 0, NEW readOnly \in BOOLEAN
  PROVE  /\ deleteInventory(inv, readOnly) \in Inventory
         /\ Picked(deleteInventory(inv, readOnly))
         /\ deleteInventory(inv, readOnly).loose => deleteInventory(inv, readOnly).targets = 0
<1> DEFINE list == RemoveAt(inv.list, inv.at)
<1>1. inv.at \in 1..Len(inv.list)
  BY InventoryTypes DEF Picked
<1>2. list \in Seq(Bag) /\ Len(list) = Len(inv.list) - 1
  BY <1>1, InventoryTypes, Removed
<1>3. deleteInventory(inv, readOnly) = loadInventories(inv, list, readOnly)
  BY DEF deleteInventory
<1> HIDE DEF list
<1>4. list = <<>> => inv.targets = 0
  BY <1>2, InventoryTypes DEF Picked
<1>5. IF list = <<>> THEN ShowsNone(loadInventories(inv, list, readOnly), inv)
      ELSE Shows(loadInventories(inv, list, readOnly), list, Len(list), readOnly)
  BY <1>2, AllLoaded
<1> QED
  BY <1>3, <1>4, <1>5 DEF Shows, ShowsNone

LEMMA RowsChanged ==
  ASSUME NEW inv \in Inventory, Picked(inv), NEW rows \in Seq(Row)
  PROVE  [inv EXCEPT !.rows = rows] \in Inventory /\ Picked([inv EXCEPT !.rows = rows])
BY DEF Inventory, Picked

LEMMA ListChanged ==
  ASSUME NEW inv \in Inventory, Picked(inv), NEW k \in 1..Len(inv.list), NEW b \in Bag
  PROVE  [inv EXCEPT !.list[k] = b] \in Inventory /\ Picked([inv EXCEPT !.list[k] = b])
<1> DEFINE list == [inv.list EXCEPT ![k] = b]
<1>1. list \in Seq(Bag) /\ Len(list) = Len(inv.list)
  <2>1. list \in [1..Len(inv.list) -> Bag]
    BY InventoryTypes
  <2> QED
    BY <2>1, InventoryTypes, IsSeq
<1>2. [inv EXCEPT !.list[k] = b] = [inv EXCEPT !.list = list]
  OBVIOUS
<1>3. (inv.list = <<>> <=> Len(inv.list) = 0) /\ (list = <<>> <=> Len(list) = 0)
  BY <1>1, InventoryTypes
<1> HIDE DEF list
<1> QED
  BY <1>1, <1>2, <1>3 DEF Inventory, Picked

\* moveInventoryItems keeps an inventory picked.
LEMMA Moved ==
  ASSUME NEW inv \in Inventory, Picked(inv), NEW S \in SUBSET (1..Len(inv.rows)),
         NEW k \in 1..Len(inv.list)
  PROVE  /\ moveInventoryItems(inv, S, k) \in Inventory
         /\ Picked(moveInventoryItems(inv, S, k))
<1> DEFINE left == removeRows(inv.rows, S)
           bag == merged(inv.list[k], fromRows(rowsAt(inv.rows, S)))
           before == [inv EXCEPT !.rows = left]
<1>1. left \in Seq(Row)
  <2>1. 1..Len(inv.rows) \ S \in SUBSET (1..Len(inv.rows))
    OBVIOUS
  <2> QED
    BY <2>1, InventoryTypes, RowsAt DEF removeRows
<1>2. bag \in Bag
  <2>1. fromRows(rowsAt(inv.rows, S)) \in Bag
    BY InventoryTypes, RowsAt, FromRows
  <2> QED
    BY <2>1, InventoryTypes, Merged
<1>3. moveInventoryItems(inv, S, k) = [before EXCEPT !.list[k] = bag]
  BY DEF moveInventoryItems, Inventory
<1> HIDE DEF left, bag
<1>4. before \in Inventory /\ Picked(before) /\ before.list = inv.list
  BY <1>1, RowsChanged DEF Inventory
<1> HIDE DEF before
<1>5. k \in 1..Len(before.list)
  BY <1>4
<1> QED
  BY <1>2, <1>3, <1>4, <1>5, ListChanged

\* splitInventoryItem keeps an inventory picked.
LEMMA Split ==
  ASSUME NEW inv \in Inventory, Picked(inv), NEW i \in 1..Len(inv.rows),
         NEW n \in 0..inv.rows[i].n - 1, NEW k \in 1..Len(inv.list)
  PROVE  /\ splitInventoryItem(inv, i, n, k) \in Inventory
         /\ Picked(splitInventoryItem(inv, i, n, k))
<1> DEFINE row == [inv.rows[i] EXCEPT !.n = @ - n]
           rows == [inv.rows EXCEPT ![i] = row]
           split == [x \in {inv.rows[i].item} |-> n]
           bag == merged(inv.list[k], split)
           before == [inv EXCEPT !.rows = rows]
<1>1. inv.rows[i] \in Row /\ inv.rows[i].n \in Nat /\ inv.rows[i].item \in Item /\ n \in Nat
  <2>1. inv.rows[i] \in Row
    BY InventoryTypes
  <2>2. inv.rows[i].n \in Nat /\ inv.rows[i].item \in Item
    BY <2>1 DEF Row
  <2> QED
    BY <2>1, <2>2
<1>2. rows \in Seq(Row)
  <2>1. row \in Row
    BY <1>1 DEF Row
  <2> HIDE DEF row
  <2>2. rows \in [1..Len(inv.rows) -> Row]
    BY <2>1, InventoryTypes
  <2> QED
    BY <2>2, InventoryTypes, IsSeq
<1>3. bag \in Bag
  <2>1. IsFiniteSet({inv.rows[i].item})
    BY FS_Singleton
  <2>2. split \in [{inv.rows[i].item} -> Nat] /\ DOMAIN split = {inv.rows[i].item}
    BY <1>1
  <2>3. split \in Bag
    BY <1>1, <2>1, <2>2, BagType
  <2> QED
    BY <2>3, InventoryTypes, Merged
<1>4. splitInventoryItem(inv, i, n, k) = [before EXCEPT !.list[k] = bag]
  BY InventoryTypes DEF splitInventoryItem, Inventory
<1> HIDE DEF rows, bag
<1>5. before \in Inventory /\ Picked(before) /\ before.list = inv.list
  BY <1>2, RowsChanged DEF Inventory
<1> HIDE DEF before
<1>6. k \in 1..Len(before.list)
  BY <1>5
<1> QED
  BY <1>3, <1>4, <1>5, <1>6, ListChanged

---------------------------------------------------------------------------
(* Saving and showing *)

\* A table of sheets, as a function.
LEMMA SheetsType ==
  ASSUME NEW S, NEW f
  PROVE  f \in Sheets(S) <=> DOMAIN f \subseteq S /\ f \in [DOMAIN f -> Sheet]
<1>1. ASSUME f \in Sheets(S)
      PROVE  DOMAIN f \subseteq S /\ f \in [DOMAIN f -> Sheet]
  <2>1. PICK D \in SUBSET S : f \in [D -> Sheet]
    BY <1>1 DEF Sheets
  <2> QED
    BY <2>1
<1>2. ASSUME DOMAIN f \subseteq S, f \in [DOMAIN f -> Sheet]
      PROVE  f \in Sheets(S)
  BY <1>2 DEF Sheets
<1> QED
  BY <1>1, <1>2

\* Inserting a sheet in a table.
LEMMA Inserted ==
  ASSUME NEW S, NEW f \in Sheets(S), NEW c \in S, NEW sheet \in Sheet
  PROVE  /\ insert(f, c, sheet) \in Sheets(S)
         /\ DOMAIN insert(f, c, sheet) = DOMAIN f \cup {c}
         /\ \A d \in DOMAIN f \cup {c} : insert(f, c, sheet)[d] = IF d = c THEN sheet ELSE f[d]
<1>1. DOMAIN f \subseteq S /\ f \in [DOMAIN f -> Sheet]
  BY SheetsType
<1>2. DOMAIN insert(f, c, sheet) = DOMAIN f \cup {c}
  BY DEF insert
<1>3. insert(f, c, sheet) \in [DOMAIN f \cup {c} -> Sheet]
  BY <1>1 DEF insert
<1>4. insert(f, c, sheet) \in Sheets(S)
  BY <1>1, <1>2, <1>3, SheetsType
<1> QED
  BY <1>2, <1>4 DEF insert

\* For the characters of a session.
InsertedIn(g, f, c) == g \in Sheets(Id) /\ DOMAIN g = DOMAIN f \cup {c} /\ c \in DOMAIN g

LEMMA InsertedInSession ==
  ASSUME NEW f, f \in Sheets(Id), NEW c, c \in Id, NEW sheet, sheet \in Sheet
  PROVE  InsertedIn(insert(f, c, sheet), f, c)
<1>1. DOMAIN f \subseteq Id /\ f \in [DOMAIN f -> Sheet]
  BY SheetsType
<1>2. DOMAIN insert(f, c, sheet) = DOMAIN f \cup {c}
  BY DEF insert
<1>3. insert(f, c, sheet) \in [DOMAIN f \cup {c} -> Sheet]
  BY <1>1 DEF insert
<1>4. insert(f, c, sheet) \in Sheets(Id)
  BY <1>1, <1>2, <1>3, SheetsType
<1> QED
  BY <1>2, <1>4 DEF InsertedIn

LEMMA NobodyType == \A S : Nobody \in Sheets(S)
<1>1. DOMAIN Nobody = {} /\ Nobody \in [{} -> Sheet]
  BY DEF Nobody
<1> QED
  BY <1>1, SheetsType

LEMMA NewCharacterType == NewCharacter \in Sheet
BY DEF NewCharacter, character, Sheet

LEMMA PlaceholderType ==
  Placeholder \in Entry /\ ~isSavable(Placeholder) /\ Placeholder.id = NoId
BY DEF Placeholder, item, Entry, isSavable

LEMMA ItemFields ==
  \A c, o : item(c, o).id = c /\ item(c, o).origin = o
BY DEF item

LEMMA EntryFacts ==
  ASSUME NEW e \in Entry
  PROVE  /\ e.id \in Id \cup {NoId} /\ e.origin \in Origin
         /\ isSavable(e) <=> e.origin = "Local"
         /\ e.origin = "Local" => e.id \in Local /\ e = item(e.id, "Local")
         /\ e.origin = "Remote" => e.id \in Remote /\ e = item(e.id, "Remote")
         /\ e.origin = "Unknown" => e = Placeholder
         /\ e.id = NoId => e = Placeholder
BY IdsAssumption DEF Entry, item, Placeholder, Origin, isSavable, Id

LEMMA UiTypes ==
  ASSUME NEW u \in Ui
  PROVE  /\ u.db \in Sheets(Local) /\ u.file \in File /\ u.version \in {NoVersion, apiVersion}
         /\ u.combo.items \in Seq(Entry) /\ Len(u.combo.items) \in Nat /\ u.combo.at \in Nat
         /\ u.selection \in Entry /\ u.sheet.id \in Id \cup {NoId} /\ u.sheet.tabs \in Nat
         /\ u.sheet.readOnly \in BOOLEAN /\ u.inventory \in Inventory
         /\ u.dialog.kind \in DialogKind /\ u.dialog.rows \in SUBSET Nat /\ u.dialog.at \in Nat
         /\ u.dialog.crossed \in BOOLEAN /\ u.told \in Seq(Sheet)
         /\ u.spoilt \in SUBSET (Id \cup {NoId}) /\ u.slips \in SUBSET Slip
         /\ u.combo \in Combos
BY DEF Ui, Combos

\* The sheet on show is the one picked, and is in the database if it can be saved.
Matched(u) ==
  isSavable(u.selection) /\ u.sheet.id # NoId
    => u.sheet.id = u.selection.id /\ u.sheet.id \in DOMAIN u.db

\* Items are moved from a table that shows another sheet's inventory.
LoosePointers(u) == u.inventory.loose /\ u.inventory.targets > 0 => "loose" \in u.slips

Good(u) ==
  /\ u \in Ui /\ Picked(u.inventory) /\ u.combo.at <= Len(u.combo.items)
  /\ Matched(u) /\ LoosePointers(u)

saves(u) == isSavable(u.selection) /\ ~u.sheet.readOnly /\ u.sheet.id # NoId

\* What saving leaves alone.
SameButSaved(v, u) ==
  /\ v.version = u.version /\ v.combo = u.combo /\ v.selection = u.selection
  /\ v.sheet = u.sheet /\ v.dialog = u.dialog /\ v.spoilt = u.spoilt /\ v.slips = u.slips
  /\ v.inventory.loose = u.inventory.loose /\ v.inventory.targets = u.inventory.targets
  /\ v.inventory.at = u.inventory.at /\ v.inventory.rows = u.inventory.rows
  /\ v.inventory.editable = u.inventory.editable
  /\ Len(v.inventory.list) = Len(u.inventory.list) /\ DOMAIN v.db = DOMAIN u.db

\* What the widgets hold, made a sheet again, is a sheet.
LEMMA Generated ==
  ASSUME NEW u, Good(u)
  PROVE  generateCharacter(u) \in Sheet
<1>1. updateInventory(u.inventory) \in Inventory
  BY UiTypes, Updated DEF Good
<1>2. u.sheet.tabs \in Nat
  BY UiTypes DEF Good
<1> QED
  BY <1>1, <1>2, InventoryTypes DEF generateCharacter, character, Sheet

\* v is u with the sheet on show saved, if it is one's own.
SavedAs(v, u, tell) ==
  /\ Good(v) /\ SameButSaved(v, u)
  /\ saves(u) => /\ u.sheet.id \in DOMAIN u.db
                 /\ v.db = [u.db EXCEPT ![u.sheet.id] = generateCharacter(u)]
                 /\ v.told = IF tell THEN Append(u.told, generateCharacter(u)) ELSE u.told
                 /\ v.inventory = updateInventory(u.inventory)
                 /\ v.file = saveAsFile(u.version, v.db)
  /\ ~saves(u) => v = u

\* Saving changes one entry of the table at most, tells of it when asked to and keeps the rest.
LEMMA Saved ==
  ASSUME NEW u, Good(u), NEW tell \in BOOLEAN
  PROVE  SavedAs(maySaveCurrentCharacter(u, tell), u, tell)
<1> DEFINE v == maySaveCurrentCharacter(u, tell)
<1>1. CASE ~saves(u)
  <2>1. v = u
    BY <1>1 DEF maySaveCurrentCharacter, saves
  <2> HIDE DEF v
  <2> QED
    BY <1>1, <2>1 DEF SameButSaved, SavedAs, v
<1>2. CASE saves(u)
  <2> DEFINE sheet == generateCharacter(u)
             db == insert(u.db, u.sheet.id, sheet)
             inv == updateInventory(u.inventory)
             told == IF tell THEN Append(u.told, sheet) ELSE u.told
             w == [u EXCEPT !.inventory = inv, !.db = db, !.file = saveAsFile(u.version, db),
                            !.told = told]
  <2>1. u \in Ui /\ u.sheet.id \in DOMAIN u.db /\ u.sheet.id \in Local
    BY <1>2, UiTypes, SheetsType DEF Good, Matched, saves
  <2>2. sheet \in Sheet
    BY Generated
  <2>3. /\ inv \in Inventory /\ Picked(inv) /\ inv.loose = u.inventory.loose
        /\ inv.targets = u.inventory.targets /\ inv.at = u.inventory.at
        /\ inv.rows = u.inventory.rows /\ inv.editable = u.inventory.editable
        /\ Len(inv.list) = Len(u.inventory.list)
    <3>1. u.inventory \in Inventory /\ Picked(u.inventory)
      BY UiTypes DEF Good
    <3>2. /\ inv \in Inventory /\ Picked(inv) /\ Len(inv.list) = Len(u.inventory.list)
          /\ inv = [u.inventory EXCEPT !.list = inv.list]
      BY <3>1, Updated
    <3> HIDE DEF inv
    <3> QED
      BY <3>1, <3>2 DEF Inventory
  <2>4. db \in Sheets(Local) /\ DOMAIN db = DOMAIN u.db /\ db[u.sheet.id] = sheet
    <3>1. u.db \in Sheets(Local)
      BY <2>1, UiTypes
    <3>2. u.sheet.id \in DOMAIN u.db /\ DOMAIN u.db \cup {u.sheet.id} = DOMAIN u.db
      BY <2>1
    <3> HIDE DEF sheet
    <3> DEFINE f == u.db
               id == u.sheet.id
    <3>3. f \in Sheets(Local) /\ id \in Local /\ DOMAIN f \cup {id} = DOMAIN f
      BY <2>1, <3>1, <3>2
    <3> HIDE DEF f, id
    <3>4. /\ insert(f, id, sheet) \in Sheets(Local)
          /\ DOMAIN insert(f, id, sheet) = DOMAIN f \cup {id}
          /\ \A d \in DOMAIN f \cup {id} :
               insert(f, id, sheet)[d] = IF d = id THEN sheet ELSE f[d]
      BY <2>2, <3>3, Inserted
    <3>5. /\ insert(f, id, sheet) \in Sheets(Local) /\ DOMAIN insert(f, id, sheet) = DOMAIN f
          /\ insert(f, id, sheet)[id] = sheet
      BY <3>3, <3>4
    <3> QED
      BY <3>5 DEF f, id
  <2>5. db = [u.db EXCEPT ![u.sheet.id] = sheet]
    <3>1. u.db \in [DOMAIN u.db -> Sheet]
      BY <2>1, UiTypes, SheetsType
    <3> QED
      BY <2>1, <3>1 DEF insert
  <2>6. v = w
    <3> HIDE DEF sheet
    <3>1. maySaveCurrentCharacter(u, tell) =
            LET x == updateCharacter([u EXCEPT !.inventory = updateInventory(@)], u.sheet.id,
                                     sheet)
            IN IF tell THEN [x EXCEPT !.told = Append(@, x.db[u.sheet.id])] ELSE x
      BY <1>2 DEF maySaveCurrentCharacter, saves, sheet
    <3> DEFINE x == updateCharacter([u EXCEPT !.inventory = inv], u.sheet.id, sheet)
    <3>2. x = [u EXCEPT !.inventory = inv, !.db = db, !.file = saveAsFile(u.version, db)]
      <4> HIDE DEF db, inv
      <4> QED
        BY <2>1 DEF updateCharacter, write, Ui, db
    <3>3. x.db[u.sheet.id] = sheet /\ x.told = u.told
      <4> HIDE DEF db, inv, x
      <4> QED
        BY <2>1, <2>4, <3>2 DEF Ui
    <3>4. v = IF tell THEN [x EXCEPT !.told = Append(@, sheet)] ELSE x
      <4> HIDE DEF db
      <4> QED
        BY <3>1, <3>3
    <3> HIDE DEF db, inv, x, v
    <3>5. CASE tell
      BY <2>1, <3>2, <3>4, <3>5 DEF Ui
    <3>6. CASE ~tell
      BY <2>1, <3>2, <3>4, <3>6 DEF Ui
    <3> QED
      BY <3>5, <3>6
  <2>7. told \in Seq(Sheet)
    BY <2>1, <2>2, UiTypes
  <2>8. saveAsFile(u.version, db) \in File
    <3> HIDE DEF db
    <3> QED
      BY <2>1, <2>4, UiTypes DEF saveAsFile, File
  <2> HIDE DEF sheet, db, inv, told, v
  <2>9. w \in Ui
    BY <2>1, <2>3, <2>4, <2>7, <2>8 DEF Ui
  <2>10. /\ w.version = u.version /\ w.combo = u.combo /\ w.selection = u.selection
         /\ w.sheet = u.sheet /\ w.dialog = u.dialog /\ w.spoilt = u.spoilt /\ w.slips = u.slips
         /\ w.inventory = inv /\ w.db = db /\ w.told = told /\ w.file = saveAsFile(u.version, db)
    BY <2>1 DEF Ui
  <2> HIDE DEF w
  <2>11. Good(w)
    BY <2>3, <2>4, <2>9, <2>10 DEF Good, Matched, LoosePointers
  <2>12. SameButSaved(w, u)
    BY <2>3, <2>4, <2>10 DEF SameButSaved
  <2> QED
    BY <1>2, <2>1, <2>5, <2>6, <2>10, <2>11, <2>12 DEF sheet, told, inv, v, SavedAs
<1> QED
  BY <1>1, <1>2

\* Loading a sheet unsettles the dialogs that are about the one on show.
crossed(dialog) ==
  IF dialog.kind \in {"none", "character"} THEN dialog ELSE [dialog EXCEPT !.crossed = TRUE]

\* w is v with a sheet on show.
Displays(w, v, selection, c, sheet) ==
  /\ Good(w)
  /\ w.db = v.db /\ w.version = v.version /\ w.file = v.file /\ w.combo = v.combo
  /\ w.told = v.told /\ w.selection = selection
  /\ w.sheet = [id |-> c, tabs |-> sheet.tabs, readOnly |-> ~isSavable(selection)]
  /\ w.inventory = loadInventories(v.inventory, sheet.bags, ~isSavable(selection))
  /\ w.dialog = crossed(v.dialog)
  /\ w.slips = IF sheet.bags = <<>> THEN v.slips \cup {"loose"} ELSE v.slips
  /\ w.spoilt = IF c # NoId /\ c \in DOMAIN v.db /\ isSavable(selection) /\ v.db[c] # sheet
                THEN v.spoilt \cup {c} ELSE v.spoilt

\* What is asked to be shown: a character that is picked, from where it is from, or an
\* empty sheet.
Showable(u, selection, c, sheet) ==
  /\ selection \in Entry /\ c \in {NoId, selection.id} /\ sheet \in Sheet
  /\ isSavable(selection) /\ c # NoId => c \in DOMAIN u.db /\ sheet = u.db[c]

\* Showing the sheet picked makes the widgets and the selection match.
LEMMA Displayed ==
  ASSUME NEW v, Good(v), NEW selection, NEW c, NEW sheet, selection \in Entry,
         c \in {NoId, selection.id}, sheet \in Sheet,
         isSavable(selection) /\ c # NoId => c \in DOMAIN v.db
  PROVE  LET w == loadCharacter([v EXCEPT !.selection = selection], c, sheet,
                                ~isSavable(selection))
         IN Displays(IF c # NoId /\ c \in DOMAIN v.db /\ isSavable(selection) /\ v.db[c] # sheet
                     THEN spoil(w, c) ELSE w, v, selection, c, sheet)
<1> DEFINE readOnly == ~isSavable(selection)
           inv == loadInventories(v.inventory, sheet.bags, readOnly)
           shown == [id |-> c, tabs |-> sheet.tabs, readOnly |-> readOnly]
           slips == IF sheet.bags = <<>> THEN v.slips \cup {"loose"} ELSE v.slips
           spoiling == c # NoId /\ c \in DOMAIN v.db /\ isSavable(selection) /\ v.db[c] # sheet
           spoilt == IF spoiling THEN v.spoilt \cup {c} ELSE v.spoilt
           w == loadCharacter([v EXCEPT !.selection = selection], c, sheet, readOnly)
           x == [v EXCEPT !.selection = selection, !.sheet = shown, !.inventory = inv,
                          !.slips = slips, !.dialog = crossed(v.dialog), !.spoilt = spoilt]
<1>1. v \in Ui /\ v.inventory \in Inventory /\ v.slips \in SUBSET Slip
      /\ v.spoilt \in SUBSET (Id \cup {NoId})
  BY UiTypes DEF Good
<1>2. c \in Id \cup {NoId} /\ readOnly \in BOOLEAN /\ sheet.bags \in Seq(Bag) /\ sheet.tabs \in Nat
  BY EntryFacts DEF Sheet
<1>3. IF sheet.bags = <<>> THEN ShowsNone(inv, v.inventory)
      ELSE Shows(inv, sheet.bags, Len(sheet.bags), readOnly)
  <2> HIDE DEF readOnly
  <2> QED
    BY <1>1, <1>2, AllLoaded
<1>4. inv \in Inventory /\ Picked(inv) /\ inv.loose = (sheet.bags = <<>>)
  <2> HIDE DEF inv
  <2> QED
    BY <1>3 DEF Shows, ShowsNone
<1>5. slips \in SUBSET Slip /\ spoilt \in SUBSET (Id \cup {NoId})
  BY <1>1, <1>2 DEF Slip
<1>6. crossed(v.dialog) \in [kind : DialogKind, rows : SUBSET Nat, at : Nat, crossed : BOOLEAN]
  <2>1. v.dialog \in [kind : DialogKind, rows : SUBSET Nat, at : Nat, crossed : BOOLEAN]
    BY <1>1 DEF Ui
  <2> DEFINE d == v.dialog
  <2> HIDE DEF d
  <2>2. crossed(d) \in [kind : DialogKind, rows : SUBSET Nat, at : Nat, crossed : BOOLEAN]
    BY <2>1 DEF crossed, d
  <2> QED
    BY <2>2 DEF d
<1>7. shown \in [id : Id \cup {NoId}, tabs : Nat, readOnly : BOOLEAN]
  BY <1>2
<1>8. (IF spoiling THEN spoil(w, c) ELSE w) = x
  <2> DEFINE y == [v EXCEPT !.selection = selection, !.sheet = shown, !.inventory = inv,
                            !.slips = IF inv.loose THEN @ \cup {"loose"} ELSE @]
  <2>1. w = crossDialog(y)
    <3> HIDE DEF readOnly
    <3> QED
      BY <1>1 DEF loadCharacter, Ui
  <2> HIDE DEF inv, shown, readOnly, w
  <2>2. y.slips = slips /\ y.dialog = v.dialog /\ y.spoilt = v.spoilt
    BY <1>1, <1>4 DEF Ui
  <2>3. y = [v EXCEPT !.selection = selection, !.sheet = shown, !.inventory = inv,
                      !.slips = slips]
    BY <1>1, <1>4 DEF Ui
  <2> HIDE DEF slips, y
  <2>4. w = [v EXCEPT !.selection = selection, !.sheet = shown, !.inventory = inv,
                      !.slips = slips, !.dialog = crossed(v.dialog)]
    BY <1>1, <2>1, <2>2, <2>3 DEF crossDialog, crossed, Ui
  <2>5. w.spoilt = v.spoilt
    BY <1>1, <2>4 DEF Ui
  <2> HIDE DEF spoiling
  <2> QED
    BY <1>1, <2>4, <2>5 DEF spoil, Ui
<1> HIDE DEF inv, slips, spoilt, shown, w
<1>9. x \in Ui
  BY <1>1, <1>4, <1>5, <1>6, <1>7 DEF Ui
<1>10. /\ x.db = v.db /\ x.version = v.version /\ x.file = v.file /\ x.combo = v.combo
       /\ x.told = v.told /\ x.selection = selection /\ x.sheet = shown /\ x.inventory = inv
       /\ x.slips = slips /\ x.dialog = crossed(v.dialog) /\ x.spoilt = spoilt
  BY <1>1 DEF Ui
<1>11. Matched(x)
  <2>1. isSavable(selection) /\ shown.id # NoId =>
          shown.id = selection.id /\ shown.id \in DOMAIN v.db
    BY DEF shown
  <2> HIDE DEF x
  <2> QED
    BY <1>10, <2>1 DEF Matched
<1>12. LoosePointers(x)
  <2>1. inv.loose => "loose" \in slips
    BY <1>4 DEF slips
  <2> HIDE DEF x
  <2> QED
    BY <1>10, <2>1 DEF LoosePointers
<1>13. x.combo.at <= Len(x.combo.items)
  BY <1>10 DEF Good
<1> HIDE DEF x
<1>14. Good(x)
  BY <1>4, <1>9, <1>10, <1>11, <1>12, <1>13 DEF Good
<1>15. Displays(x, v, selection, c, sheet)
  BY <1>10, <1>14 DEF Displays, shown, inv, slips, spoilt
<1> QED
  BY <1>8, <1>15 DEF w

\* onRequestedSheetToDisplay: the sheet on show is saved, then another shown.
LEMMA Requested ==
  ASSUME NEW u, Good(u), NEW selection, NEW c, NEW sheet,
         Showable(u, selection, c, sheet), NEW tell \in BOOLEAN
  PROVE  /\ SavedAs(maySaveCurrentCharacter(u, tell), u, tell)
         /\ Displays(onRequestedSheetToDisplay(u, selection, c, sheet, tell),
                     maySaveCurrentCharacter(u, tell), selection, c, sheet)
<1> DEFINE v == maySaveCurrentCharacter(u, tell)
<1>1. SavedAs(v, u, tell)
  BY Saved
<1>2. onRequestedSheetToDisplay(u, selection, c, sheet, tell) =
        LET w == loadCharacter([v EXCEPT !.selection = selection], c, sheet, ~isSavable(selection))
        IN IF c # NoId /\ c \in DOMAIN v.db /\ isSavable(selection) /\ v.db[c] # sheet
           THEN spoil(w, c) ELSE w
  BY DEF onRequestedSheetToDisplay
<1> HIDE DEF v
<1>3. Good(v) /\ DOMAIN v.db = DOMAIN u.db
  BY <1>1 DEF SavedAs, SameButSaved
<1>4. /\ selection \in Entry /\ c \in {NoId, selection.id} /\ sheet \in Sheet
      /\ isSavable(selection) /\ c # NoId => c \in DOMAIN v.db
  BY <1>3 DEF Showable
<1>5. LET w == loadCharacter([v EXCEPT !.selection = selection], c, sheet, ~isSavable(selection))
      IN Displays(IF c # NoId /\ c \in DOMAIN v.db /\ isSavable(selection) /\ v.db[c] # sheet
                  THEN spoil(w, c) ELSE w, v, selection, c, sheet)
  BY <1>3, <1>4, Displayed
<1> QED
  BY <1>1, <1>2, <1>5 DEF v

\* currentCharacter: the entry that the list points at.
LEMMA Current ==
  ASSUME NEW u, Good(u)
  PROVE  /\ currentCharacter(u.combo) \in Entry
         /\ u.combo.at # 0 => /\ u.combo.at \in 1..Len(u.combo.items)
                              /\ currentCharacter(u.combo) = u.combo.items[u.combo.at]
         /\ u.combo.at = 0 => currentCharacter(u.combo) = Placeholder
BY UiTypes, PlaceholderType DEF currentCharacter, Good

\* selectionChanged: what is shown is the item that is current.
Reselects(w, u, tell) ==
  \E c, sheet :
    /\ Showable(u, currentCharacter(u.combo), c, sheet)
    /\ SavedAs(maySaveCurrentCharacter(u, tell), u, tell)
    /\ Displays(w, maySaveCurrentCharacter(u, tell), currentCharacter(u.combo), c, sheet)

\* Another entry is picked: the sheet on show is saved first, then the other is shown.
LEMMA Reselected ==
  ASSUME NEW u, Good(u), NEW theirs \in Sheets(Id), NEW tell \in BOOLEAN
  PROVE  Reselects(selectionChanged(u, tell, theirs), u, tell)
<1> DEFINE i == currentCharacter(u.combo)
           found == CASE i.origin = "Local" -> u.db
                      [] i.origin = "Remote" -> theirs
                      [] OTHER -> Nobody
<1>1. i \in Entry
  BY Current
<1>2. u.db \in Sheets(Id)
  BY UiTypes, SheetsType DEF Good, Id
<1>3. found \in Sheets(Id)
  <2> HIDE DEF i
  <2> QED
    BY <1>1, <1>2, NobodyType, EntryFacts DEF Origin
<1>4. isSavable(i) => found = u.db
  BY DEF isSavable
<1> HIDE DEF i, found
<1>5. CASE i.id \in DOMAIN found
  <2>1. Showable(u, i, i.id, found[i.id])
    BY <1>1, <1>3, <1>4, <1>5, SheetsType DEF Showable
  <2>2. selectionChanged(u, tell, theirs) =
          onRequestedSheetToDisplay(u, i, i.id, found[i.id], tell)
    BY <1>5 DEF selectionChanged, i, found
  <2> QED
    BY <2>1, <2>2, Requested DEF Reselects, i
<1>6. CASE i.id \notin DOMAIN found
  <2>1. Showable(u, i, NoId, NewCharacter)
    BY <1>1, NewCharacterType DEF Showable
  <2>2. selectionChanged(u, tell, theirs) =
          onRequestedSheetToDisplay(u, i, NoId, NewCharacter, tell)
    BY <1>6 DEF selectionChanged, i, found
  <2> QED
    BY <2>1, <2>2, Requested DEF Reselects, i
<1> QED
  BY <1>5, <1>6

---------------------------------------------------------------------------
(* The list to pick from *)

Sound(c) == c \in Combos /\ c.at <= Len(c.items)
NoItems == [items |-> <<>>, at |-> 0]

\* One's own characters are listed once each.
OneEach(c) ==
  \A j, k \in 1..Len(c.items) : c.items[j].origin = "Local" /\ c.items[k] = c.items[j] => j = k

Lists(c, e) == \E k \in 1..Len(c.items) : c.items[k] = e

LEMMA ComboTypes ==
  ASSUME NEW c, Sound(c)
  PROVE  /\ c.items \in Seq(Entry) /\ Len(c.items) \in Nat /\ c.at \in Nat /\ c.at <= Len(c.items)
         /\ DOMAIN c.items = 1..Len(c.items) /\ \A k \in 1..Len(c.items) : c.items[k] \in Entry
         /\ c = [items |-> c.items, at |-> c.at]
         /\ currentCharacter(c) \in Entry
         /\ c.at # 0 => /\ c.at \in 1..Len(c.items) /\ currentCharacter(c) = c.items[c.at]
                        /\ Lists(c, currentCharacter(c))
         /\ c.at = 0 => currentCharacter(c) = Placeholder
BY PlaceholderType DEF Sound, Combos, currentCharacter, Lists

LEMMA SoundCombo == \A u : Good(u) => Sound(u.combo)
BY UiTypes DEF Good, Sound

LEMMA EmptyCombos ==
  /\ Sound(EmptyCombo) /\ Sound(NoItems) /\ OneEach(EmptyCombo) /\ OneEach(NoItems)
  /\ currentCharacter(EmptyCombo) = Placeholder /\ currentCharacter(NoItems) = Placeholder
  /\ \A e : ~Lists(NoItems, e) /\ (Lists(EmptyCombo, e) <=> e = Placeholder)
<1>1. <<Placeholder>> \in Seq(Entry) /\ <<>> \in Seq(Entry)
  BY PlaceholderType
<1>2. Len(<<Placeholder>>) = 1 /\ Len(<<>>) = 0 /\ <<Placeholder>>[1] = Placeholder
  OBVIOUS
<1> QED
  BY <1>1, <1>2 DEF EmptyCombo, NoItems, Sound, Combos, OneEach, Lists, currentCharacter

\* The list changes only where nothing is picked.
Toggles(r, c) ==
  /\ Sound(r) /\ r \in {c, EmptyCombo, NoItems}
  /\ r # c => currentCharacter(c) = Placeholder /\ currentCharacter(r) = Placeholder

\* mayTooglePlaceholder: at most the placeholder comes or leaves.
LEMMA Toggled ==
  ASSUME NEW c, Sound(c)
  PROVE  Toggles(mayTooglePlaceholder(c), c)
<1>1. CASE c.items = <<>>
  <2>1. c.at = 0
    BY <1>1, ComboTypes
  <2> QED
    BY <1>1, <2>1, ComboTypes, EmptyCombos DEF mayTooglePlaceholder, Toggles
<1>2. CASE c.items # <<>> /\ Len(c.items) = 1 /\ currentCharacter(c).id = NoId
  <2>1. currentCharacter(c) = Placeholder
    BY <1>2, ComboTypes, EntryFacts
  <2> QED
    BY <1>2, <2>1, EmptyCombos DEF mayTooglePlaceholder, Toggles, NoItems
<1>3. CASE c.items # <<>> /\ ~(Len(c.items) = 1 /\ currentCharacter(c).id = NoId)
  <2>1. mayTooglePlaceholder(c) = c
    BY <1>3 DEF mayTooglePlaceholder
  <2> QED
    BY <2>1 DEF Toggles
<1> QED
  BY <1>1, <1>2, <1>3

\* An entry is added at the end and the list stays sound.
LEMMA AddedItem ==
  ASSUME NEW c, Sound(c), NEW i \in Entry
  PROVE  LET r == addItem(c, i) IN
         /\ Sound(r) /\ r.items = Append(c.items, i)
         /\ Len(r.items) = Len(c.items) + 1 /\ r.items[Len(c.items) + 1] = i
         /\ \A k \in 1..Len(c.items) : r.items[k] = c.items[k]
         /\ r.at = IF c.items = <<>> THEN 1 ELSE c.at
         /\ r.at = c.at => currentCharacter(r) = currentCharacter(c)
<1> DEFINE r == addItem(c, i)
<1>1. r.items = Append(c.items, i) /\ r.at = IF c.items = <<>> THEN 1 ELSE c.at
  BY DEF addItem
<1>2. /\ Append(c.items, i) \in Seq(Entry) /\ Len(Append(c.items, i)) = Len(c.items) + 1
      /\ Append(c.items, i)[Len(c.items) + 1] = i
      /\ \A k \in 1..Len(c.items) : Append(c.items, i)[k] = c.items[k]
  BY ComboTypes
<1>3. Sound(r)
  <2>1. r.at \in Nat /\ r.at <= Len(c.items) + 1
    BY <1>1, ComboTypes
  <2>2. r = [items |-> r.items, at |-> r.at]
    BY DEF addItem
  <2> HIDE DEF r
  <2> QED
    BY <1>1, <1>2, <2>1, <2>2 DEF Sound, Combos
<1>4. r.at = c.at => currentCharacter(r) = currentCharacter(c)
  <2> HIDE DEF r
  <2> QED
    BY <1>1, <1>2, ComboTypes DEF currentCharacter
<1> QED
  BY <1>1, <1>2, <1>3, <1>4

\* An entry is removed and what the list points at is still in it.
LEMMA RemovedItem ==
  ASSUME NEW c, Sound(c), NEW k \in 1..Len(c.items), NEW r \in removeItem(c, k)
  PROVE  /\ Sound(r) /\ r.items = RemoveAt(c.items, k) /\ Len(r.items) = Len(c.items) - 1
         /\ \A j \in 1..Len(c.items) - 1 :
              r.items[j] = IF j < k THEN c.items[j] ELSE c.items[j + 1]
         /\ c.at # 0 /\ k < c.at => r.at = c.at - 1
         /\ k > c.at => r.at = c.at
         /\ c.at # 0 /\ k # c.at => currentCharacter(r) = currentCharacter(c)
         /\ k = c.at => r.at # c.at \/ r.at = 1
<1> DEFINE left == RemoveAt(c.items, k)
<1>1. c.items \in Seq(Entry) /\ Len(c.items) \in Nat /\ c.at \in 0..Len(c.items)
  BY ComboTypes
<1>2. /\ left \in Seq(Entry) /\ Len(left) = Len(c.items) - 1
      /\ \A j \in 1..Len(c.items) - 1 : left[j] = IF j < k THEN c.items[j] ELSE c.items[j + 1]
  BY <1>1, Removed
<1> DEFINE nextAt == IF left = <<>> THEN {0}
                     ELSE CASE k < c.at -> {c.at - 1}
                            [] k > c.at -> {c.at}
                            [] k = c.at /\ k > 1 -> {k - 1}
                            [] OTHER -> {0, 1}
<1> HIDE DEF nextAt
<1>3. PICK n \in nextAt : r = [items |-> left, at |-> n]
  BY DEF removeItem, nextAt
<1> HIDE DEF left
<1>4. left = <<>> <=> Len(left) = 0
  BY <1>2, NoElements
<1>5. /\ n \in Nat /\ n <= Len(left)
      /\ k < c.at => n = c.at - 1 /\ n # 0
      /\ k > c.at => n = c.at
      /\ k = c.at => n # c.at \/ n = 1
  <2>1. CASE left = <<>>
    <3>1. Len(left) = 0
      BY <1>4, <2>1
    <3>2. Len(left) = Len(c.items) - 1 /\ k \in 1..Len(c.items) /\ Len(c.items) \in Nat
      BY <1>1, <1>2
    <3>3. Len(c.items) = 1 /\ k = 1
      BY <3>1, <3>2
    <3>4. nextAt = {0}
      <4>1. c.at \in 0..1
        BY <1>1, <3>3
      <4>2. ~(k < c.at) /\ (k > c.at => c.at = 0) /\ ~(k = c.at /\ k > 1)
        BY <3>3, <4>1
      <4> QED
        BY <2>1, <4>2 DEF nextAt
    <3>5. n = 0
      BY <1>3, <3>4
    <3> QED
      BY <1>1, <3>1, <3>3, <3>5
  <2>2. CASE left # <<>>
    <3>1. Len(left) >= 1 /\ Len(c.items) >= 2
      BY <1>1, <1>2, <1>4, <2>2
    <3>2. CASE k < c.at
      BY <1>1, <1>2, <1>3, <2>2, <3>1, <3>2 DEF nextAt
    <3>3. CASE k > c.at
      BY <1>1, <1>2, <1>3, <2>2, <3>1, <3>3 DEF nextAt
    <3>4. CASE k = c.at /\ k > 1
      BY <1>1, <1>2, <1>3, <2>2, <3>1, <3>4 DEF nextAt
    <3>5. CASE k = c.at /\ ~(k > 1)
      BY <1>1, <1>2, <1>3, <2>2, <3>1, <3>5 DEF nextAt
    <3> QED
      BY <1>1, <3>2, <3>3, <3>4, <3>5
  <2> QED
    BY <2>1, <2>2
<1>6. r.items = left /\ r.at = n
  BY <1>3
<1>7. Sound(r)
  BY <1>2, <1>3, <1>5 DEF Sound, Combos
<1>8. c.at # 0 /\ k # c.at => currentCharacter(r) = currentCharacter(c)
  <2> SUFFICES ASSUME c.at # 0, k # c.at
               PROVE  r.items[r.at] = c.items[c.at] /\ r.at # 0
    BY DEF currentCharacter
  <2>1. CASE k < c.at
    <3>1. n = c.at - 1 /\ n \in 1..Len(c.items) - 1 /\ ~(n < k) /\ n + 1 = c.at
      BY <1>1, <1>5, <2>1
    <3> QED
      BY <1>2, <1>6, <3>1
  <2>2. CASE k > c.at
    <3>1. n = c.at /\ n \in 1..Len(c.items) - 1 /\ n < k
      BY <1>1, <1>5, <2>2
    <3> QED
      BY <1>2, <1>6, <3>1
  <2> QED
    BY <1>1, <2>1, <2>2
<1> QED
  BY <1>2, <1>5, <1>6, <1>7, <1>8 DEF left

\* The list of the characters of the database.
LEMMA LocalCombo ==
  ASSUME NEW ids \in SUBSET Local
  PROVE  /\ Sound(localCombo(ids)) /\ OneEach(localCombo(ids))
         /\ \A e : Lists(localCombo(ids), e) => e = Placeholder \/ e.id \in ids
<1>1. CASE ids = {}
  BY <1>1, EmptyCombos DEF localCombo
<1>2. CASE ids # {}
  <2> DEFINE n == Cardinality(ids)
             order == inOrder(ids)
             c == [items |-> [k \in 1..n |-> item(order[k], "Local")], at |-> 1]
  <2>1. IsFiniteSet(ids) /\ ids \in SUBSET Nat
    <3>1. IsFiniteSet(ids)
      BY IdsAssumption, FS_Subset
    <3> QED
      BY <3>1, IdsAssumption
  <2>2. /\ n \in Nat /\ order \in [1..n -> ids]
        /\ \A i, j \in 1..n : i < j => order[i] < order[j]
    BY <2>1, InOrder
  <2>3. n # 0
    BY <1>2, <2>1, FS_EmptySet
  <2> HIDE DEF n, order
  <2>4. localCombo(ids) = c
    BY <1>2, <2>2 DEF localCombo, order
  <2>5. c.items \in [1..n -> Entry]
    BY <2>2 DEF Entry
  <2>6. c.items \in Seq(Entry) /\ Len(c.items) = n
    BY <2>2, <2>5, IsSeq
  <2>7. Sound(c)
    BY <2>2, <2>3, <2>6 DEF Sound, Combos
  <2>8. \A k \in 1..n : c.items[k] = item(order[k], "Local") /\ order[k] \in ids /\ order[k] \in Nat
    BY <2>1, <2>2
  <2> HIDE DEF c
  <2>9. ASSUME NEW j \in 1..n, NEW k \in 1..n, c.items[j] = c.items[k]
        PROVE  j = k
    <3>1. order[j] = order[k] /\ order[j] \in Nat
      BY <2>8, <2>9, ItemFields
    <3> QED
      BY <2>2, <3>1
  <2>10. OneEach(c)
    BY <2>6, <2>9 DEF OneEach
  <2>11. \A e : Lists(c, e) => e.id \in ids
    BY <2>6, <2>8, ItemFields DEF Lists
  <2> QED
    BY <2>4, <2>7, <2>10, <2>11
<1> QED
  BY <1>1, <1>2

\* The list of the characters of a session.
LEMMA RemoteCombo ==
  ASSUME NEW theirs, IsFiniteSet(theirs), NEW me \in Local \cup {NoId},
         theirs \subseteq Remote \cup {me}, NoId \notin theirs, theirs # {},
         NEW order \in SetToSeqs(theirs)
  PROVE  /\ Sound(remoteCombo(order, me)) /\ OneEach(remoteCombo(order, me))
         /\ \A e : Lists(remoteCombo(order, me), e) <=>
              \E c \in theirs : e = item(c, IF c = me THEN "Local" ELSE "Remote")
         /\ IsInjective(remoteCombo(order, me).items)
         /\ remoteCombo(order, me).at # 0
<1> DEFINE n == Cardinality(theirs)
           c == remoteCombo(order, me)
           entry(d) == item(d, IF d = me THEN "Local" ELSE "Remote")
           mine == {k \in 1..n : order[k] = me}
<1>1. n \in Nat /\ n # 0
  BY FS_CardinalityType, FS_EmptySet
<1>2. order \in [1..n -> theirs] /\ \A i, j \in 1..n : i # j => order[i] # order[j]
  BY DEF SetToSeqs
<1>3. order \in Surjection(1..n, theirs)
  <2>1. IsFiniteSet(1..n) /\ Cardinality(1..n) = n
    BY <1>1, FS_Interval
  <2>2. order \in Injection(1..n, theirs)
    BY <1>2 DEF Injection, IsInjective
  <2> QED
    BY <2>1, <2>2, FS_Injection
<1>4. /\ c.items = [k \in 1..n |-> entry(order[k])]
      /\ c.at = IF mine = {} THEN 1 ELSE Max(mine)
      /\ c = [items |-> c.items, at |-> c.at]
  BY <1>2 DEF remoteCombo
<1>5. \A d \in theirs : entry(d) \in Entry
  BY DEF Entry
<1>6. c.items \in Seq(Entry) /\ Len(c.items) = n
  <2>1. c.items \in [1..n -> Entry]
    BY <1>2, <1>4, <1>5
  <2> QED
    BY <1>1, <2>1, IsSeq
<1>7. c.at \in 1..n
  <2>1. mine # {} => Max(mine) \in mine
    <3>1. IsFiniteSet(1..n) /\ mine \in SUBSET (1..n)
      BY <1>1, FS_Interval
    <3>2. IsFiniteSet(mine)
      BY <3>1, FS_Subset
    <3>3. mine \in SUBSET Nat
      BY <1>1
    <3> HIDE DEF mine
    <3> QED
      BY <3>2, <3>3, Extremes
  <2> HIDE DEF c
  <2> QED
    BY <1>1, <1>4, <2>1
<1>8. \A j, k \in 1..n : c.items[j] = c.items[k] => j = k
  <2> SUFFICES ASSUME NEW j \in 1..n, NEW k \in 1..n, c.items[j] = c.items[k]
               PROVE  j = k
    OBVIOUS
  <2>1. c.items[j] = entry(order[j]) /\ c.items[k] = entry(order[k])
    BY <1>4
  <2>2. \A d : entry(d).id = d
    BY ItemFields
  <2>3. entry(order[j]).id = order[j] /\ entry(order[k]).id = order[k]
    BY <2>2
  <2>4. order[j] = order[k]
    BY <2>1, <2>3
  <2> QED
    BY <1>2, <2>4
<1>9. \A e : Lists(c, e) <=> \E d \in theirs : e = entry(d)
  <2>1. ASSUME NEW e, Lists(c, e)
        PROVE  \E d \in theirs : e = entry(d)
    <3>1. PICK k \in 1..n : c.items[k] = e
      BY <1>6, <2>1 DEF Lists
    <3>2. c.items[k] = entry(order[k])
      BY <1>4
    <3> QED
      BY <1>2, <3>1, <3>2
  <2>2. ASSUME NEW d \in theirs
        PROVE  Lists(c, entry(d))
    <3>1. PICK k \in 1..n : order[k] = d
      BY <1>3 DEF Surjection
    <3> QED
      BY <1>4, <1>6, <3>1 DEF Lists
  <2> HIDE DEF c, entry
  <2> QED
    BY <2>1, <2>2
<1> HIDE DEF c
<1>10. Sound(c)
  BY <1>1, <1>4, <1>6, <1>7 DEF Sound, Combos
<1>11. OneEach(c) /\ IsInjective(c.items)
  BY <1>6, <1>8 DEF OneEach, IsInjective
<1> QED
  BY <1>1, <1>7, <1>9, <1>10, <1>11 DEF c

---------------------------------------------------------------------------
(* What the interface does when the list or the sheet changes *)

\* w is u with another list.
Stays(w, u) ==
  /\ Good(w) /\ w.db = u.db /\ w.version = u.version /\ w.file = u.file
  /\ w.selection = u.selection /\ w.sheet = u.sheet /\ w.inventory = u.inventory
  /\ w.dialog = u.dialog /\ w.told = u.told /\ w.spoilt = u.spoilt /\ u.slips \subseteq w.slips

\* The list changes, what is shown then may be another character, and the list may change
\* again. One's own character is shown only while it is the one picked.
Moves(w, u, tell) ==
  \E x, y : /\ Stays(x, u) /\ Reselects(y, x, tell) /\ Stays(w, y)
            /\ isSavable(currentCharacter(x.combo))
                 => currentCharacter(w.combo) = currentCharacter(x.combo)

Remains(w, u) ==
  /\ Stays(w, u)
  /\ isSavable(u.selection) => currentCharacter(w.combo) = currentCharacter(u.combo)

Step(w, u, tell) == Remains(w, u) \/ Moves(w, u, tell)

ListedAs(w, u, c, slips) == Stays(w, u) /\ w.combo = c /\ w.slips = slips

\* A change of the list is a step of the interface: it may pick another entry, and so save.
LEMMA Listed ==
  ASSUME NEW u, Good(u), NEW c, Sound(c), NEW slips \in SUBSET Slip, u.slips \subseteq slips
  PROVE  ListedAs([u EXCEPT !.combo = c, !.slips = slips], u, c, slips)
<1> DEFINE w == [u EXCEPT !.combo = c, !.slips = slips]
<1>1. u \in Ui /\ c \in Combos
  BY DEF Good, Sound
<1>2. w \in Ui
  BY <1>1 DEF Ui
<1>3. /\ w.db = u.db /\ w.version = u.version /\ w.file = u.file
      /\ w.selection = u.selection /\ w.sheet = u.sheet /\ w.inventory = u.inventory
      /\ w.dialog = u.dialog /\ w.told = u.told /\ w.spoilt = u.spoilt /\ w.slips = slips
      /\ w.combo = c
  BY <1>1 DEF Ui
<1> HIDE DEF w
<1>4. Good(w)
  <2>1. "loose" \in u.slips => "loose" \in slips
    OBVIOUS
  <2> QED
    BY <1>2, <1>3, <2>1 DEF Good, Sound, Matched, LoosePointers
<1>5. Stays(w, u)
  BY <1>3, <1>4 DEF Stays
<1> QED
  BY <1>3, <1>5 DEF w, ListedAs

\* One of them alone.
LEMMA ListedOnly ==
  ASSUME NEW u, Good(u)
  PROVE  /\ \A c : Sound(c) => ListedAs([u EXCEPT !.combo = c], u, c, u.slips)
         /\ \A s \in Slip :
              ListedAs([u EXCEPT !.slips = @ \cup {s}], u, u.combo, u.slips \cup {s})
<1>1. u \in Ui /\ u.slips \in SUBSET Slip
  BY UiTypes DEF Good
<1>2. ASSUME NEW c, Sound(c)
      PROVE  ListedAs([u EXCEPT !.combo = c], u, c, u.slips)
  <2>1. [u EXCEPT !.combo = c] = [u EXCEPT !.combo = c, !.slips = u.slips]
    BY <1>1 DEF Ui
  <2>2. ListedAs([u EXCEPT !.combo = c, !.slips = u.slips], u, c, u.slips)
    <3>1. u.slips \in SUBSET Slip /\ u.slips \subseteq u.slips
      BY <1>1
    <3> QED
      BY <1>2, <3>1, Listed
  <2> QED
    BY <2>1, <2>2
<1>3. ASSUME NEW s \in Slip
      PROVE  ListedAs([u EXCEPT !.slips = @ \cup {s}], u, u.combo, u.slips \cup {s})
  <2> DEFINE slips == u.slips \cup {s}
  <2>1. [u EXCEPT !.slips = @ \cup {s}] = [u EXCEPT !.combo = u.combo, !.slips = slips]
    BY <1>1 DEF Ui
  <2>2. slips \in SUBSET Slip /\ u.slips \subseteq slips
    BY <1>1
  <2> HIDE DEF slips
  <2>3. ListedAs([u EXCEPT !.combo = u.combo, !.slips = slips], u, u.combo, slips)
    <3>1. Sound(u.combo)
      BY SoundCombo
    <3> QED
      BY <2>2, <3>1, Listed
  <2> QED
    BY <2>1, <2>3 DEF slips
<1> QED
  BY <1>2, <1>3

LEMMA StaysSame ==
  \A u : Good(u) => Stays(u, u)
BY DEF Stays

LEMMA StaysOn ==
  \A u, v, w : Stays(v, u) /\ Stays(w, v) => Stays(w, u)
BY DEF Stays

\* A selection that changed, within a step.
LEMMA Picks ==
  ASSUME NEW u, NEW x, Stays(x, u), NEW y, NEW tell \in BOOLEAN, Reselects(y, x, tell)
  PROVE  /\ Good(y) /\ y.combo = x.combo /\ Step(y, u, tell)
         /\ y.slips \in {x.slips, x.slips \cup {"loose"}}
         /\ y.selection = currentCharacter(x.combo)
<1> DEFINE i == currentCharacter(x.combo)
           v == maySaveCurrentCharacter(x, tell)
<1> HIDE DEF i, v
<1>1. PICK c, sheet : Showable(x, i, c, sheet) /\ SavedAs(v, x, tell) /\ Displays(y, v, i, c, sheet)
  BY DEF Reselects, i, v
<1>2. Good(y) /\ y.combo = v.combo /\ y.selection = i
      /\ y.slips \in {v.slips, v.slips \cup {"loose"}}
  BY <1>1 DEF Displays
<1>3. v.combo = x.combo /\ v.slips = x.slips
  BY <1>1 DEF SavedAs, SameButSaved
<1>4. Stays(y, y)
  BY <1>2, StaysSame
<1>5. Moves(y, u, tell)
  BY <1>2, <1>3, <1>4 DEF Moves
<1> QED
  BY <1>2, <1>3, <1>5 DEF Step, i

\* A step of the interface after one that only saved is a step from where it began.
LEMMA StepAfter ==
  ASSUME NEW u, NEW v, Stays(v, u), v.combo = u.combo, NEW tell, NEW w, Step(w, v, tell)
  PROVE  Step(w, u, tell)
<1>1. CASE Remains(w, v)
  <2>1. v.selection = u.selection
    BY DEF Stays
  <2> QED
    BY <1>1, <2>1, StaysOn DEF Remains, Step
<1>2. CASE Moves(w, v, tell)
  <2>1. PICK x, y : /\ Stays(x, v) /\ Reselects(y, x, tell) /\ Stays(w, y)
                    /\ isSavable(currentCharacter(x.combo))
                         => currentCharacter(w.combo) = currentCharacter(x.combo)
    BY <1>2 DEF Moves
  <2>2. Stays(x, u)
    BY <2>1, StaysOn
  <2> QED
    BY <2>1, <2>2 DEF Moves, Step
<1> QED
  BY <1>1, <1>2 DEF Step

\* A step of the interface before one that keeps the table is a step as a whole.
LEMMA StepBefore ==
  ASSUME NEW u, NEW v, NEW tell, Step(v, u, tell), NEW w, Stays(w, v),
         isSavable(v.selection) => currentCharacter(w.combo) = currentCharacter(v.combo)
  PROVE  Step(w, u, tell)
<1>1. CASE Remains(v, u)
  <2>1. v.selection = u.selection
    BY <1>1 DEF Remains, Stays
  <2> QED
    BY <1>1, <2>1, StaysOn DEF Remains, Step
<1>2. CASE Moves(v, u, tell)
  <2>1. PICK x, y : /\ Stays(x, u) /\ Reselects(y, x, tell) /\ Stays(v, y)
                    /\ isSavable(currentCharacter(x.combo))
                         => currentCharacter(v.combo) = currentCharacter(x.combo)
    BY <1>2 DEF Moves
  <2>2. v.selection = currentCharacter(x.combo)
    BY <2>1 DEF Reselects, Displays, Stays
  <2>3. Stays(w, y)
    BY <2>1, StaysOn
  <2> QED
    BY <2>1, <2>2, <2>3 DEF Moves, Step
<1> QED
  BY <1>1, <1>2 DEF Step

SameTable(w, u) ==
  /\ w.inventory.at = u.inventory.at /\ w.inventory.rows = u.inventory.rows
  /\ w.inventory.editable = u.inventory.editable
  /\ Len(w.inventory.list) = Len(u.inventory.list)

\* What comes of a step, whatever the list: the sheet on show may be saved, and another shown,
\* which unsettles a dialog.
Kept(w, u, tell) ==
  /\ Good(w) /\ w.version = u.version /\ u.slips \subseteq w.slips
  /\ \/ w.db = u.db /\ w.told = u.told /\ w.file = u.file
     \/ /\ saves(u) /\ u.sheet.id \in DOMAIN u.db
        /\ w.db = [u.db EXCEPT ![u.sheet.id] = generateCharacter(u)]
        /\ w.told = IF tell THEN Append(u.told, generateCharacter(u)) ELSE u.told
        /\ w.file = saveAsFile(u.version, w.db)
  /\ \/ /\ w.dialog = u.dialog /\ SameTable(w, u) /\ w.sheet = u.sheet
        /\ w.selection = u.selection
     \/ w.dialog = crossed(u.dialog)
  /\ \/ w.selection = u.selection
     \/ isSavable(w.selection) => w.selection = currentCharacter(w.combo)

\* A step of the interface changes no sheet but the one that it saves.
LEMMA StepKept ==
  ASSUME NEW u, NEW w, NEW tell, Step(w, u, tell)
  PROVE  Kept(w, u, tell)
<1>1. CASE Remains(w, u)
  BY <1>1 DEF Remains, Stays, SameTable, Kept
<1>2. CASE Moves(w, u, tell)
  <2>1. PICK x, y : /\ Stays(x, u) /\ Reselects(y, x, tell) /\ Stays(w, y)
                    /\ isSavable(currentCharacter(x.combo))
                         => currentCharacter(w.combo) = currentCharacter(x.combo)
    BY <1>2 DEF Moves
  <2> DEFINE i == currentCharacter(x.combo)
             v == maySaveCurrentCharacter(x, tell)
  <2> HIDE DEF v, i
  <2>2. PICK c, sheet : SavedAs(v, x, tell) /\ Displays(y, v, i, c, sheet)
    BY <2>1 DEF Reselects, i, v
  <2>3. /\ x.db = u.db /\ x.told = u.told /\ x.file = u.file /\ x.version = u.version
        /\ x.sheet = u.sheet /\ x.selection = u.selection /\ x.inventory = u.inventory
        /\ x.dialog = u.dialog /\ u.slips \subseteq x.slips
    BY <2>1 DEF Stays
  <2>4. saves(x) = saves(u) /\ generateCharacter(x) = generateCharacter(u)
    BY <2>3 DEF saves, generateCharacter
  <2>5. /\ Good(w) /\ w.db = y.db /\ w.told = y.told /\ w.file = y.file /\ w.version = y.version
        /\ w.dialog = y.dialog /\ y.slips \subseteq w.slips /\ w.selection = y.selection
    BY <2>1 DEF Stays
  <2>6. /\ y.db = v.db /\ y.told = v.told /\ y.file = v.file /\ y.version = v.version
        /\ y.dialog = crossed(v.dialog) /\ v.slips \subseteq y.slips /\ y.selection = i
    BY <2>2 DEF Displays
  <2>7. /\ v.version = x.version /\ v.dialog = x.dialog /\ v.slips = x.slips
    BY <2>2 DEF SavedAs, SameButSaved
  <2>8. \/ v.db = u.db /\ v.told = u.told /\ v.file = u.file
        \/ /\ saves(u) /\ u.sheet.id \in DOMAIN u.db
           /\ v.db = [u.db EXCEPT ![u.sheet.id] = generateCharacter(u)]
           /\ v.told = IF tell THEN Append(u.told, generateCharacter(u)) ELSE u.told
           /\ v.file = saveAsFile(u.version, v.db)
    BY <2>2, <2>3, <2>4 DEF SavedAs
  <2>9. isSavable(w.selection) => w.selection = currentCharacter(w.combo)
    BY <2>1, <2>5, <2>6 DEF i
  <2>10. w.version = u.version /\ u.slips \subseteq w.slips /\ w.dialog = crossed(u.dialog)
    BY <2>3, <2>5, <2>6, <2>7
  <2> QED
    BY <2>5, <2>6, <2>8, <2>9, <2>10 DEF Kept
<1> QED
  BY <1>1, <1>2 DEF Step

\* The list of the database is loaded.
LEMMA LocalsLoaded ==
  ASSUME NEW u, Good(u)
  PROVE  /\ Step(loadLocalCharacters(u), u, FALSE)
         /\ loadLocalCharacters(u).combo = localCombo(DOMAIN u.db)
<1> DEFINE c == localCombo(DOMAIN u.db)
           x == [u EXCEPT !.combo = c]
<1>1. Sound(c)
  <2>1. DOMAIN u.db \in SUBSET Local
    BY UiTypes, SheetsType DEF Good
  <2> QED
    BY <2>1, LocalCombo
<1>2. loadLocalCharacters(u) = selectionChanged(x, FALSE, Nobody)
  BY DEF loadLocalCharacters
<1> HIDE DEF c
<1>3. ListedAs(x, u, c, u.slips)
  BY <1>1, ListedOnly
<1> HIDE DEF x
<1>4. Good(x) /\ Stays(x, u) /\ x.combo = c
  BY <1>3 DEF ListedAs, Stays
<1>5. Reselects(selectionChanged(x, FALSE, Nobody), x, FALSE)
  BY <1>4, NobodyType, Reselected
<1> QED
  BY <1>2, <1>4, <1>5, Picks DEF c

\* The list is emptied.
LEMMA EmptyLoaded ==
  ASSUME NEW u, Good(u), NEW tell \in BOOLEAN
  PROVE  /\ Step(loadEmpty(u, tell), u, tell) /\ loadEmpty(u, tell).combo = EmptyCombo
         /\ loadEmpty(u, tell).selection = Placeholder
<1> DEFINE x == [u EXCEPT !.combo = EmptyCombo]
<1>1. loadEmpty(u, tell) = selectionChanged(x, tell, Nobody)
  BY DEF loadEmpty
<1>2. Sound(EmptyCombo) /\ currentCharacter(EmptyCombo) = Placeholder
  BY EmptyCombos
<1>3. ListedAs(x, u, EmptyCombo, u.slips)
  BY <1>2, ListedOnly
<1> HIDE DEF x
<1>4. Good(x) /\ Stays(x, u) /\ x.combo = EmptyCombo
  BY <1>3 DEF ListedAs, Stays
<1>5. Reselects(selectionChanged(x, tell, Nobody), x, tell)
  BY <1>4, NobodyType, Reselected
<1> QED
  BY <1>1, <1>2, <1>4, <1>5, Picks

\* indexOf: where a character is in the list, 0 when it is not.
LEMMA IndexOf ==
  ASSUME NEW c, Sound(c), NEW id
  PROVE  /\ indexOf(c, id) = 0 => \A k \in 1..Len(c.items) : c.items[k].id # id
         /\ indexOf(c, id) # 0 => /\ indexOf(c, id) \in 1..Len(c.items)
                                  /\ c.items[indexOf(c, id)].id = id
<1> DEFINE found == {k \in DOMAIN c.items : c.items[k].id = id}
<1>1. Len(c.items) \in Nat /\ DOMAIN c.items = 1..Len(c.items)
  BY ComboTypes
<1>2. found \in SUBSET (1..Len(c.items))
  BY <1>1
<1>3. IsFiniteSet(found) /\ found \in SUBSET Nat
  <2>1. IsFiniteSet(1..Len(c.items))
    BY <1>1, FS_Interval
  <2>2. IsFiniteSet(found)
    BY <1>2, <2>1, FS_Subset
  <2> QED
    BY <1>1, <1>2, <2>2
<1>4. found # {} => Min(found) \in found
  BY <1>3, Extremes
<1>5. indexOf(c, id) = IF found = {} THEN 0 ELSE Min(found)
  BY DEF indexOf
<1> QED
  BY <1>1, <1>4, <1>5

\* _removeCharacterId: the item goes, and what is alone and not picked.
Drops(w, u, id, tell) ==
  /\ Step(w, u, tell)
  /\ indexOf(u.combo, id) = 0 => w = u
  /\ indexOf(u.combo, id) # 0 =>
       \E r \in removeItem(u.combo, indexOf(u.combo, id)) :
         /\ w.combo = mayTooglePlaceholder(r)
         /\ r.at = 0 /\ Len(r.items) = 1 => "unpicked" \in w.slips
         /\ \/ w.selection = u.selection /\ currentCharacter(r) = currentCharacter(u.combo)
            \/ w.selection = currentCharacter(r)

\* A character is dropped from the list, at whatever place it is.
LEMMA Dropped ==
  ASSUME NEW u, Good(u), NEW id, NEW tell \in BOOLEAN, NEW theirs \in Sheets(Id),
         NEW w \in removeCharacterId(u, id, tell, theirs)
  PROVE  Drops(w, u, id, tell)
<1> DEFINE k == indexOf(u.combo, id)
<1>1. CASE k = 0
  <2>1. w = u
    BY <1>1 DEF removeCharacterId
  <2>2. Stays(u, u)
    BY StaysSame
  <2> QED
    BY <1>1, <2>1, <2>2 DEF Drops, Step, Remains
<1>2. CASE k # 0
  <2> DEFINE slips(c) == IF c.at = 0 /\ Len(c.items) = 1 THEN u.slips \cup {"unpicked"} ELSE u.slips
             v(c) == [u EXCEPT !.combo = c, !.slips = slips(c)]
             x(c) == IF c.at = u.combo.at /\ currentCharacter(c) = currentCharacter(u.combo)
                     THEN v(c) ELSE selectionChanged(v(c), tell, theirs)
  <2>1. PICK c \in removeItem(u.combo, k) : w = [x(c) EXCEPT !.combo = mayTooglePlaceholder(@)]
    BY <1>2, Zenon DEF removeCharacterId
  <2>2. Sound(c)
    <3>1. Sound(u.combo)
      BY SoundCombo
    <3>2. k \in 1..Len(u.combo.items)
      BY <1>2, <3>1, IndexOf
    <3> HIDE DEF k
    <3> QED
      BY <3>1, <3>2, RemovedItem
  <2>3. slips(c) \in SUBSET Slip /\ u.slips \subseteq slips(c)
    BY UiTypes DEF Good, Slip
  <2> DEFINE y == x(c)
             before == v(c)
             t == mayTooglePlaceholder(c)
  <2>4. ListedAs(before, u, c, slips(c))
    <3> HIDE DEF slips
    <3> QED
      BY <2>2, <2>3, Listed
  <2>5. w = [y EXCEPT !.combo = mayTooglePlaceholder(@)]
    BY <2>1
  <2>6. y = IF c.at = u.combo.at /\ currentCharacter(c) = currentCharacter(u.combo)
            THEN before ELSE selectionChanged(before, tell, theirs)
    OBVIOUS
  <2>7. c.at = 0 /\ Len(c.items) = 1 => "unpicked" \in slips(c)
    OBVIOUS
  <2> HIDE DEF slips, v, x, before, y
  <2>8. Good(before) /\ Stays(before, u) /\ before.combo = c /\ before.slips = slips(c)
    BY <2>4 DEF ListedAs, Stays
  <2>9. /\ Good(y) /\ y.combo = c /\ Step(y, u, tell) /\ slips(c) \subseteq y.slips
        /\ \/ y.selection = u.selection /\ currentCharacter(c) = currentCharacter(u.combo)
           \/ y.selection = currentCharacter(c)
    <3>1. CASE c.at = u.combo.at /\ currentCharacter(c) = currentCharacter(u.combo)
      <4>1. y = before
        BY <2>6, <3>1
      <4>2. before.selection = u.selection
        BY <2>8 DEF Stays
      <4> QED
        BY <2>8, <3>1, <4>1, <4>2 DEF Step, Remains
    <3>2. CASE ~(c.at = u.combo.at /\ currentCharacter(c) = currentCharacter(u.combo))
      <4>1. y = selectionChanged(before, tell, theirs)
        BY <2>6, <3>2
      <4>2. Reselects(y, before, tell)
        BY <2>8, <4>1, Reselected
      <4> QED
        BY <2>8, <4>2, Picks
    <3> QED
      BY <3>1, <3>2
  <2>10. Toggles(t, c)
    BY <2>2, Toggled
  <2>11. w = [y EXCEPT !.combo = t]
    BY <2>5, <2>9
  <2> HIDE DEF t
  <2>12. ListedAs(w, y, t, y.slips)
    BY <2>9, <2>10, <2>11, ListedOnly DEF Toggles
  <2>13. Stays(w, y) /\ w.combo = t /\ w.slips = y.slips /\ w.selection = y.selection
    BY <2>12 DEF ListedAs, Stays
  <2>14. currentCharacter(w.combo) = currentCharacter(y.combo)
    BY <2>9, <2>10, <2>13 DEF Toggles
  <2>15. Step(w, u, tell)
    BY <2>9, <2>13, <2>14, StepBefore
  <2>16. c.at = 0 /\ Len(c.items) = 1 => "unpicked" \in w.slips
    BY <2>7, <2>9, <2>13
  <2> QED
    BY <1>2, <2>1, <2>9, <2>13, <2>15, <2>16 DEF Drops, t
<1> QED
  BY <1>1, <1>2

\* onUserJoinedServer: an item is added, of another's character.
LEMMA Joined ==
  ASSUME NEW u, Good(u), NEW id \in Remote, NEW tell \in BOOLEAN, NEW theirs \in Sheets(Id)
  PROVE  LET w == onUserJoinedServer(u, id, tell, theirs) IN
         /\ Step(w, u, tell)
         /\ w.combo = addItem(mayTooglePlaceholder(u.combo), item(id, "Remote"))
<1> DEFINE before == mayTooglePlaceholder(u.combo)
           c == addItem(before, item(id, "Remote"))
           v == [u EXCEPT !.combo = c]
           w == onUserJoinedServer(u, id, tell, theirs)
<1>1. Toggles(before, u.combo)
  BY SoundCombo, Toggled
<1>2. item(id, "Remote") \in Entry
  BY DEF Entry
<1> HIDE DEF before
<1>3. Sound(before) /\ currentCharacter(before) = currentCharacter(u.combo)
  BY <1>1 DEF Toggles
<1>4. Sound(c) /\ (c.at = before.at => currentCharacter(c) = currentCharacter(before))
  BY <1>2, <1>3, AddedItem
<1>5. v.combo = c
  BY DEF Ui, Good
<1>6. w = IF v.combo.at = before.at THEN v ELSE selectionChanged(v, tell, theirs)
  BY DEF onUserJoinedServer, before
<1> HIDE DEF c
<1>7. ListedAs(v, u, c, u.slips)
  BY <1>4, ListedOnly
<1> HIDE DEF v, w
<1>8. Good(v) /\ Stays(v, u)
  BY <1>7 DEF ListedAs, Stays
<1>9. CASE v.combo.at = before.at
  BY <1>3, <1>4, <1>5, <1>6, <1>8, <1>9 DEF w, c, before, Step, Remains
<1>10. CASE v.combo.at # before.at
  <2>1. Reselects(w, v, tell)
    BY <1>6, <1>8, <1>10, Reselected
  <2> QED
    BY <1>5, <1>8, <2>1, Picks DEF w, c, before
<1> QED
  BY <1>9, <1>10

\* onUserDataChanged: the sheet on show is shown again if it is another's.
LEMMA DataChanged ==
  ASSUME NEW u, Good(u), NEW id, NEW sheet \in Sheet, NEW tell \in BOOLEAN
  PROVE  LET w == onUserDataChanged(u, id, sheet, tell) IN
         Step(w, u, tell) /\ w.combo = u.combo
<1> DEFINE i == currentCharacter(u.combo)
           w == onUserDataChanged(u, id, sheet, tell)
<1>1. Stays(u, u)
  BY StaysSame
<1>2. CASE i.origin = "Remote" /\ i.id = id
  <2>1. i \in Entry
    BY Current
  <2>2. Showable(u, i, id, sheet)
    <3> HIDE DEF i
    <3> QED
      BY <1>2, <2>1 DEF Showable, isSavable
  <2>3. Reselects(w, u, tell)
    BY <1>2, <2>2, Requested DEF Reselects, onUserDataChanged
  <2> HIDE DEF w
  <2> QED
    BY <1>1, <2>3, Picks DEF w
<1>3. CASE ~(i.origin = "Remote" /\ i.id = id)
  <2>1. w = u
    BY <1>3 DEF onUserDataChanged
  <2> HIDE DEF w
  <2> QED
    BY <1>1, <2>1 DEF w, Step, Remains
<1> QED
  BY <1>2, <1>3

\* _loadFromRemote: the list is made again.
LEMMA RemoteLoaded ==
  ASSUME NEW u, Good(u), NEW me \in Local \cup {NoId}, NEW tell \in BOOLEAN,
         NEW theirs \in Sheets(Id), DOMAIN theirs \subseteq Remote \cup {me},
         NoId \notin DOMAIN theirs, NEW w \in loadFromRemote(u, me, tell, theirs)
  PROVE  /\ Step(w, u, tell)
         /\ DOMAIN theirs = {} => w.combo = EmptyCombo
         /\ DOMAIN theirs # {} =>
              \E order \in SetToSeqs(DOMAIN theirs) : w.combo = remoteCombo(order, me)
<1>1. DOMAIN theirs = {} <=> theirs = Nobody
  BY SheetsType DEF Nobody
<1>2. CASE theirs = Nobody
  <2>1. w = loadEmpty(u, tell)
    BY <1>2 DEF loadFromRemote
  <2> QED
    BY <1>1, <1>2, <2>1, EmptyLoaded
<1>3. CASE theirs # Nobody
  <2>1. PICK order \in SetToSeqs(DOMAIN theirs) :
          w = selectionChanged([u EXCEPT !.combo = remoteCombo(order, me)], tell, theirs)
    BY <1>3 DEF loadFromRemote
  <2> DEFINE c == remoteCombo(order, me)
             x == [u EXCEPT !.combo = c]
  <2>2. IsFiniteSet(DOMAIN theirs)
    <3>1. IsFiniteSet(Id)
      BY IdsAssumption, FS_Union DEF Id
    <3>2. DOMAIN theirs \in SUBSET Id
      BY SheetsType
    <3> QED
      BY <3>1, <3>2, FS_Subset
  <2>3. Sound(c)
    BY <1>1, <1>3, <2>2, RemoteCombo
  <2>4. w = selectionChanged(x, tell, theirs)
    BY <2>1
  <2> HIDE DEF c
  <2>5. ListedAs(x, u, c, u.slips)
    BY <2>3, ListedOnly
  <2> HIDE DEF x
  <2>6. Good(x) /\ Stays(x, u) /\ x.combo = c
    BY <2>5 DEF ListedAs, Stays
  <2>7. Reselects(w, x, tell)
    BY <2>4, <2>6, Reselected
  <2> QED
    BY <1>1, <1>3, <2>6, <2>7, Picks DEF c
<1> QED
  BY <1>2, <1>3

\* A character that is created, on top of what is saved, and then picked.
Creates(v, u, c) ==
  /\ Good(v) /\ v.db = insert(u.db, c, NewCharacter) /\ v.version = u.version
  /\ v.file = saveAsFile(u.version, v.db)
  /\ v.combo = u.combo /\ v.selection = u.selection /\ v.sheet = u.sheet
  /\ v.inventory = u.inventory /\ v.dialog = u.dialog /\ v.told = u.told
  /\ v.spoilt = u.spoilt /\ v.slips = u.slips

\* A character is created, inserted and picked.
LEMMA Created ==
  ASSUME NEW u, Good(u), NEW c \in Local
  PROVE  \E v : /\ Creates(v, u, c) /\ Step(addNewCharacter(u, c), v, FALSE)
                /\ addNewCharacter(u, c).combo =
                     pickLast(addItem(mayTooglePlaceholder(u.combo), item(c, "Local")))
<1> DEFINE db == insert(u.db, c, NewCharacter)
           v == updateCharacter(u, c, NewCharacter)
           t == mayTooglePlaceholder(u.combo)
           added == addItem(t, item(c, "Local"))
           last == pickLast(added)
           x == [v EXCEPT !.combo = last]
<1>1. u \in Ui /\ u.db \in Sheets(Local)
  BY UiTypes DEF Good
<1>2. db \in Sheets(Local) /\ DOMAIN u.db \subseteq DOMAIN db
  <2> DEFINE f == u.db
  <2>1. f \in Sheets(Local)
    BY <1>1
  <2> HIDE DEF f
  <2>2. /\ insert(f, c, NewCharacter) \in Sheets(Local)
        /\ DOMAIN insert(f, c, NewCharacter) = DOMAIN f \cup {c}
    BY <2>1, NewCharacterType, Inserted
  <2>3. DOMAIN f \subseteq DOMAIN insert(f, c, NewCharacter)
    BY <2>2
  <2> QED
    BY <2>2, <2>3 DEF f
<1>3. v = [u EXCEPT !.db = db, !.file = saveAsFile(u.version, db)]
  <2> HIDE DEF db
  <2> QED
    BY <1>1 DEF updateCharacter, write, Ui, db
<1> HIDE DEF db
<1>4. saveAsFile(u.version, db) \in File
  BY <1>1, <1>2, UiTypes DEF saveAsFile, File
<1> HIDE DEF v
<1>5. v \in Ui
  BY <1>1, <1>2, <1>3, <1>4 DEF Ui
<1>6. /\ v.db = db /\ v.version = u.version /\ v.file = saveAsFile(u.version, db)
      /\ v.combo = u.combo /\ v.selection = u.selection /\ v.sheet = u.sheet
      /\ v.inventory = u.inventory /\ v.dialog = u.dialog /\ v.told = u.told
      /\ v.spoilt = u.spoilt /\ v.slips = u.slips
  BY <1>1, <1>3 DEF Ui
<1>7. Good(v)
  BY <1>2, <1>5, <1>6 DEF Good, Matched, LoosePointers
<1>8. Creates(v, u, c)
  BY <1>6, <1>7 DEF Creates, db
<1>9. Sound(t)
  BY SoundCombo, Toggled DEF Toggles
<1>10. item(c, "Local") \in Entry
  BY DEF Entry
<1> HIDE DEF t
<1>11. Sound(added) /\ Len(added.items) \in Nat
  BY <1>9, <1>10, AddedItem, ComboTypes
<1> HIDE DEF added
<1>12. Sound(last)
  BY <1>11 DEF pickLast, Sound, Combos
<1>13. addNewCharacter(u, c) = selectionChanged(x, FALSE, Nobody)
  BY <1>6 DEF addNewCharacter, v, last, added, t
<1> HIDE DEF last
<1>14. ListedAs(x, v, last, v.slips)
  BY <1>7, <1>12, ListedOnly
<1> HIDE DEF x
<1>15. Good(x) /\ Stays(x, v) /\ x.combo = last
  BY <1>14 DEF ListedAs, Stays
<1>16. Reselects(selectionChanged(x, FALSE, Nobody), x, FALSE)
  BY <1>15, NobodyType, Reselected
<1>17. Step(addNewCharacter(u, c), v, FALSE) /\ addNewCharacter(u, c).combo = last
  BY <1>13, <1>15, <1>16, Picks
<1> QED
  BY <1>8, <1>17 DEF last, added, t

\* A character that is deleted: nothing of the sheet on show is saved.
Deletes(v, u, c) ==
  /\ Good(v) /\ v.db = [d \in DOMAIN u.db \ {c} |-> u.db[d]] /\ v.version = u.version
  /\ v.file = saveAsFile(u.version, v.db)
  /\ v.combo = u.combo /\ v.selection = Placeholder /\ v.sheet = u.sheet
  /\ v.inventory = u.inventory /\ v.dialog = u.dialog /\ v.told = u.told
  /\ v.spoilt = u.spoilt /\ v.slips = u.slips

\* A character is deleted, from the table, the file and the list.
LEMMA DeletedCharacter ==
  ASSUME NEW u, Good(u), NEW c, NEW w \in deleteCharacter(u, c)
  PROVE  \E v : Deletes(v, u, c) /\ Drops(w, v, c, FALSE)
<1> DEFINE db == [d \in DOMAIN u.db \ {c} |-> u.db[d]]
           v == write([u EXCEPT !.selection = Placeholder, !.db = [d \in DOMAIN @ \ {c} |-> @[d]]])
<1>1. u \in Ui /\ u.db \in Sheets(Local)
  BY UiTypes DEF Good
<1>2. db \in Sheets(Local)
  <2>1. DOMAIN u.db \subseteq Local /\ u.db \in [DOMAIN u.db -> Sheet]
    BY <1>1, SheetsType
  <2>2. DOMAIN db \subseteq Local /\ db \in [DOMAIN db -> Sheet]
    BY <2>1
  <2> QED
    BY <2>2, SheetsType
<1>3. v = [u EXCEPT !.selection = Placeholder, !.db = db, !.file = saveAsFile(u.version, db)]
  BY <1>1 DEF write, Ui
<1> HIDE DEF db
<1>4. saveAsFile(u.version, db) \in File
  BY <1>1, <1>2, UiTypes DEF saveAsFile, File
<1>5. w \in removeCharacterId(v, c, FALSE, Nobody)
  BY DEF deleteCharacter
<1> HIDE DEF v
<1>6. v \in Ui
  BY <1>1, <1>2, <1>3, <1>4, PlaceholderType DEF Ui
<1>7. /\ v.db = db /\ v.version = u.version /\ v.file = saveAsFile(u.version, db)
      /\ v.combo = u.combo /\ v.selection = Placeholder /\ v.sheet = u.sheet
      /\ v.inventory = u.inventory /\ v.dialog = u.dialog /\ v.told = u.told
      /\ v.spoilt = u.spoilt /\ v.slips = u.slips
  BY <1>1, <1>3 DEF Ui
<1>8. Good(v)
  BY <1>6, <1>7, PlaceholderType DEF Good, Matched, LoosePointers
<1>9. Deletes(v, u, c)
  BY <1>7, <1>8 DEF Deletes, db
<1>10. Drops(w, v, c, FALSE)
  BY <1>5, <1>8, NobodyType, Dropped
<1> QED
  BY <1>9, <1>10

\* A start, on what is in the file: nothing is picked, shown or told before.
Starts(v, db, version) ==
  /\ Good(v) /\ v.db = db /\ v.version = version
  /\ v.combo = EmptyCombo /\ v.selection = Placeholder /\ v.sheet = NoSheet
  /\ v.inventory = EmptyInventory /\ v.dialog = NoDialog /\ v.told = <<>>
  /\ v.spoilt = {} /\ v.slips = {}

StartedAs(w, file) ==
  \E v : /\ Starts(v, readCharacters(file).content, readCharacters(file).version)
         /\ v.file = readCharacters(file).disk.file
         /\ Step(w, v, FALSE) /\ w.combo = localCombo(DOMAIN w.db)

\* What a file is read as: of any file, a table and the file as it is then.
LEMMA Read ==
  ASSUME NEW file \in File
  PROVE  /\ readCharacters(file).content \in Sheets(Local)
         /\ readCharacters(file).version \in {NoVersion, apiVersion}
         /\ readCharacters(file).disk.file \in File
         /\ readCharacters(file).version # NoVersion =>
              readCharacters(file).disk.file =
                saveAsFile(readCharacters(file).version, readCharacters(file).content)
         /\ file.kind = "json" /\ file.version = apiVersion =>
              readCharacters(file).content = file.content
<1> DEFINE disk == alone(file)
           loaded == readCharacters(file)
           table(version, content, after) ==
             [version |-> version, content |-> content, disk |-> after]
<1> HIDE DEF disk
<1>1. disk = [file |-> file, oldVersion |-> EmptyFile, error |-> EmptyFile]
  BY DEF disk, alone
<1>2. EmptyFile.kind = "empty" /\ TornFile.kind = "torn"
  BY DEF EmptyFile, TornFile
<1>3. Nobody \in Sheets(Local) /\ saveAsFile(apiVersion, Nobody) \in File
  BY NobodyType DEF saveAsFile, File
<1>4. toApply({}, file.version, apiVersion) = {}
  BY DEF toApply
<1>5. loaded = CASE file.kind = "empty" ->
                    table(apiVersion, Nobody, updateDbFile(disk, apiVersion, Nobody))
               [] file.kind = "torn" ->
                    table(NoVersion, Nobody,
                          updateDbFile(duplicateDbFile(disk, "error"), apiVersion, Nobody))
               [] file.kind = "json" /\ file.version = apiVersion ->
                    table(apiVersion, file.content, disk)
               [] OTHER ->
                    table(apiVersion, Nobody, handleVersionMissmatch(disk, apiVersion, Nobody))
  BY <1>1, <1>4 DEF readCharacters, initDatabaseFromJSONFile, disk
<1> DEFINE saved == saveAsFile(apiVersion, Nobody)
           r(version, content, f) ==
             loaded.version = version /\ loaded.content = content /\ loaded.disk.file = f
<1>6. /\ updateDbFile(disk, apiVersion, Nobody).file = saved
      /\ updateDbFile(duplicateDbFile(disk, "error"), apiVersion, Nobody).file = saved
      /\ handleVersionMissmatch(disk, apiVersion, Nobody).file = saved
  BY <1>1 DEF updateDbFile, duplicateDbFile, handleVersionMissmatch
<1> HIDE DEF loaded, saved
<1>7. CASE file = EmptyFile
  <2>1. r(apiVersion, Nobody, saved)
    BY <1>2, <1>5, <1>6, <1>7
  <2> QED
    BY <1>2, <1>3, <1>7, <2>1 DEF loaded, saved
<1>8. CASE file = TornFile
  <2>1. r(NoVersion, Nobody, saved)
    BY <1>2, <1>5, <1>6, <1>8
  <2> QED
    BY <1>2, <1>3, <1>8, <2>1 DEF loaded, saved
<1>9. CASE file \in [kind : {"json"}, version : {NoVersion, apiVersion}, content : Sheets(Local)]
  <2>1. /\ file.kind = "json" /\ file.version \in {NoVersion, apiVersion}
        /\ file.content \in Sheets(Local)
    BY <1>9
  <2>2. CASE file.version = apiVersion
    <3>1. r(apiVersion, file.content, disk.file)
      BY <1>5, <2>1, <2>2
    <3>2. disk.file = file /\ file = saveAsFile(file.version, file.content)
      BY <1>1, <1>9 DEF saveAsFile
    <3> QED
      BY <2>1, <2>2, <3>1, <3>2 DEF loaded
  <2>3. CASE file.version # apiVersion
    <3>1. r(apiVersion, Nobody, saved)
      BY <1>5, <1>6, <2>1, <2>3
    <3> QED
      BY <1>3, <2>1, <2>3, <3>1 DEF loaded, saved
  <2> QED
    BY <2>2, <2>3
<1> QED
  BY <1>7, <1>8, <1>9 DEF File

\* What the interface is once a file is read.
LEMMA Started ==
  ASSUME NEW file \in File
  PROVE  StartedAs(started(readCharacters(file)), file)
<1> DEFINE loaded == readCharacters(file)
           v == [db |-> loaded.content, version |-> loaded.version, file |-> loaded.disk.file,
                 combo |-> EmptyCombo, selection |-> Placeholder, sheet |-> NoSheet,
                 inventory |-> EmptyInventory, dialog |-> NoDialog, told |-> <<>>,
                 spoilt |-> {}, slips |-> {}]
<1>1. started(loaded) = loadLocalCharacters(v)
  BY DEF started
<1>2. /\ loaded.content \in Sheets(Local) /\ loaded.version \in {NoVersion, apiVersion}
      /\ loaded.disk.file \in File
  BY Read
<1> HIDE DEF loaded
<1>3. /\ v.db = loaded.content /\ v.version = loaded.version /\ v.file = loaded.disk.file
      /\ v.combo = EmptyCombo /\ v.selection = Placeholder /\ v.sheet = NoSheet
      /\ v.inventory = EmptyInventory /\ v.dialog = NoDialog /\ v.told = <<>>
      /\ v.spoilt = {} /\ v.slips = {}
  OBVIOUS
<1>4. v \in Ui
  <2>1. EmptyCombo \in Combos /\ Placeholder \in Entry /\ EmptyInventory \in Inventory
    BY EmptyCombos, PlaceholderType, EmptyInventoryPicked DEF Sound
  <2>2. NoSheet \in [id : Id \cup {NoId}, tabs : Nat, readOnly : BOOLEAN]
    BY DEF NoSheet
  <2>3. NoDialog \in [kind : DialogKind, rows : SUBSET Nat, at : Nat, crossed : BOOLEAN]
    BY DEF NoDialog, DialogKind
  <2>4. <<>> \in Seq(Sheet)
    OBVIOUS
  <2> QED
    BY <1>2, <2>1, <2>2, <2>3, <2>4 DEF Ui
<1> HIDE DEF v
<1>5. Good(v)
  <2>1. EmptyCombo.at <= Len(EmptyCombo.items)
    BY EmptyCombos DEF Sound
  <2>2. EmptyInventory.loose = FALSE
    BY DEF EmptyInventory
  <2> QED
    BY <1>3, <1>4, <2>1, <2>2, PlaceholderType, EmptyInventoryPicked
       DEF Good, Matched, LoosePointers
<1>6. Starts(v, loaded.content, loaded.version)
  BY <1>3, <1>5 DEF Starts
<1> DEFINE w == loadLocalCharacters(v)
<1>7. Step(w, v, FALSE) /\ w.combo = localCombo(DOMAIN v.db)
  BY <1>5, LocalsLoaded
<1> HIDE DEF w
<1>8. w.db = v.db
  <2>1. Kept(w, v, FALSE)
    BY <1>7, StepKept
  <2>2. ~saves(v)
    BY <1>3, PlaceholderType DEF saves
  <2> QED
    BY <2>1, <2>2 DEF Kept
<1> QED
  BY <1>1, <1>3, <1>6, <1>7, <1>8 DEF StartedAs, loaded, w

\* Saving changes one sheet at most.
LEMMA SavedKept ==
  ASSUME NEW u, NEW w, NEW tell, SavedAs(w, u, tell)
  PROVE  Kept(w, u, tell)
<1>1. CASE saves(u)
  BY <1>1 DEF SavedAs, SameButSaved, SameTable, Kept
<1>2. CASE ~saves(u)
  BY <1>2 DEF SavedAs, SameTable, Kept
<1> QED
  BY <1>1, <1>2

\* Another item is picked.
LEMMA PickedItem ==
  ASSUME NEW u, Good(u), NEW k \in 1..Len(u.combo.items), NEW tell \in BOOLEAN,
         NEW theirs \in Sheets(Id)
  PROVE  LET w == selectionChanged([u EXCEPT !.combo.at = k], tell, theirs) IN
         Step(w, u, tell) /\ w.combo = [u.combo EXCEPT !.at = k]
<1> DEFINE c == [u.combo EXCEPT !.at = k]
           x == [u EXCEPT !.combo = c]
           w == selectionChanged(x, tell, theirs)
<1>1. Sound(u.combo)
  BY SoundCombo
<1>2. k \in Nat /\ k <= Len(u.combo.items)
  BY <1>1, ComboTypes
<1>3. Sound(c)
  BY <1>1, <1>2 DEF Sound, Combos
<1>4. [u EXCEPT !.combo.at = k] = x
  BY DEF Ui, Good
<1> HIDE DEF c
<1>5. ListedAs(x, u, c, u.slips)
  BY <1>3, ListedOnly
<1> HIDE DEF x
<1>6. Good(x) /\ Stays(x, u) /\ x.combo = c
  BY <1>5 DEF ListedAs, Stays
<1>7. Reselects(w, x, tell)
  BY <1>6, Reselected
<1> HIDE DEF w
<1>8. Step(w, u, tell) /\ w.combo = c
  BY <1>6, <1>7, Picks
<1> QED
  BY <1>4, <1>8 DEF c, w

---------------------------------------------------------------------------
(* What the server is told *)

Client == [up : BOOLEAN, synced : BOOLEAN, me : Local \cup {NoId}, theirs : Sheets(Id),
           sent : Sheet]

\* While there is a client, the user's characters in the list are the one it connected with.
OwnCombo(c, client_) ==
  \A e : Lists(c, e) /\ e.origin = "Local" => e.id = client_.me /\ client_.synced

Owned(u, c) ==
  c.up => /\ OwnCombo(u.combo, c)
          /\ u.selection.origin = "Local" => u.selection.id = c.me /\ c.synced
          /\ u.dialog.kind # "character"

\* What is to be told is of a session, and of that character.
Told(u, c) ==
  /\ ~c.up => u.told = <<>>
  /\ u.told # <<>> => c.synced /\ c.me # NoId
  /\ c.me # NoId => c.me \in DOMAIN u.db

\* What the server was told last, or will be, is what the database has.
Known(u, c) ==
  c.up /\ c.me # NoId =>
    \/ (IF u.told = <<>> THEN c.sent ELSE Last(u.told)) = u.db[c.me]
    \/ "unsaved" \in u.slips

Faithful(u, c) == Owned(u, c) /\ Told(u, c) /\ Known(u, c)

\* crossed changes what a dialog is marked with, and nothing else of it.
LEMMA CrossedDialog ==
  ASSUME NEW u, Good(u)
  PROVE  LET d == crossed(u.dialog) IN
         /\ d.kind = u.dialog.kind /\ d.rows = u.dialog.rows /\ d.at = u.dialog.at
         /\ d.crossed = (u.dialog.crossed \/ u.dialog.kind \notin {"none", "character"})
BY DEF crossed, Good, Ui

\* What saves and tells the server keeps what was told in step with what is known.
LEMMA Tells ==
  ASSUME NEW u, Good(u), NEW c \in Client, c.synced => c.up, Faithful(u, c),
         NEW w, Kept(w, u, c.up /\ c.synced), c.up => OwnCombo(w.combo, c)
  PROVE  Faithful(w, c)
<1> DEFINE tell == c.up /\ c.synced
<1>1. w.dialog.kind = u.dialog.kind
  BY CrossedDialog DEF Kept
<1>2. Good(w)
  BY DEF Kept
<1>3. Owned(w, c)
  <2> SUFFICES ASSUME c.up, w.selection.origin = "Local", w.selection # u.selection
               PROVE  w.selection.id = c.me /\ c.synced
    BY <1>1 DEF Faithful, Owned
  <2>1. w.selection \in Entry
    BY <1>2, UiTypes DEF Good
  <2>2. isSavable(w.selection)
    BY <2>1, EntryFacts
  <2>3. w.selection = currentCharacter(w.combo)
    BY <2>2 DEF Kept
  <2>4. w.selection # Placeholder
    BY <2>2, PlaceholderType
  <2>5. Lists(w.combo, w.selection)
    BY <1>2, <2>3, <2>4, SoundCombo, ComboTypes
  <2> QED
    BY <2>5 DEF OwnCombo
<1>4. CASE w.db = u.db /\ w.told = u.told
  BY <1>3, <1>4 DEF Faithful, Told, Known, Kept
<1>5. CASE /\ saves(u) /\ u.sheet.id \in DOMAIN u.db
           /\ w.db = [u.db EXCEPT ![u.sheet.id] = generateCharacter(u)]
           /\ w.told = IF tell THEN Append(u.told, generateCharacter(u)) ELSE u.told
  <2> DEFINE sheet == generateCharacter(u)
  <2> HIDE DEF sheet
  <2>1. u.selection.origin = "Local" /\ u.sheet.id = u.selection.id /\ u.sheet.id # NoId
    BY <1>5, UiTypes, EntryFacts DEF saves, Good, Matched
  <2>2. c.up => u.sheet.id = c.me /\ c.synced
    BY <2>1 DEF Faithful, Owned
  <2>3. DOMAIN w.db = DOMAIN u.db /\ w.db[u.sheet.id] = sheet
    BY <1>5 DEF sheet
  <2>4. CASE c.up
    <3>1. w.told = Append(u.told, sheet) /\ u.told \in Seq(Sheet) /\ sheet \in Sheet
      BY <1>5, <2>2, <2>4, UiTypes, Generated DEF Good, sheet
    <3>2. \A s \in Seq(Sheet) : Append(s, sheet) # <<>> /\ Last(Append(s, sheet)) = sheet
      BY <3>1 DEF Last
    <3>3. w.told # <<>> /\ Last(w.told) = sheet
      BY <3>1, <3>2
    <3> QED
      BY <1>3, <2>1, <2>2, <2>3, <2>4, <3>3 DEF Faithful, Told, Known
  <2>5. CASE ~c.up
    <3>1. w.told = u.told
      BY <1>5, <2>5
    <3> QED
      BY <1>3, <2>3, <2>5, <3>1 DEF Faithful, Told, Known
  <2> QED
    BY <2>4, <2>5
<1> QED
  BY <1>4, <1>5 DEF Kept

\* Nothing is told of what is not saved.
Edited(w, u) ==
  /\ Good(w) /\ w.db = u.db /\ w.version = u.version /\ w.file = u.file
  /\ w.combo = u.combo /\ w.selection = u.selection /\ w.told = u.told
  /\ w.sheet.id = u.sheet.id /\ w.sheet.readOnly = u.sheet.readOnly
  /\ u.slips \subseteq w.slips

\* An edition of the sheet on show keeps what was told and what is known in step.
LEMMA EditedFaithful ==
  ASSUME NEW u, NEW c, Faithful(u, c), NEW w, Edited(w, u),
         c.up => w.dialog.kind # "character"
  PROVE  Faithful(w, c)
BY DEF Faithful, Edited, Owned, Told, Known

\* The lists that come of the handling of a signal have no other of the user's characters.
LEMMA OwnCombos ==
  ASSUME NEW c, Sound(c), NEW client_, OwnCombo(c, client_)
  PROVE  /\ \A r : Toggles(r, c) => OwnCombo(r, client_)
         /\ \A k \in 1..Len(c.items) : \A r \in removeItem(c, k) : OwnCombo(r, client_)
         /\ \A k \in Nat : OwnCombo([c EXCEPT !.at = k], client_)
         /\ \A id \in Remote : OwnCombo(addItem(c, item(id, "Remote")), client_)
<1>1. ASSUME NEW r, Toggles(r, c)
      PROVE  OwnCombo(r, client_)
  BY <1>1, EmptyCombos, EntryFacts, PlaceholderType DEF Toggles, OwnCombo, isSavable
<1>2. ASSUME NEW k \in 1..Len(c.items), NEW r \in removeItem(c, k)
      PROVE  OwnCombo(r, client_)
  <2>1. /\ Len(r.items) = Len(c.items) - 1 /\ Len(c.items) \in Nat
        /\ \A j \in 1..Len(c.items) - 1 :
             r.items[j] = IF j < k THEN c.items[j] ELSE c.items[j + 1]
    BY RemovedItem, ComboTypes
  <2>2. \A e : Lists(r, e) => Lists(c, e)
    <3> SUFFICES ASSUME NEW e, NEW j \in 1..Len(c.items) - 1, r.items[j] = e
                 PROVE  Lists(c, e)
      BY <2>1 DEF Lists
    <3>1. j \in 1..Len(c.items) /\ j + 1 \in 1..Len(c.items)
      BY <2>1
    <3> QED
      BY <2>1, <3>1 DEF Lists
  <2> QED
    BY <2>2 DEF OwnCombo
<1>3. ASSUME NEW k \in Nat
      PROVE  OwnCombo([c EXCEPT !.at = k], client_)
  <2>1. [c EXCEPT !.at = k].items = c.items
    BY DEF Sound, Combos
  <2> QED
    BY <2>1 DEF OwnCombo, Lists
<1>4. ASSUME NEW id \in Remote
      PROVE  OwnCombo(addItem(c, item(id, "Remote")), client_)
  <2> DEFINE i == item(id, "Remote")
             r == addItem(c, i)
  <2>1. i \in Entry /\ i.origin = "Remote"
    BY ItemFields DEF Entry
  <2> HIDE DEF i
  <2>2. /\ Len(r.items) = Len(c.items) + 1 /\ r.items[Len(c.items) + 1] = i
        /\ \A k \in 1..Len(c.items) : r.items[k] = c.items[k]
    BY <2>1, AddedItem
  <2> HIDE DEF r
  <2>3. \A e : Lists(r, e) => Lists(c, e) \/ e = i
    <3> SUFFICES ASSUME NEW e, NEW k \in 1..Len(c.items) + 1, r.items[k] = e
                 PROVE  Lists(c, e) \/ e = i
      BY <2>2 DEF Lists
    <3>1. k \in 1..Len(c.items) \/ k = Len(c.items) + 1
      BY ComboTypes
    <3> QED
      BY <2>2, <3>1 DEF Lists
  <2> QED
    BY <2>1, <2>3 DEF OwnCombo, i, r
<1> QED
  BY <1>1, <1>2, <1>3, <1>4

---------------------------------------------------------------------------
(* The inductive invariant *)

\* A dialog that no sheet was loaded behind of is about what is on show.
DialogHolds(u) ==
  /\ u.dialog.kind = "inventory" /\ ~u.dialog.crossed => u.inventory.at # 0 /\ ~u.sheet.readOnly
  /\ u.dialog.kind \in {"rows", "move", "split"} /\ ~u.dialog.crossed
       => u.inventory.editable /\ u.dialog.rows \subseteq DOMAIN u.inventory.rows
  /\ u.dialog.kind \in {"move", "split"} /\ ~u.dialog.crossed
       => u.dialog.at \in others(u.inventory)
  /\ u.dialog.kind = "split" /\ ~u.dialog.crossed
       => \E i \in DOMAIN u.inventory.rows : u.dialog.rows = {i} /\ u.inventory.rows[i].n > 1

Signal ==
  {s \in [kind : {"session", "in", "out", "changed"}, id : Id \cup {NoId}, sheets : Sheets(Id),
          late : BOOLEAN] :
     /\ s.kind \in {"in", "out"} => s.id \in Remote
     /\ s.kind \in {"in", "changed"} => s.id \in DOMAIN s.sheets}

ClientOk ==
  /\ client \in Client /\ signals \in Seq(Signal) /\ listed \in Sheets(Id)
  /\ allowed = client.synced /\ (client.synced => client.up)
  /\ ~client.up => client = NoClient
  /\ DOMAIN client.theirs \subseteq Remote \cup {client.me}
  /\ client.me # NoId => (client.synced <=> client.me \in DOMAIN client.theirs)
  /\ ~client.up => \A n \in 1..Len(signals) : signals[n].late

Crashes ==
  /\ crashed \in {"no", "session", "modal", "inventory"}
  /\ crashed = "session" => "late" \in ui.slips
  /\ crashed = "modal" => ui.slips \cap {"loose", "crossed"} # {}
  /\ crashed = "inventory" => "crossed" \in ui.slips

UiOk == Good(ui) /\ DOMAIN typed = DOMAIN ui.db /\ (crashed = "no" => DialogHolds(ui))

IInv == UiOk /\ ClientOk /\ Faithful(ui, client) /\ Crashes

\* What a dialog asks about still holds after a save.
LEMMA DialogKept ==
  ASSUME NEW u, Good(u), DialogHolds(u), NEW w, NEW tell, Kept(w, u, tell)
  PROVE  DialogHolds(w)
<1>1. CASE /\ w.dialog = u.dialog /\ SameTable(w, u) /\ w.sheet = u.sheet
  <2>1. DOMAIN w.inventory.list = DOMAIN u.inventory.list
    <3>1. w.inventory \in Inventory /\ u.inventory \in Inventory
      BY UiTypes DEF Kept, Good
    <3> QED
      BY <1>1, <3>1, InventoryTypes DEF SameTable
  <2>2. others(w.inventory) = others(u.inventory)
    BY <1>1, <2>1 DEF others, SameTable
  <2> QED
    BY <1>1, <2>2 DEF SameTable, DialogHolds
<1>2. CASE w.dialog = crossed(u.dialog)
  <2>1. w.dialog.kind \in {"none", "character"} \/ w.dialog.crossed
    BY <1>2, CrossedDialog
  <2> QED
    BY <2>1 DEF DialogHolds
<1> QED
  BY <1>1, <1>2 DEF Kept

\* What is known of the client when it is told of sheets.
LEMMA TellType ==
  ASSUME ClientOk
  PROVE  /\ Tell \in BOOLEAN /\ Tell = (client.up /\ client.synced)
         /\ client.up \in BOOLEAN /\ client.synced \in BOOLEAN /\ client.me \in Local \cup {NoId}
         /\ client.theirs \in Sheets(Id) /\ client.sent \in Sheet
         /\ NoId \notin DOMAIN client.theirs
<1>1. DOMAIN client.theirs \subseteq Id
  BY SheetsType DEF ClientOk, Client
<1> QED
  BY <1>1, IdsAssumption DEF ClientOk, Client, Tell, Id

\* What the handling of a signal, a pick or a save leaves.
LEMMA KeptInv ==
  ASSUME IInv, crashed = "no", Kept(ui', ui, Tell), client.up => OwnCombo(ui'.combo, client),
         typed' = typed, client' = client, crashed' = crashed
  PROVE  UiOk' /\ Faithful(ui, client)' /\ Crashes'
<1>1. Good(ui)' /\ DOMAIN ui'.db = DOMAIN ui.db /\ ui.slips \subseteq ui'.slips
  BY DEF Kept
<1>2. DialogHolds(ui)'
  BY DialogKept DEF IInv, UiOk
<1>3. Faithful(ui', client)
  BY TellType, Tells DEF IInv, UiOk, ClientOk
<1> QED
  BY <1>1, <1>2, <1>3 DEF IInv, UiOk, Crashes

\* What the user does to the sheet on show leaves.
LEMMA EditInv ==
  ASSUME IInv, crashed = "no", Edited(ui', ui), client.up => ui'.dialog.kind # "character",
         DialogHolds(ui)', DOMAIN typed' = DOMAIN typed, client' = client, crashed' = crashed
  PROVE  UiOk' /\ Faithful(ui, client)' /\ Crashes'
<1>1. Good(ui)' /\ DOMAIN ui'.db = DOMAIN ui.db /\ ui.slips \subseteq ui'.slips
  BY DEF Edited
<1>2. Faithful(ui', client)
  BY EditedFaithful DEF IInv
<1> QED
  BY <1>1, <1>2 DEF IInv, UiOk, Crashes

\* A step of the interface leaves the client well typed.
LEMMA ClientKept ==
  ASSUME IInv, UNCHANGED <<client, signals, allowed, listed>>
  PROVE  ClientOk'
BY DEF IInv, ClientOk

\* What a start leaves, on any file.
Starting ==
  /\ \E file \in File : StartedAs(ui, file)
  /\ DOMAIN typed = DOMAIN ui.db
  /\ client = NoClient /\ signals = <<>> /\ allowed = FALSE /\ listed = Nobody
  /\ crashed = "no"

LEMMA StartInv == Starting => IInv
<1> SUFFICES ASSUME Starting
             PROVE  IInv
  OBVIOUS
<1> PICK file \in File : StartedAs(ui, file)
  BY DEF Starting
<1>1. PICK v : /\ Starts(v, readCharacters(file).content, readCharacters(file).version)
               /\ Step(ui, v, FALSE)
  BY DEF StartedAs
<1>2. Kept(ui, v, FALSE)
  BY <1>1, StepKept
<1>3. v.dialog = NoDialog /\ v.told = <<>> /\ ~saves(v)
  BY <1>1, PlaceholderType DEF Starts, saves
<1>4. Good(ui) /\ ui.told = <<>> /\ ui.dialog = NoDialog
  BY <1>2, <1>3 DEF Kept, crossed, NoDialog
<1>5. DialogHolds(ui)
  BY <1>4 DEF DialogHolds, NoDialog
<1>6. NoClient \in Client /\ NoClient.up = FALSE /\ NoClient.synced = FALSE
      /\ NoClient.me = NoId /\ DOMAIN NoClient.theirs = {}
  BY NobodyType, NewCharacterType DEF NoClient, Client, Nobody
<1>7. ClientOk
  <2>1. <<>> \in Seq(Signal) /\ Len(<<>>) = 0 /\ Nobody \in Sheets(Id)
    BY NobodyType
  <2> HIDE DEF Signal
  <2>2. \A n \in 1..Len(signals) : signals[n].late
    BY <2>1 DEF Starting
  <2>3. client \in Client /\ signals \in Seq(Signal) /\ listed \in Sheets(Id)
    BY <1>6, <2>1 DEF Starting
  <2>4. /\ allowed = client.synced /\ ~client.synced /\ client.me = NoId
        /\ DOMAIN client.theirs = {}
    BY <1>6 DEF Starting
  <2> QED
    BY <2>2, <2>3, <2>4 DEF Starting, ClientOk
<1>8. Faithful(ui, client)
  BY <1>4, <1>6 DEF Starting, Faithful, Owned, Told, Known
<1> QED
  BY <1>4, <1>5, <1>7, <1>8 DEF Starting, IInv, UiOk, Crashes

LEMMA StartInvNext == Starting' => IInv'
BY StartInv, PTL

---------------------------------------------------------------------------
(* What the user does to the sheet on show *)

LEMMA InventoryEdited ==
  ASSUME NEW u, Good(u), NEW inv \in Inventory, Picked(inv),
         inv.loose /\ inv.targets > 0 => "loose" \in u.slips
  PROVE  LET w == [u EXCEPT !.inventory = inv] IN
         /\ Edited(w, u) /\ w.dialog = u.dialog /\ w.inventory = inv /\ w.sheet = u.sheet
         /\ w.slips = u.slips /\ w.spoilt = u.spoilt
<1> DEFINE w == [u EXCEPT !.inventory = inv]
<1>1. w \in Ui
  BY DEF Ui, Good
<1>2. /\ w.db = u.db /\ w.version = u.version /\ w.file = u.file
      /\ w.selection = u.selection /\ w.sheet = u.sheet /\ w.inventory = inv
      /\ w.dialog = u.dialog /\ w.told = u.told /\ w.spoilt = u.spoilt /\ w.slips = u.slips
      /\ w.combo = u.combo
  BY DEF Ui, Good
<1> HIDE DEF w
<1>3. Good(w)
  BY <1>1, <1>2 DEF Good, Matched, LoosePointers
<1> QED
  BY <1>2, <1>3 DEF Edited, w

LEMMA TabsEdited ==
  ASSUME NEW u, Good(u)
  PROVE  LET w == [u EXCEPT !.sheet.tabs = @ + 1] IN
         /\ Edited(w, u) /\ w.dialog = u.dialog /\ w.inventory = u.inventory
         /\ w.sheet.tabs = u.sheet.tabs + 1 /\ w.slips = u.slips /\ w.spoilt = u.spoilt
<1> DEFINE w == [u EXCEPT !.sheet.tabs = @ + 1]
           sheet == [u.sheet EXCEPT !.tabs = @ + 1]
<1>1. sheet \in [id : Id \cup {NoId}, tabs : Nat, readOnly : BOOLEAN]
      /\ sheet.id = u.sheet.id /\ sheet.readOnly = u.sheet.readOnly
      /\ sheet.tabs = u.sheet.tabs + 1
  BY DEF Ui, Good
<1>2. w = [u EXCEPT !.sheet = sheet]
  BY DEF Ui, Good
<1> HIDE DEF sheet, w
<1>3. w \in Ui
  BY <1>1, <1>2 DEF Ui, Good
<1>4. /\ w.db = u.db /\ w.version = u.version /\ w.file = u.file
      /\ w.selection = u.selection /\ w.sheet = sheet /\ w.inventory = u.inventory
      /\ w.dialog = u.dialog /\ w.told = u.told /\ w.spoilt = u.spoilt /\ w.slips = u.slips
      /\ w.combo = u.combo
  BY <1>2 DEF Ui, Good
<1>5. Good(w)
  BY <1>1, <1>3, <1>4 DEF Good, Matched, LoosePointers
<1> QED
  BY <1>1, <1>4, <1>5 DEF Edited, w

LEMMA DialogEdited ==
  ASSUME NEW u, Good(u),
         NEW d \in [kind : DialogKind, rows : SUBSET Nat, at : Nat, crossed : BOOLEAN]
  PROVE  LET w == [u EXCEPT !.dialog = d] IN
         /\ Edited(w, u) /\ w.dialog = d /\ w.inventory = u.inventory /\ w.sheet = u.sheet
         /\ w.slips = u.slips /\ w.spoilt = u.spoilt
<1> DEFINE w == [u EXCEPT !.dialog = d]
<1>1. w \in Ui
  BY DEF Ui, Good
<1>2. /\ w.db = u.db /\ w.version = u.version /\ w.file = u.file
      /\ w.selection = u.selection /\ w.sheet = u.sheet /\ w.inventory = u.inventory
      /\ w.dialog = d /\ w.told = u.told /\ w.spoilt = u.spoilt /\ w.slips = u.slips
      /\ w.combo = u.combo
  BY DEF Ui, Good
<1> HIDE DEF w
<1>3. Good(w)
  BY <1>1, <1>2 DEF Good, Matched, LoosePointers
<1> QED
  BY <1>2, <1>3 DEF Edited, w

LEMMA Spoiled ==
  ASSUME NEW u, Good(u), NEW c \in Id \cup {NoId}
  PROVE  /\ Edited(spoil(u, c), u) /\ spoil(u, c).dialog = u.dialog
         /\ spoil(u, c).inventory = u.inventory /\ spoil(u, c).sheet = u.sheet
         /\ spoil(u, c).slips = u.slips /\ spoil(u, c).spoilt = u.spoilt \cup {c}
<1> DEFINE w == [u EXCEPT !.spoilt = @ \cup {c}]
<1>1. w \in Ui
  <2>1. u.spoilt \cup {c} \in SUBSET (Id \cup {NoId})
    BY UiTypes DEF Good
  <2> QED
    BY <2>1 DEF Ui, Good
<1>2. /\ w.db = u.db /\ w.version = u.version /\ w.file = u.file
      /\ w.selection = u.selection /\ w.sheet = u.sheet /\ w.inventory = u.inventory
      /\ w.dialog = u.dialog /\ w.told = u.told /\ w.spoilt = u.spoilt \cup {c}
      /\ w.slips = u.slips /\ w.combo = u.combo
  BY DEF Ui, Good
<1> HIDE DEF w
<1>3. Good(w)
  BY <1>1, <1>2 DEF Good, Matched, LoosePointers
<1> QED
  BY <1>2, <1>3 DEF Edited, w, spoil

LEMMA SlipEdited ==
  ASSUME NEW u, Good(u), NEW s \in Slip
  PROVE  LET w == [u EXCEPT !.slips = @ \cup {s}] IN
         /\ Edited(w, u) /\ w.dialog = u.dialog /\ w.inventory = u.inventory
         /\ w.sheet = u.sheet /\ w.slips = u.slips \cup {s} /\ w.spoilt = u.spoilt
<1>1. ListedAs([u EXCEPT !.slips = @ \cup {s}], u, u.combo, u.slips \cup {s})
  BY ListedOnly
<1> QED
  BY <1>1 DEF ListedAs, Stays, Edited

\* Two editions one after the other are one.
LEMMA EditedTwice ==
  \A u, v, w : Edited(v, u) /\ Edited(w, v) => Edited(w, u)
BY DEF Edited

\* accepted: whatever is done, the dialog is closed, and what happened to another sheet told.
LEMMA Accepted ==
  ASSUME IInv, NEW u, Edited(u, ui), u.dialog = ui.dialog, accepted(u)
  PROVE  /\ Edited(ui', ui) /\ ui'.dialog = NoDialog /\ ui'.inventory = u.inventory
         /\ ui'.sheet = u.sheet
         /\ ui.dialog.crossed => "crossed" \in ui'.slips /\ ui'.spoilt = u.spoilt \cup {ui.sheet.id}
         /\ ~ui.dialog.crossed => ui'.spoilt = u.spoilt /\ ui'.slips = u.slips
         /\ crashed = "no" /\ client' = client /\ UNCHANGED <<signals, allowed, listed>>
<1>1. crashed = "no" /\ client' = client /\ UNCHANGED <<signals, allowed, listed>>
  BY DEF accepted, clientVars
<1> DEFINE w == [u EXCEPT !.dialog = NoDialog]
           x == [w EXCEPT !.slips = @ \cup {"crossed"}]
<1>2. Good(u)
  BY DEF Edited
<1>3. NoDialog \in [kind : DialogKind, rows : SUBSET Nat, at : Nat, crossed : BOOLEAN]
  BY DEF NoDialog, DialogKind
<1>4. /\ Edited(w, u) /\ w.dialog = NoDialog /\ w.inventory = u.inventory /\ w.sheet = u.sheet
      /\ w.slips = u.slips /\ w.spoilt = u.spoilt
  BY <1>2, <1>3, DialogEdited
<1>5. ui' = IF u.dialog.crossed THEN spoil(x, ui.sheet.id) ELSE w
  <2>1. [u EXCEPT !.dialog = NoDialog, !.slips = @ \cup {"crossed"}] = x
    BY <1>2 DEF Good, Ui
  <2> HIDE DEF x
  <2> QED
    BY <2>1 DEF accepted
<1> HIDE DEF w
<1>6. Edited(w, ui)
  BY <1>4, EditedTwice
<1>7. CASE ~u.dialog.crossed
  BY <1>1, <1>4, <1>5, <1>6, <1>7
<1>8. CASE u.dialog.crossed
  <2>1. Good(w) /\ "crossed" \in Slip
    BY <1>4 DEF Edited, Slip
  <2>2. /\ Edited(x, w) /\ x.dialog = w.dialog /\ x.inventory = w.inventory
        /\ x.sheet = w.sheet /\ x.slips = w.slips \cup {"crossed"} /\ x.spoilt = w.spoilt
    BY <2>1, SlipEdited
  <2> HIDE DEF x
  <2>3. Good(x) /\ ui.sheet.id \in Id \cup {NoId}
    BY <2>2, UiTypes DEF Edited, IInv, UiOk, Good
  <2> DEFINE id == ui.sheet.id
  <2> HIDE DEF id
  <2>4. id \in Id \cup {NoId}
    BY <2>3 DEF id
  <2>5. /\ Edited(spoil(x, id), x) /\ spoil(x, id).dialog = x.dialog
        /\ spoil(x, id).inventory = x.inventory /\ spoil(x, id).sheet = x.sheet
        /\ spoil(x, id).slips = x.slips /\ spoil(x, id).spoilt = x.spoilt \cup {id}
    BY <2>3, <2>4, Spoiled
  <2>6. ui' = spoil(x, id)
    BY <1>5, <1>8 DEF id
  <2>7. Edited(ui', ui)
    BY <1>6, <2>2, <2>5, <2>6, EditedTwice
  <2> QED
    BY <1>1, <1>4, <1>8, <2>2, <2>5, <2>6, <2>7 DEF id
<1> QED
  BY <1>7, <1>8

---------------------------------------------------------------------------
(* The actions *)

LEMMA NoDialogHolds ==
  \A u : u.dialog.kind = "none" => DialogHolds(u)
BY DEF DialogHolds

\* The parts of the invariant.
LEMMA StartFacts ==
  ASSUME IInv
  PROVE  /\ Good(ui) /\ DOMAIN typed = DOMAIN ui.db /\ ClientOk /\ Faithful(ui, client)
         /\ ui \in Ui /\ ui.inventory \in Inventory /\ Picked(ui.inventory) /\ Sound(ui.combo)
         /\ ui.sheet.id \in Id \cup {NoId} /\ ui.sheet.readOnly \in BOOLEAN
         /\ DOMAIN ui.db \in SUBSET Local
         /\ client.up => OwnCombo(ui.combo, client)
         /\ ui.inventory.loose /\ ui.inventory.targets > 0 => "loose" \in ui.slips
BY UiTypes, SoundCombo, SheetsType
   DEF IInv, UiOk, Good, Faithful, Owned, LoosePointers

\* The user's steps leave the list to pick from to the client, while there is one.
Keeps(w, c) == w.items = c.items /\ (w.at = c.at \/ w.at # 0)

Quiet ==
  /\ UNCHANGED <<client, signals, listed>> /\ ui.slips \subseteq ui'.slips
  /\ client.up => Keeps(ui'.combo, ui.combo)

LEMMA PickInv ==
  ASSUME IInv, NEW k \in DOMAIN ui.combo.items, Pick(k)
  PROVE  IInv' /\ Quiet
<1>1. crashed = "no" /\ k \in 1..Len(ui.combo.items) /\ k \in Nat
  BY StartFacts, ComboTypes DEF Pick, act
<1>2. Step(ui', ui, Tell) /\ ui'.combo = [ui.combo EXCEPT !.at = k]
  BY <1>1, StartFacts, TellType, PickedItem DEF Pick
<1>3. Kept(ui', ui, Tell)
  BY <1>2, StepKept
<1>4. client.up => OwnCombo(ui'.combo, client)
  BY <1>1, <1>2, StartFacts, OwnCombos
<1>5. UNCHANGED <<client, signals, allowed, listed, typed, crashed>>
  BY DEF Pick, clientVars
<1>6. UiOk' /\ Faithful(ui, client)' /\ Crashes'
  BY <1>1, <1>3, <1>4, <1>5, KeptInv
<1>7. Keeps(ui'.combo, ui.combo)
  BY <1>1, <1>2, ComboTypes, StartFacts DEF Keeps, Combos, Sound
<1> QED
  BY <1>2, <1>3, <1>5, <1>6, <1>7, ClientKept DEF IInv, Quiet, Kept

LEMMA SaveInv ==
  ASSUME IInv, Save
  PROVE  IInv' /\ Quiet
<1>1. crashed = "no"
  BY DEF Save, act
<1>2. SavedAs(ui', ui, Tell)
  BY StartFacts, TellType, Saved DEF Save
<1>3. Kept(ui', ui, Tell) /\ ui'.combo = ui.combo
  BY <1>2, SavedKept DEF SavedAs, SameButSaved
<1>4. client.up => OwnCombo(ui'.combo, client)
  BY <1>3, StartFacts
<1>5. UNCHANGED <<client, signals, allowed, listed, typed, crashed>>
  BY DEF Save, clientVars
<1>6. UiOk' /\ Faithful(ui, client)' /\ Crashes'
  BY <1>1, <1>3, <1>4, <1>5, KeptInv
<1> QED
  BY <1>3, <1>5, <1>6, ClientKept DEF IInv, Quiet, Keeps, Kept

\* What is written to the sheet on show, no dialog being open.
LEMMA WriteInv ==
  ASSUME IInv, crashed = "no", isWritable, Edited(ui', ui), ui'.dialog = ui.dialog,
         DOMAIN typed' = DOMAIN typed, UNCHANGED <<clientVars, crashed>>
  PROVE  IInv' /\ Quiet
<1>1. UNCHANGED <<client, signals, allowed, listed>>
  BY DEF clientVars
<1>2. ui'.dialog.kind = "none" /\ DialogHolds(ui')
  BY NoDialogHolds DEF isWritable
<1>3. UiOk' /\ Faithful(ui, client)' /\ Crashes'
  BY <1>1, <1>2, EditInv
<1> QED
  BY <1>1, <1>3, ClientKept DEF IInv, Quiet, Keeps, Edited

LEMMA WriteTabsInv ==
  ASSUME IInv, WriteTabs
  PROVE  IInv' /\ Quiet
<1>1. Edited(ui', ui) /\ ui'.dialog = ui.dialog
  BY StartFacts, TabsEdited DEF WriteTabs
<1>2. crashed = "no" /\ isWritable /\ UNCHANGED <<clientVars, crashed>>
  BY DEF WriteTabs, act
<1>3. DOMAIN typed' = DOMAIN typed
  BY DEF WriteTabs
<1> QED
  BY <1>1, <1>2, <1>3, WriteInv

LEMMA AddRowInv ==
  ASSUME IInv, NEW x \in Item, AddRow(x)
  PROVE  IInv' /\ Quiet
<1> DEFINE rows == Append(ui.inventory.rows, [item |-> x, n |-> 1])
           inv == [ui.inventory EXCEPT !.rows = rows]
           u == [ui EXCEPT !.inventory = inv]
<1>1. rows \in Seq(Row)
  <2>1. [item |-> x, n |-> 1] \in Row
    BY DEF Row
  <2>2. ui.inventory.rows \in Seq(Row)
    BY StartFacts, InventoryTypes
  <2> QED
    BY <2>1, <2>2
<1> HIDE DEF rows
<1>2. /\ inv \in Inventory /\ Picked(inv) /\ inv.loose = ui.inventory.loose
      /\ inv.targets = ui.inventory.targets
  BY <1>1, StartFacts, RowsChanged DEF Inventory
<1> HIDE DEF inv
<1>3. Edited(u, ui) /\ u.dialog = ui.dialog
  BY <1>2, StartFacts, InventoryEdited
<1>4. [ui EXCEPT !.inventory.rows = Append(@, [item |-> x, n |-> 1])] = u
  BY StartFacts DEF Ui, inv, rows
<1> HIDE DEF u
<1>5. ui' \in {u, spoil(u, ui.sheet.id)}
  BY <1>4 DEF AddRow
<1>6. Edited(ui', ui) /\ ui'.dialog = ui.dialog
  <2> DEFINE id == ui.sheet.id
  <2>1. Good(u) /\ id \in Id \cup {NoId}
    BY <1>3, StartFacts DEF Edited
  <2>2. ui' \in {u, spoil(u, id)}
    BY <1>5
  <2> HIDE DEF id
  <2>3. Edited(spoil(u, id), u) /\ spoil(u, id).dialog = u.dialog
    BY <2>1, Spoiled
  <2>4. Edited(spoil(u, id), ui)
    BY <1>3, <2>3, EditedTwice
  <2> QED
    BY <1>3, <2>2, <2>3, <2>4
<1>7. crashed = "no" /\ isWritable /\ UNCHANGED <<clientVars, crashed>>
  BY DEF AddRow, act
<1>8. DOMAIN typed' = DOMAIN typed
  BY DEF AddRow
<1> QED
  BY <1>6, <1>7, <1>8, WriteInv

LEMMA PickInventoryInv ==
  ASSUME IInv, NEW k \in DOMAIN ui.inventory.list, PickInventory(k)
  PROVE  IInv' /\ Quiet
<1> DEFINE inv == onSelectedIndexChanged(ui.inventory, k, ui.sheet.readOnly)
<1>1. inv \in Inventory /\ Picked(inv) /\ inv.loose = FALSE
  <2> DEFINE before == ui.inventory
             readOnly == ui.sheet.readOnly
  <2>1. /\ before \in Inventory /\ Picked(before) /\ k \in 1..Len(before.list)
        /\ readOnly \in BOOLEAN
    BY StartFacts, InventoryTypes
  <2> HIDE DEF before, readOnly
  <2>2. /\ onSelectedIndexChanged(before, k, readOnly) \in Inventory
        /\ Picked(onSelectedIndexChanged(before, k, readOnly))
        /\ onSelectedIndexChanged(before, k, readOnly).loose = FALSE
    BY <2>1, Selected
  <2> QED
    BY <2>2 DEF before, readOnly
<1>2. ui' = [ui EXCEPT !.inventory = inv]
  BY StartFacts DEF PickInventory, Ui
<1> HIDE DEF inv
<1>3. Edited(ui', ui) /\ ui'.dialog = ui.dialog
  BY <1>1, <1>2, StartFacts, InventoryEdited
<1>4. crashed = "no" /\ isWritable /\ UNCHANGED <<clientVars, crashed, typed>>
  BY DEF PickInventory, act
<1> QED
  BY <1>3, <1>4, WriteInv

LEMMA AddInventoryInv ==
  ASSUME IInv, AddInventory
  PROVE  IInv' /\ Quiet
<1> DEFINE inv == addButtonPressed(ui.inventory, FALSE)
<1>1. inv \in Inventory /\ Picked(inv) /\ inv.loose = FALSE
  BY StartFacts, Added
<1>2. ui' = [ui EXCEPT !.inventory = inv]
  BY StartFacts DEF AddInventory, Ui
<1> HIDE DEF inv
<1>3. Edited(ui', ui) /\ ui'.dialog = ui.dialog
  BY <1>1, <1>2, StartFacts, InventoryEdited
<1>4. crashed = "no" /\ isWritable /\ UNCHANGED <<clientVars, crashed, typed>>
  BY DEF AddInventory, act
<1> QED
  BY <1>3, <1>4, WriteInv

LEMMA AddCharacterInv ==
  ASSUME IInv, NEW c \in Local, AddCharacter(c)
  PROVE  IInv' /\ Quiet
<1>1. PICK v : Creates(v, ui, c) /\ Step(ui', v, FALSE)
  BY StartFacts, Created DEF AddCharacter
<1>2. Kept(ui', v, FALSE) /\ ui'.dialog.kind = "none"
  <2>1. Kept(ui', v, FALSE)
    BY <1>1, StepKept
  <2>2. v.dialog.kind = "none" /\ Good(v)
    BY <1>1 DEF AddCharacter, Creates
  <2> QED
    BY <2>1, <2>2, CrossedDialog DEF Kept
<1>3. DOMAIN v.db = DOMAIN ui.db \cup {c}
  BY <1>1 DEF Creates, insert
<1>4. Good(ui)' /\ DOMAIN ui'.db = DOMAIN ui.db \cup {c} /\ ui.slips \subseteq ui'.slips
  BY <1>1, <1>2, <1>3 DEF Kept, Creates
<1>5. DOMAIN typed' = DOMAIN typed \cup {c}
  BY DEF AddCharacter, insert
<1>6. crashed = "no" /\ ~client.up /\ UNCHANGED <<client, signals, allowed, listed, crashed>>
  BY DEF AddCharacter, act, clientVars
<1>7. ClientOk'
  BY <1>6, ClientKept
<1>8. ui'.told = <<>>
  <2>1. ui.told = <<>>
    BY <1>6, StartFacts DEF Faithful, Told
  <2> QED
    BY <1>1, <1>2, <2>1 DEF Kept, Creates
<1>9. Faithful(ui, client)'
  <2>1. client.me = NoId
    BY <1>6, StartFacts DEF ClientOk, NoClient
  <2> QED
    BY <1>6, <1>8, <2>1 DEF Faithful, Owned, Told, Known
<1> QED
  BY <1>2, <1>4, <1>5, <1>6, <1>7, <1>9, StartFacts, NoDialogHolds DEF IInv, UiOk, Crashes, Quiet

\* A question is asked, about what is on show.
LEMMA Asked ==
  ASSUME IInv, NEW kind \in DialogKind, NEW S \in SUBSET Nat, NEW k \in Nat, ask(kind, S, k)
  PROVE  /\ Edited(ui', ui) /\ ui'.inventory = ui.inventory /\ ui'.sheet = ui.sheet
         /\ ui'.dialog.kind = kind /\ ui'.dialog.rows = S /\ ui'.dialog.at = k
         /\ ui'.dialog.crossed = FALSE
         /\ ui'.slips = ui.slips /\ ui'.spoilt = ui.spoilt
         /\ crashed = "no" /\ isWritable
         /\ UNCHANGED <<client, signals, allowed, listed, typed>>
<1> DEFINE d == [kind |-> kind, rows |-> S, at |-> k, crossed |-> FALSE]
<1>1. d \in [kind : DialogKind, rows : SUBSET Nat, at : Nat, crossed : BOOLEAN]
  OBVIOUS
<1>2. ui' = [ui EXCEPT !.dialog = d]
  BY DEF ask
<1> HIDE DEF d
<1>3. /\ Edited(ui', ui) /\ ui'.dialog = d /\ ui'.inventory = ui.inventory
      /\ ui'.sheet = ui.sheet /\ ui'.slips = ui.slips /\ ui'.spoilt = ui.spoilt
  BY <1>1, <1>2, StartFacts, DialogEdited
<1>4. d.kind = kind /\ d.rows = S /\ d.at = k /\ d.crossed = FALSE
  BY DEF d
<1> QED
  BY <1>3, <1>4 DEF ask, act, clientVars

LEMMA AskInv ==
  ASSUME IInv, NEW kind \in DialogKind, NEW S \in SUBSET Nat, NEW k \in Nat, ask(kind, S, k),
         kind = "character" => ~client.up, UNCHANGED crashed, DialogHolds(ui)'
  PROVE  IInv' /\ Quiet
<1>1. /\ Edited(ui', ui) /\ ui'.dialog.kind = kind /\ crashed = "no"
      /\ UNCHANGED <<client, signals, allowed, listed, typed>>
  BY Asked
<1>2. UiOk' /\ Faithful(ui, client)' /\ Crashes'
  BY <1>1, EditInv
<1> QED
  BY <1>1, <1>2, ClientKept DEF IInv, Quiet, Keeps, Edited

LEMMA AskDeleteCharacterInv ==
  ASSUME IInv, AskDeleteCharacter
  PROVE  IInv' /\ Quiet
<1> DEFINE k == currentCharacter(ui.combo).id
<1>1. k \in Nat
  <2>1. currentCharacter(ui.combo) \in Entry
    BY StartFacts, ComboTypes
  <2> QED
    BY <2>1, EntryFacts, IdsAssumption DEF Id, NoId
<1>2. ask("character", {}, k) /\ ~client.up /\ UNCHANGED crashed
  BY DEF AskDeleteCharacter
<1> HIDE DEF k
<1>3. "character" \in DialogKind /\ {} \in SUBSET Nat
  BY DEF DialogKind
<1>4. ui'.dialog.kind = "character"
  BY <1>1, <1>2, <1>3, Asked
<1>5. DialogHolds(ui)'
  BY <1>4 DEF DialogHolds
<1> QED
  BY <1>1, <1>2, <1>3, <1>5, AskInv

LEMMA AskDeleteInventoryInv ==
  ASSUME IInv, AskDeleteInventory
  PROVE  IInv' /\ Quiet
<1>1. /\ ask("inventory", {}, 0) /\ UNCHANGED crashed
      /\ ui.inventory.at # 0 /\ ~ui.sheet.readOnly
  BY DEF AskDeleteInventory, mayDelete
<1>2. "inventory" \in DialogKind /\ {} \in SUBSET Nat /\ 0 \in Nat
  BY DEF DialogKind
<1>3. ui'.dialog.kind = "inventory" /\ ui'.inventory = ui.inventory /\ ui'.sheet = ui.sheet
  BY <1>1, <1>2, Asked
<1>4. DialogHolds(ui)'
  BY <1>1, <1>3 DEF DialogHolds
<1> QED
  BY <1>1, <1>2, <1>4, AskInv

LEMMA AskRemoveRowsInv ==
  ASSUME IInv, NEW S \in SUBSET DOMAIN ui.inventory.rows, AskRemoveRows(S)
  PROVE  IInv' /\ Quiet
<1>1. ask("rows", S, 0) /\ UNCHANGED crashed /\ ui.inventory.editable
  BY DEF AskRemoveRows
<1>2. "rows" \in DialogKind /\ S \in SUBSET Nat /\ 0 \in Nat
  <2>1. DOMAIN ui.inventory.rows \in SUBSET Nat
    BY StartFacts, InventoryTypes
  <2> QED
    BY <2>1 DEF DialogKind
<1>3. ui'.inventory = ui.inventory
  BY <1>1, <1>2, Asked
<1>4. ui'.dialog.kind = "rows" /\ ui'.dialog.rows = S
  BY <1>1, <1>2, Asked
<1>5. DialogHolds(ui)'
  BY <1>1, <1>3, <1>4 DEF DialogHolds
<1> QED
  BY <1>1, <1>2, <1>5, AskInv

\* What a modal asks of the table, which may point at what is gone.
LEMMA AskMoveInv ==
  ASSUME IInv, NEW kind \in {"move", "split"}, NEW S \in SUBSET DOMAIN ui.inventory.rows,
         NEW k \in DOMAIN ui.inventory.list, AskMove(kind, S, k),
         kind = "split" => \E i \in DOMAIN ui.inventory.rows :
                             S = {i} /\ ui.inventory.rows[i].n > 1
  PROVE  IInv' /\ Quiet
<1>1. ask(kind, S, k) /\ ui.inventory.editable /\ ui.inventory.targets > 0
  BY DEF AskMove
<1>2. kind \in DialogKind /\ S \in SUBSET Nat /\ k \in Nat
  <2>1. DOMAIN ui.inventory.rows \in SUBSET Nat /\ DOMAIN ui.inventory.list \in SUBSET Nat
    BY StartFacts, InventoryTypes
  <2> QED
    BY <2>1 DEF DialogKind
<1>3. /\ Edited(ui', ui) /\ ui'.inventory = ui.inventory /\ ui'.slips = ui.slips
      /\ crashed = "no" /\ UNCHANGED <<client, signals, allowed, listed, typed>>
  BY <1>1, <1>2, Asked
<1>4. ui'.dialog.kind = kind /\ ui'.dialog.rows = S /\ ui'.dialog.at = k
  BY <1>1, <1>2, Asked
<1>5. CASE ui.inventory.loose
  <2>1. crashed' = "modal" /\ "loose" \in ui.slips
    BY <1>1, <1>5, StartFacts DEF AskMove
  <2>2. Good(ui)' /\ DOMAIN ui'.db = DOMAIN ui.db
    BY <1>3 DEF Edited
  <2>3. Faithful(ui', client)
    BY <1>3, <1>4, StartFacts, EditedFaithful
  <2>4. UiOk' /\ Crashes'
    BY <1>3, <2>1, <2>2, StartFacts DEF UiOk, Crashes
  <2> QED
    BY <1>3, <2>3, <2>4, ClientKept DEF IInv, Quiet, Keeps, Edited
<1>6. CASE ~ui.inventory.loose
  <2>1. k \in others(ui.inventory) /\ UNCHANGED crashed
    BY <1>6 DEF AskMove
  <2>2. DialogHolds(ui)'
    BY <1>1, <1>3, <1>4, <2>1 DEF DialogHolds
  <2> QED
    BY <1>1, <1>2, <2>1, <2>2, AskInv
<1> QED
  BY <1>5, <1>6

LEMMA CancelInv ==
  ASSUME IInv, Cancel
  PROVE  IInv' /\ Quiet
<1>1. NoDialog \in [kind : DialogKind, rows : SUBSET Nat, at : Nat, crossed : BOOLEAN]
      /\ NoDialog.kind = "none"
  BY DEF NoDialog, DialogKind
<1>2. Edited(ui', ui) /\ ui'.dialog = NoDialog
  BY <1>1, StartFacts, DialogEdited DEF Cancel
<1>3. DialogHolds(ui)'
  BY <1>1, <1>2, NoDialogHolds
<1>4. crashed = "no" /\ UNCHANGED <<client, signals, allowed, listed, typed, crashed>>
  BY DEF Cancel, clientVars
<1>5. UiOk' /\ Faithful(ui, client)' /\ Crashes'
  BY <1>1, <1>2, <1>3, <1>4, EditInv
<1> QED
  BY <1>2, <1>4, <1>5, ClientKept DEF IInv, Quiet, Keeps, Edited

\* What a dialog is accepted for, unless a pointer to nothing is followed.
LEMMA AcceptInv ==
  ASSUME IInv, NEW u, Edited(u, ui), u.dialog = ui.dialog, accepted(u),
         DOMAIN typed' = DOMAIN typed,
         \/ crashed' = crashed
         \/ crashed' \in {"modal", "inventory"} /\ ui.dialog.crossed
  PROVE  IInv' /\ Quiet
<1>1. /\ Edited(ui', ui) /\ ui'.dialog = NoDialog
      /\ ui.dialog.crossed => "crossed" \in ui'.slips
      /\ crashed = "no" /\ client' = client /\ UNCHANGED <<signals, allowed, listed>>
  BY Accepted
<1>2. DialogHolds(ui)' /\ ui'.dialog.kind = "none"
  BY <1>1, NoDialogHolds DEF NoDialog
<1>3. Faithful(ui', client)
  BY <1>1, <1>2, StartFacts, EditedFaithful
<1>4. UiOk'
  BY <1>1, <1>2, StartFacts DEF UiOk, Edited
<1>5. Crashes'
  BY <1>1 DEF Crashes, IInv
<1> QED
  BY <1>1, <1>3, <1>4, <1>5, ClientKept DEF IInv, Quiet, Keeps, Edited

LEMMA DeleteCharacterInv ==
  ASSUME IInv, DeleteCharacter
  PROVE  IInv' /\ Quiet
<1> DEFINE c == ui.dialog.at
           u == [ui EXCEPT !.dialog = NoDialog]
<1>1. NoDialog \in [kind : DialogKind, rows : SUBSET Nat, at : Nat, crossed : BOOLEAN]
      /\ NoDialog.kind = "none" /\ crossed(NoDialog) = NoDialog
  BY DEF NoDialog, DialogKind, crossed
<1>2. Edited(u, ui) /\ u.dialog = NoDialog
  BY <1>1, StartFacts, DialogEdited
<1>3. ui' \in deleteCharacter(u, c)
  BY DEF DeleteCharacter
<1> HIDE DEF u, c
<1>4. PICK v : Deletes(v, u, c) /\ Drops(ui', v, c, FALSE)
  BY <1>2, <1>3, DeletedCharacter DEF Edited
<1>5. Kept(ui', v, FALSE)
  BY <1>4, StepKept DEF Drops
<1>6. ~saves(v) /\ v.dialog = NoDialog
  BY <1>2, <1>4, PlaceholderType DEF Deletes, saves
<1>7. /\ Good(ui') /\ ui'.db = v.db /\ ui'.told = v.told /\ ui'.dialog = NoDialog
      /\ v.slips \subseteq ui'.slips
  BY <1>1, <1>5, <1>6 DEF Kept
<1>8. v.told = ui.told /\ v.slips = u.slips /\ DOMAIN v.db = DOMAIN ui.db \ {c}
  BY <1>2, <1>4 DEF Deletes, Edited
<1>9. /\ crashed = "no" /\ DOMAIN typed' = DOMAIN typed \ {c}
      /\ UNCHANGED <<client, signals, allowed, listed, crashed>>
  BY DEF DeleteCharacter, clientVars, c
<1>10. ~client.up
  BY StartFacts DEF DeleteCharacter, Faithful, Owned
<1>11. client.me = NoId /\ ui.told = <<>>
  BY <1>10, StartFacts DEF ClientOk, NoClient, Faithful, Told
<1>12. Faithful(ui, client)'
  BY <1>7, <1>8, <1>9, <1>10, <1>11 DEF Faithful, Owned, Told, Known
<1>13. UiOk'
  BY <1>1, <1>7, <1>8, <1>9, StartFacts, NoDialogHolds DEF UiOk
<1>14. Crashes'
  BY <1>9 DEF Crashes
<1> QED
  BY <1>2, <1>7, <1>8, <1>9, <1>10, <1>12, <1>13, <1>14, ClientKept DEF IInv, Quiet, Edited

LEMMA Unedited ==
  ASSUME IInv
  PROVE  Edited(ui, ui)
BY StartFacts DEF Edited

LEMMA WithoutRows ==
  \A rows : DOMAIN withoutRows(rows) = DOMAIN typed
BY DEF withoutRows

LEMMA DeleteInventoryInv ==
  ASSUME IInv, DeleteInventory
  PROVE  IInv' /\ Quiet
<1>1. CASE ui.inventory.at = 0
  <2>1. accepted(ui) /\ crashed' = "inventory" /\ UNCHANGED typed /\ crashed = "no"
    BY <1>1 DEF DeleteInventory, accepted
  <2>2. ui.dialog.crossed
    BY <1>1, <2>1 DEF DeleteInventory, IInv, UiOk, DialogHolds
  <2> QED
    BY <2>1, <2>2, Unedited, AcceptInv
<1>2. CASE ui.inventory.at # 0
  <2> DEFINE inv == deleteInventory(ui.inventory, ui.sheet.readOnly)
             u == [ui EXCEPT !.inventory = inv]
  <2>1. inv \in Inventory /\ Picked(inv) /\ (inv.loose => inv.targets = 0)
    <3> DEFINE before == ui.inventory
               readOnly == ui.sheet.readOnly
    <3>1. before \in Inventory /\ Picked(before) /\ before.at # 0 /\ readOnly \in BOOLEAN
      BY <1>2, StartFacts
    <3> HIDE DEF before, readOnly
    <3>2. /\ deleteInventory(before, readOnly) \in Inventory
          /\ Picked(deleteInventory(before, readOnly))
          /\ deleteInventory(before, readOnly).loose =>
               deleteInventory(before, readOnly).targets = 0
      BY <3>1, Deleted
    <3> QED
      BY <3>2 DEF before, readOnly
  <2>2. [ui EXCEPT !.inventory = deleteInventory(@, ui.sheet.readOnly)] = u
    BY StartFacts DEF Ui
  <2> HIDE DEF inv
  <2>3. Edited(u, ui) /\ u.dialog = ui.dialog
    BY <2>1, StartFacts, InventoryEdited
  <2>4. accepted(u) /\ DOMAIN typed' = DOMAIN typed /\ UNCHANGED crashed
    BY <1>2, <2>2, WithoutRows DEF DeleteInventory
  <2> QED
    BY <2>3, <2>4, AcceptInv
<1> QED
  BY <1>1, <1>2

LEMMA RemoveRowsInv ==
  ASSUME IInv, RemoveRows
  PROVE  IInv' /\ Quiet
<1> DEFINE S == ui.dialog.rows \cap DOMAIN ui.inventory.rows
           rows == removeRows(ui.inventory.rows, S)
           inv == [ui.inventory EXCEPT !.rows = rows]
           u == [ui EXCEPT !.inventory = inv]
<1>1. rows \in Seq(Row)
  <2> DEFINE all == ui.inventory.rows
  <2>1. all \in Seq(Row) /\ DOMAIN all = 1..Len(all)
    BY StartFacts, InventoryTypes
  <2> HIDE DEF all, S
  <2>2. DOMAIN all \ S \in SUBSET (1..Len(all))
    BY <2>1
  <2>3. removeRows(all, S) \in Seq(Row)
    BY <2>1, <2>2, RowsAt DEF removeRows
  <2> QED
    BY <2>3 DEF all
<1>2. accepted(u)
  <2>1. [ui EXCEPT !.inventory.rows = removeRows(@, S)] = u
    <3> HIDE DEF S
    <3> QED
      BY StartFacts DEF Ui
  <2> HIDE DEF u
  <2> QED
    BY <2>1 DEF RemoveRows
<1> HIDE DEF rows, S
<1>3. /\ inv \in Inventory /\ Picked(inv) /\ inv.loose = ui.inventory.loose
      /\ inv.targets = ui.inventory.targets
  BY <1>1, StartFacts, RowsChanged DEF Inventory
<1> HIDE DEF inv
<1>4. Edited(u, ui) /\ u.dialog = ui.dialog
  BY <1>3, StartFacts, InventoryEdited
<1>5. DOMAIN typed' = DOMAIN typed /\ UNCHANGED crashed
  BY WithoutRows DEF RemoveRows
<1> QED
  BY <1>2, <1>4, <1>5, AcceptInv

\* What is moved or split is what was asked, the table being the same.
LEMMA TargetOk ==
  ASSUME IInv, crashed = "no", ui.dialog.kind \in {"move", "split"}, ~ui.dialog.crossed
  PROVE  /\ ui.dialog.rows \in SUBSET (1..Len(ui.inventory.rows))
         /\ ui.dialog.at \in 1..Len(ui.inventory.list) /\ ui.dialog.at # ui.inventory.at
         /\ ui.dialog.kind = "split" =>
              /\ Min(ui.dialog.rows) \in 1..Len(ui.inventory.rows)
              /\ ui.dialog.rows = {Min(ui.dialog.rows)}
              /\ ui.inventory.rows[Min(ui.dialog.rows)].n > 1
<1>1. DialogHolds(ui)
  BY DEF IInv, UiOk
<1>2. DOMAIN ui.inventory.rows = 1..Len(ui.inventory.rows)
      /\ DOMAIN ui.inventory.list = 1..Len(ui.inventory.list)
  BY StartFacts, InventoryTypes
<1>3. CASE ui.dialog.kind = "split"
  <2>1. PICK i \in 1..Len(ui.inventory.rows) :
          ui.dialog.rows = {i} /\ ui.inventory.rows[i].n > 1
    BY <1>1, <1>2, <1>3 DEF DialogHolds
  <2>2. Min({i}) = i
    <3>1. IsFiniteSet({i}) /\ {i} \in SUBSET Nat
      <4>1. i \in Nat
        BY StartFacts, InventoryTypes
      <4> QED
        BY <4>1, FS_Singleton
    <3> QED
      BY <3>1, Extremes
  <2> QED
    BY <1>1, <1>2, <2>1, <2>2 DEF DialogHolds, others
<1>4. CASE ui.dialog.kind # "split"
  BY <1>1, <1>2, <1>4 DEF DialogHolds, others
<1> QED
  BY <1>3, <1>4

LEMMA MoveItemsInv ==
  ASSUME IInv, MoveItems
  PROVE  IInv' /\ Quiet
<1>1. crashed = "no" /\ ui.dialog.kind = "move" /\ UNCHANGED typed
  BY DEF MoveItems, accepted
<1>2. CASE ui.dialog.crossed
  <2>1. accepted(ui) /\ crashed' = "modal"
    BY <1>2 DEF MoveItems
  <2> QED
    BY <1>1, <1>2, <2>1, Unedited, AcceptInv
<1>3. CASE ~ui.dialog.crossed
  <2> DEFINE inv == moveInventoryItems(ui.inventory, ui.dialog.rows, ui.dialog.at)
             u == [ui EXCEPT !.inventory = inv]
  <2>1. inv \in Inventory /\ Picked(inv)
    <3> DEFINE before == ui.inventory
               S == ui.dialog.rows
               k == ui.dialog.at
    <3>1. /\ before \in Inventory /\ Picked(before) /\ S \in SUBSET (1..Len(before.rows))
          /\ k \in 1..Len(before.list)
      BY <1>1, <1>3, StartFacts, TargetOk
    <3> HIDE DEF before, S, k
    <3>2. moveInventoryItems(before, S, k) \in Inventory /\ Picked(moveInventoryItems(before, S, k))
      BY <3>1, Moved
    <3> QED
      BY <3>2 DEF before, S, k
  <2>2. inv.loose = ui.inventory.loose /\ inv.targets = ui.inventory.targets
    BY StartFacts DEF moveInventoryItems, Inventory
  <2>3. accepted(u) /\ UNCHANGED crashed
    <3>1. [ui EXCEPT !.inventory = moveInventoryItems(@, ui.dialog.rows, ui.dialog.at)] = u
      BY StartFacts DEF Ui
    <3> HIDE DEF u
    <3> QED
      BY <1>3, <3>1 DEF MoveItems
  <2> HIDE DEF inv
  <2>4. Edited(u, ui) /\ u.dialog = ui.dialog
    BY <2>1, <2>2, StartFacts, InventoryEdited
  <2> QED
    BY <1>1, <2>3, <2>4, AcceptInv
<1> QED
  BY <1>2, <1>3

LEMMA SplitItemInv ==
  ASSUME IInv, SplitItem
  PROVE  IInv' /\ Quiet
<1>1. crashed = "no" /\ ui.dialog.kind = "split" /\ UNCHANGED typed
  BY DEF SplitItem, accepted
<1>2. CASE ui.dialog.crossed
  <2>1. accepted(ui) /\ crashed' = "modal"
    BY <1>2 DEF SplitItem
  <2> QED
    BY <1>1, <1>2, <2>1, Unedited, AcceptInv
<1>3. CASE ~ui.dialog.crossed
  <2> DEFINE i == Min(ui.dialog.rows)
  <2>1. PICK n \in 0..ui.inventory.rows[i].n - 1 :
          accepted([ui EXCEPT !.inventory = splitInventoryItem(@, i, n, ui.dialog.at)])
    BY <1>3 DEF SplitItem
  <2> DEFINE inv == splitInventoryItem(ui.inventory, i, n, ui.dialog.at)
             u == [ui EXCEPT !.inventory = inv]
  <2>2. inv \in Inventory /\ Picked(inv)
    <3> DEFINE before == ui.inventory
               k == ui.dialog.at
    <3>1. /\ before \in Inventory /\ Picked(before) /\ i \in 1..Len(before.rows)
          /\ n \in 0..before.rows[i].n - 1 /\ k \in 1..Len(before.list)
      BY <1>1, <1>3, <2>1, StartFacts, TargetOk
    <3> HIDE DEF before, k, i
    <3>2. splitInventoryItem(before, i, n, k) \in Inventory
          /\ Picked(splitInventoryItem(before, i, n, k))
      BY <3>1, Split
    <3> QED
      BY <3>2 DEF before, k
  <2>3. inv.loose = ui.inventory.loose /\ inv.targets = ui.inventory.targets
    BY StartFacts DEF splitInventoryItem, Inventory
  <2>4. accepted(u) /\ UNCHANGED crashed
    <3>1. [ui EXCEPT !.inventory = splitInventoryItem(@, i, n, ui.dialog.at)] = u
      <4> HIDE DEF i
      <4> QED
        BY StartFacts DEF Ui
    <3> HIDE DEF u
    <3> QED
      BY <1>3, <2>1, <3>1 DEF SplitItem
  <2> HIDE DEF inv
  <2>5. Edited(u, ui) /\ u.dialog = ui.dialog
    BY <2>2, <2>3, StartFacts, InventoryEdited
  <2> QED
    BY <1>1, <2>4, <2>5, AcceptInv
<1> QED
  BY <1>2, <1>3

---------------------------------------------------------------------------
(* Connections and starts *)

\* A change of what is told leaves the widgets as they were.
LEMMA ToldEdited ==
  ASSUME NEW u, Good(u), NEW told \in Seq(Sheet)
  PROVE  LET w == [u EXCEPT !.told = told] IN
         /\ Good(w) /\ w.told = told /\ w.db = u.db /\ w.version = u.version
         /\ w.file = u.file /\ w.combo = u.combo /\ w.selection = u.selection
         /\ w.sheet = u.sheet /\ w.inventory = u.inventory /\ w.dialog = u.dialog
         /\ w.spoilt = u.spoilt /\ w.slips = u.slips
<1> DEFINE w == [u EXCEPT !.told = told]
<1>1. w \in Ui
  BY DEF Ui, Good
<1>2. /\ w.db = u.db /\ w.version = u.version /\ w.file = u.file
      /\ w.selection = u.selection /\ w.sheet = u.sheet /\ w.inventory = u.inventory
      /\ w.dialog = u.dialog /\ w.told = told /\ w.spoilt = u.spoilt /\ w.slips = u.slips
      /\ w.combo = u.combo
  BY DEF Ui, Good
<1> HIDE DEF w
<1>3. Good(w)
  BY <1>1, <1>2 DEF Good, Matched, LoosePointers
<1> QED
  BY <1>2, <1>3 DEF w

\* The client that there is before any is up.
LEMMA NoClientFacts ==
  /\ NoClient \in Client /\ NoClient.up = FALSE /\ NoClient.synced = FALSE
  /\ NoClient.me = NoId /\ NoClient.theirs = Nobody /\ DOMAIN Nobody = {}
BY NobodyType, NewCharacterType DEF NoClient, Client, Nobody

LEMMA ConnectInv ==
  ASSUME IInv, NEW c \in DOMAIN ui.db \cup {NoId}, Connect(c)
  PROVE  IInv'
<1> DEFINE saved == c = NoId \/ isSaved(c)
           slipping == [ui EXCEPT !.slips = @ \cup {"unsaved"}]
           u == IF saved THEN ui ELSE slipping
<1>1. /\ crashed = "no" /\ ui.dialog.kind = "none" /\ ~client.up
      /\ UNCHANGED <<signals, allowed, listed, typed, crashed>>
  BY DEF Connect, act
<1>2. allowed = FALSE /\ ui.told = <<>>
  BY <1>1, StartFacts DEF ClientOk, Client, Faithful, Told
<1>3. Good(u) /\ Stays(u, ui) /\ u.combo = ui.combo /\ (~saved => "unsaved" \in u.slips)
  <2>1. ListedAs(slipping, ui, ui.combo, ui.slips \cup {"unsaved"})
    BY StartFacts, ListedOnly DEF Slip
  <2> HIDE DEF slipping, saved
  <2>2. Stays(ui, ui)
    BY StartFacts, StaysSame
  <2> QED
    BY <2>1, <2>2 DEF ListedAs, Stays
<1>4. ui' = loadEmpty(u, FALSE)
  BY <1>2 DEF Connect
<1> HIDE DEF u, saved
<1>5. Step(ui', u, FALSE) /\ ui'.combo = EmptyCombo /\ ui'.selection = Placeholder
  BY <1>3, <1>4, EmptyLoaded
<1>6. Kept(ui', ui, FALSE) /\ u.slips \subseteq ui'.slips
  <2>1. Step(ui', ui, FALSE)
    BY <1>3, <1>5, StepAfter
  <2>2. Kept(ui', ui, FALSE)
    BY <2>1, StepKept
  <2>3. Kept(ui', u, FALSE)
    BY <1>5, StepKept
  <2> QED
    BY <2>2, <2>3 DEF Kept
<1>7. /\ Good(ui') /\ DOMAIN ui'.db = DOMAIN ui.db /\ ui'.told = <<>>
      /\ ui'.dialog.kind = "none"
  BY <1>1, <1>2, <1>6, StartFacts, CrossedDialog DEF Kept
<1>8. /\ client'.up = TRUE /\ client'.synced = FALSE /\ client'.me = c
      /\ client'.theirs = Nobody /\ client' \in Client
      /\ c # NoId => client'.sent = ui.db[c]
  <2>1. c # NoId => ui.db[c] \in Sheet
    BY StartFacts, UiTypes, SheetsType DEF Good
  <2>2. c \in Local \cup {NoId}
    BY StartFacts
  <2> QED
    BY <2>1, <2>2, NobodyType, NewCharacterType DEF Connect, NoClient, Client
<1>9. ClientOk'
  <2>1. signals' \in Seq(Signal) /\ listed' \in Sheets(Id)
    BY <1>1, StartFacts DEF ClientOk
  <2> QED
    BY <1>1, <1>2, <1>8, <2>1, NoClientFacts DEF ClientOk
<1>10. Known(ui', client')
  <2> SUFFICES ASSUME c # NoId, "unsaved" \notin ui'.slips
               PROVE  ui.db[c] = ui'.db[c]
    BY <1>7, <1>8 DEF Known
  <2>1. isSaved(c)
    BY <1>3, <1>6 DEF saved
  <2>2. CASE ui'.db = ui.db
    BY <2>2
  <2>3. CASE /\ saves(ui) /\ ui.sheet.id \in DOMAIN ui.db
             /\ ui'.db = [ui.db EXCEPT ![ui.sheet.id] = generateCharacter(ui)]
    <3>1. CASE ui.sheet.id = c
      BY <2>1, <2>3, <3>1 DEF saves, isSaved, isShown
    <3>2. CASE ui.sheet.id # c
      BY <2>3, <3>2
    <3> QED
      BY <3>1, <3>2
  <2> QED
    BY <1>6, <2>2, <2>3 DEF Kept
<1>11. Owned(ui', client')
  BY <1>5, <1>7, <1>8, EmptyCombos, ItemFields, PlaceholderType
     DEF Owned, OwnCombo, Placeholder
<1>12. Told(ui', client')
  BY <1>7, <1>8 DEF Told
<1>13. UiOk' /\ Crashes'
  BY <1>1, <1>7, StartFacts, NoDialogHolds DEF UiOk, Crashes
<1> QED
  BY <1>9, <1>10, <1>11, <1>12, <1>13 DEF IInv, Faithful

LEMMA DisconnectInv ==
  ASSUME IInv, Disconnect
  PROVE  IInv'
<1> DEFINE u == loadLocalCharacters(ui)
<1>1. /\ crashed = "no" /\ client' = NoClient /\ allowed' = FALSE /\ listed' = Nobody
      /\ UNCHANGED <<typed, crashed>>
  BY DEF Disconnect, act
<1>2. Kept(u, ui, FALSE)
  BY StartFacts, LocalsLoaded, StepKept
<1>3. ui' = [u EXCEPT !.told = <<>>]
  BY DEF Disconnect
<1> HIDE DEF u
<1>4. Good(u) /\ DOMAIN u.db = DOMAIN ui.db /\ <<>> \in Seq(Sheet)
  BY <1>2 DEF Kept
<1>5. /\ Good(ui') /\ ui'.told = <<>> /\ ui'.db = u.db /\ ui'.dialog = u.dialog
      /\ ui'.sheet = u.sheet /\ ui'.inventory = u.inventory
  <2> DEFINE w == [u EXCEPT !.told = <<>>]
  <2>1. /\ Good(w) /\ w.told = <<>> /\ w.db = u.db /\ w.dialog = u.dialog
        /\ w.sheet = u.sheet /\ w.inventory = u.inventory
    BY <1>4, ToldEdited
  <2> QED
    BY <1>3, <2>1
<1>6. DialogHolds(u)
  BY <1>1, <1>2, DialogKept DEF IInv, UiOk
<1>7. UiOk'
  BY <1>1, <1>4, <1>5, <1>6, StartFacts DEF UiOk, DialogHolds
<1>8. signals' \in Seq(Signal) /\ \A n \in 1..Len(signals') : signals'[n].late
  <2> DEFINE later(s) == [s EXCEPT !.late = TRUE]
  <2>1. signals \in Seq(Signal)
    BY StartFacts DEF ClientOk
  <2>2. \A s \in Signal : later(s) \in Signal /\ later(s).late
    BY DEF Signal
  <2>3. signals' = [n \in 1..Len(signals) |-> later(signals[n])] /\ Len(signals) \in Nat
    BY <2>1 DEF Disconnect
  <2> HIDE DEF later, Signal
  <2>4. signals' \in [1..Len(signals) -> Signal]
    BY <2>1, <2>2, <2>3
  <2>5. signals' \in Seq(Signal) /\ Len(signals') = Len(signals)
    BY <2>3, <2>4, IsSeq
  <2> QED
    BY <2>1, <2>2, <2>3, <2>5
<1>9. ClientOk'
  BY <1>1, <1>8, NoClientFacts, NobodyType DEF ClientOk
<1>10. Faithful(ui, client)'
  BY <1>1, <1>5, NoClientFacts DEF Faithful, Owned, Told, Known
<1> QED
  BY <1>1, <1>7, <1>9, <1>10 DEF IInv, Crashes

LEMMA RestartInv ==
  ASSUME IInv, NEW file \in File, NEW kept, restart(file, kept), crashed = "no"
  PROVE  IInv'
<1>1. ui' = started(readCharacters(file))
  BY DEF restart
<1>2. StartedAs(ui', file)
  BY <1>1, Started
<1>3. DOMAIN typed' = DOMAIN ui'.db
  BY <1>1 DEF restart
<1>4. /\ client' = NoClient /\ signals' = <<>> /\ allowed' = FALSE /\ listed' = Nobody
      /\ crashed' = "no"
  BY DEF restart
<1>5. Starting'
  BY <1>2, <1>3, <1>4 DEF Starting
<1> QED
  BY <1>5, StartInvNext

LEMMA QuitInv ==
  ASSUME IInv, Quit
  PROVE  IInv'
<1> DEFINE file == maySaveCurrentCharacter(ui, Tell).file
<1>1. SavedAs(maySaveCurrentCharacter(ui, Tell), ui, Tell)
  BY StartFacts, TellType, Saved
<1>2. file \in File
  BY <1>1, UiTypes DEF SavedAs, Good
<1> HIDE DEF file
<1>3. crashed = "no" /\ \E kept : restart(file, kept)
  BY DEF Quit, act, file
<1> QED
  BY <1>2, <1>3, RestartInv

LEMMA CrashInv ==
  ASSUME IInv, Crash
  PROVE  IInv'
<1>1. ui.file \in File /\ cutShort \subseteq File
  BY StartFacts, UiTypes DEF cutShort, File
<1>2. crashed = "no" /\ \E file \in File : \E kept : restart(file, kept)
  BY <1>1 DEF Crash, act
<1> QED
  BY <1>2, RestartInv

---------------------------------------------------------------------------
(* The client's thread *)

\* What it reads goes to its table and, as a signal, to the interface.
SignalOk(kind, c, sheets) ==
  /\ kind \in {"session", "in", "out", "changed"} /\ c \in Id \cup {NoId} /\ sheets \in Sheets(Id)
  /\ kind \in {"in", "out"} => c \in Remote
  /\ kind \in {"in", "changed"} => c \in DOMAIN sheets

\* A signal is well typed.
LEMMA SignalType ==
  ASSUME IInv, NEW kind, NEW c, NEW sheets, SignalOk(kind, c, sheets), signal(kind, c, sheets)
  PROVE  signals' \in Seq(Signal)
<1> DEFINE s == [kind |-> kind, id |-> c, sheets |-> sheets, late |-> FALSE]
<1>1. s \in Signal
  BY DEF Signal, SignalOk
<1>2. signals' = Append(signals, s) /\ signals \in Seq(Signal)
  BY StartFacts DEF signal, ClientOk
<1> HIDE DEF s, Signal
<1> QED
  BY <1>1, <1>2

\* The client that read it; what was told may reach the server.
Reads ==
  /\ crashed = "no" /\ client.up /\ client' \in Client /\ client'.up = TRUE
  /\ client'.me = client.me /\ allowed' = client'.synced /\ (client.synced => client'.synced)
  /\ DOMAIN client'.theirs \subseteq Remote \cup {client.me}
  /\ client.me # NoId => (client'.synced <=> client.me \in DOMAIN client'.theirs)
  /\ Good(ui') /\ ui'.db = ui.db /\ ui'.combo = ui.combo /\ ui'.selection = ui.selection
  /\ ui'.dialog = ui.dialog /\ ui'.inventory = ui.inventory /\ ui'.sheet = ui.sheet
  /\ ui'.slips = ui.slips
  /\ \/ ui'.told = ui.told /\ client'.sent = client.sent
     \/ /\ ui.told # <<>>
        /\ (IF ui'.told = <<>> THEN client'.sent ELSE Last(ui'.told)) = Last(ui.told)
  /\ UNCHANGED <<listed, typed, crashed>>

LEMMA SignalInv ==
  ASSUME IInv, signals' \in Seq(Signal), Reads
  PROVE  IInv'
<1>1. ClientOk'
  <2>1. client.up /\ UNCHANGED listed
    BY DEF Reads
  <2> QED
    BY <2>1, StartFacts DEF ClientOk, Reads
<1>2. Owned(ui', client')
  BY StartFacts DEF Faithful, Owned, OwnCombo, Reads
<1>3. Told(ui', client')
  BY StartFacts DEF Faithful, Told, Reads
<1>4. Known(ui', client')
  BY StartFacts DEF Faithful, Known, Reads
<1>5. UiOk'
  BY DEF IInv, UiOk, DialogHolds, Reads
<1>6. Crashes'
  BY DEF IInv, Crashes, Reads
<1> QED
  BY <1>1, <1>2, <1>3, <1>4, <1>5, <1>6 DEF IInv, Faithful

LEMMA GameSessionSyncInv ==
  ASSUME IInv, NEW S \in SUBSET Remote, GameSessionSync(S)
  PROVE  IInv'
<1> DEFINE users == [c \in S |-> NewCharacter]
           me == client.me
           sent == client.sent
           all == IF me = NoId THEN users ELSE insert(users, me, sent)
<1>1. /\ crashed = "no" /\ client.up /\ ~client.synced
      /\ client' = [client EXCEPT !.synced = TRUE, !.theirs = all]
      /\ signal("session", NoId, all) /\ allowed' = TRUE
      /\ UNCHANGED <<ui, listed, typed, crashed>>
  BY DEF GameSessionSync, read
<1>2. client \in Client /\ me \in Local \cup {NoId} /\ sent \in Sheet /\ me \notin Remote
  BY StartFacts, IdsAssumption DEF ClientOk, Client
<1> HIDE DEF me, sent
<1>3. users \in Sheets(Id) /\ DOMAIN users = S
  <2>1. DOMAIN users \subseteq Id /\ users \in [DOMAIN users -> Sheet]
    BY NewCharacterType DEF Id
  <2> QED
    BY <2>1, SheetsType
<1> HIDE DEF users
<1>4. /\ all \in Sheets(Id) /\ DOMAIN all = S \cup ({me} \ {NoId})
  <2>1. CASE me = NoId
    BY <1>3, <2>1
  <2>2. CASE me # NoId
    <3>1. me \in Id
      BY <1>2, <2>2 DEF Id
    <3>2. InsertedIn(insert(users, me, sent), users, me)
      BY <1>2, <1>3, <3>1, InsertedInSession
    <3> QED
      BY <1>3, <2>2, <3>2 DEF InsertedIn
  <2> QED
    BY <2>1, <2>2
<1> HIDE DEF all
<1>5. /\ client' \in Client /\ client'.up = TRUE /\ client'.synced = TRUE /\ client'.me = client.me
      /\ client'.theirs = all /\ client'.sent = client.sent
  BY <1>1, <1>2, <1>4 DEF Client
<1>6. /\ DOMAIN client'.theirs \subseteq Remote \cup {client.me}
      /\ client.me # NoId => client.me \in DOMAIN client'.theirs
  BY <1>4, <1>5 DEF me
<1> QED
  <2>1. signals' \in Seq(Signal)
    <3>1. SignalOk("session", NoId, all)
      BY <1>4 DEF SignalOk
    <3> QED
      BY <1>1, <3>1, SignalType
  <2>2. Reads
    BY <1>1, <1>5, <1>6, StartFacts DEF Reads
  <2> QED
    BY <2>1, <2>2, SignalInv

LEMMA UserInInv ==
  ASSUME IInv, NEW c \in Remote, UserIn(c)
  PROVE  IInv'
<1> DEFINE theirs == client.theirs
           all == insert(theirs, c, NewCharacter)
           one == insert(Nobody, c, NewCharacter)
<1>1. /\ crashed = "no" /\ client.up /\ client' = [client EXCEPT !.theirs = all]
      /\ signal("in", c, one) /\ UNCHANGED <<ui, allowed, listed, typed, crashed>>
  BY StartFacts DEF UserIn, read, ClientOk, Client
<1>2. /\ client \in Client /\ theirs \in Sheets(Id) /\ client.me \notin Remote
      /\ c \in Id /\ c \in Id \cup {NoId} /\ allowed = client.synced
  BY StartFacts, IdsAssumption DEF ClientOk, Client, Id
<1>3. /\ DOMAIN theirs \subseteq Remote \cup {client.me}
      /\ client.me # NoId => (client.synced <=> client.me \in DOMAIN theirs)
  BY StartFacts DEF ClientOk
<1> HIDE DEF theirs
<1>4. all \in Sheets(Id) /\ DOMAIN all = DOMAIN theirs \cup {c}
  <2>1. InsertedIn(all, theirs, c)
    BY <1>2, NewCharacterType, InsertedInSession
  <2> QED
    BY <2>1 DEF InsertedIn
<1>5. one \in Sheets(Id) /\ c \in DOMAIN one
  <2>1. InsertedIn(one, Nobody, c)
    BY <1>2, NobodyType, NewCharacterType, InsertedInSession
  <2> QED
    BY <2>1 DEF InsertedIn
<1> HIDE DEF all, one
<1>6. /\ client' \in Client /\ client'.up = TRUE /\ client'.synced = client.synced
      /\ client'.me = client.me /\ client'.theirs = all /\ client'.sent = client.sent
  BY <1>1, <1>2, <1>4 DEF Client
<1>7. /\ DOMAIN client'.theirs \subseteq Remote \cup {client.me}
      /\ client.me # NoId => (client'.synced <=> client.me \in DOMAIN client'.theirs)
  BY <1>2, <1>3, <1>4, <1>6
<1> QED
  <2>1. signals' \in Seq(Signal)
    <3>1. SignalOk("in", c, one)
      BY <1>2, <1>5 DEF SignalOk
    <3> QED
      BY <1>1, <3>1, SignalType
  <2>2. Reads
    BY <1>1, <1>2, <1>6, <1>7, StartFacts DEF Reads
  <2> QED
    BY <2>1, <2>2, SignalInv

LEMMA UserOutInv ==
  ASSUME IInv, NEW c \in Remote, UserOut(c)
  PROVE  IInv'
<1> DEFINE theirs == client.theirs
           all == [d \in DOMAIN theirs \ {c} |-> theirs[d]]
<1>1. /\ crashed = "no" /\ client.up /\ client' = [client EXCEPT !.theirs = all]
      /\ signal("out", c, Nobody) /\ UNCHANGED <<ui, allowed, listed, typed, crashed>>
  BY StartFacts DEF UserOut, read, ClientOk, Client
<1>2. /\ client \in Client /\ theirs \in Sheets(Id) /\ client.me \notin Remote
      /\ c \in Id \cup {NoId} /\ allowed = client.synced
  BY StartFacts, IdsAssumption DEF ClientOk, Client, Id
<1>3. /\ DOMAIN theirs \subseteq Remote \cup {client.me}
      /\ client.me # NoId => (client.synced <=> client.me \in DOMAIN theirs)
  BY StartFacts DEF ClientOk
<1> HIDE DEF theirs
<1>4. all \in Sheets(Id) /\ DOMAIN all = DOMAIN theirs \ {c}
  <2>1. DOMAIN theirs \subseteq Id /\ theirs \in [DOMAIN theirs -> Sheet]
    BY <1>2, SheetsType
  <2>2. DOMAIN all \subseteq Id /\ all \in [DOMAIN all -> Sheet]
    BY <2>1
  <2> QED
    BY <2>2, SheetsType
<1> HIDE DEF all
<1>5. /\ client' \in Client /\ client'.up = TRUE /\ client'.synced = client.synced
      /\ client'.me = client.me /\ client'.theirs = all /\ client'.sent = client.sent
  BY <1>1, <1>2, <1>4 DEF Client
<1>6. /\ DOMAIN client'.theirs \subseteq Remote \cup {client.me}
      /\ client.me # NoId => (client'.synced <=> client.me \in DOMAIN client'.theirs)
  BY <1>2, <1>3, <1>4, <1>5
<1> QED
  <2>1. signals' \in Seq(Signal)
    <3>1. SignalOk("out", c, Nobody)
      BY <1>2, NobodyType DEF SignalOk
    <3> QED
      BY <1>1, <3>1, SignalType
  <2>2. Reads
    BY <1>1, <1>2, <1>5, <1>6, StartFacts DEF Reads
  <2> QED
    BY <2>1, <2>2, SignalInv

LEMMA UserDataChangedInv ==
  ASSUME IInv, NEW c \in Remote, UserDataChanged(c)
  PROVE  IInv'
<1> DEFINE theirs == client.theirs
           sheet == [theirs[c] EXCEPT !.tabs = @ + 1]
           all == [theirs EXCEPT ![c] = sheet]
           one == insert(Nobody, c, sheet)
<1>1. /\ crashed = "no" /\ client.up /\ client' = [client EXCEPT !.theirs = all]
      /\ signal("changed", c, one) /\ c \in DOMAIN theirs
      /\ UNCHANGED <<ui, allowed, listed, typed, crashed>>
  <2>1. /\ crashed = "no" /\ client.up /\ client' = [client EXCEPT !.theirs[c] = sheet]
        /\ signal("changed", c, one) /\ c \in DOMAIN theirs
        /\ UNCHANGED <<ui, allowed, listed, typed, crashed>>
    BY DEF UserDataChanged, read
  <2> HIDE DEF sheet
  <2>2. [client EXCEPT !.theirs[c] = sheet] = [client EXCEPT !.theirs = all]
    BY StartFacts DEF ClientOk, Client
  <2> QED
    BY <2>1, <2>2
<1>2. /\ client \in Client /\ theirs \in Sheets(Id) /\ client.me \notin Remote
      /\ c \in Id /\ c \in Id \cup {NoId} /\ allowed = client.synced
  BY StartFacts, IdsAssumption DEF ClientOk, Client, Id
<1>3. /\ DOMAIN theirs \subseteq Remote \cup {client.me}
      /\ client.me # NoId => (client.synced <=> client.me \in DOMAIN theirs)
  BY StartFacts DEF ClientOk
<1> HIDE DEF theirs
<1>4. DOMAIN theirs \subseteq Id /\ theirs \in [DOMAIN theirs -> Sheet]
  BY <1>2, SheetsType
<1>5. sheet \in Sheet
  <2> DEFINE before == theirs[c]
  <2>1. before \in Sheet
    BY <1>1, <1>4
  <2> HIDE DEF before
  <2>2. [before EXCEPT !.tabs = @ + 1] \in Sheet
    BY <2>1 DEF Sheet
  <2> QED
    BY <2>2 DEF before
<1> HIDE DEF sheet
<1>6. all \in Sheets(Id) /\ DOMAIN all = DOMAIN theirs
  <2>1. DOMAIN all \subseteq Id /\ all \in [DOMAIN all -> Sheet]
    BY <1>4, <1>5
  <2> QED
    BY <2>1, SheetsType
<1>7. one \in Sheets(Id) /\ c \in DOMAIN one
  <2>1. InsertedIn(one, Nobody, c)
    BY <1>2, <1>5, NobodyType, InsertedInSession
  <2> QED
    BY <2>1 DEF InsertedIn
<1> HIDE DEF all, one
<1>8. /\ client' \in Client /\ client'.up = TRUE /\ client'.synced = client.synced
      /\ client'.me = client.me /\ client'.theirs = all /\ client'.sent = client.sent
  BY <1>1, <1>2, <1>6 DEF Client
<1>9. /\ DOMAIN client'.theirs \subseteq Remote \cup {client.me}
      /\ client.me # NoId => (client'.synced <=> client.me \in DOMAIN client'.theirs)
  BY <1>2, <1>3, <1>6, <1>8
<1> QED
  <2>1. signals' \in Seq(Signal)
    <3>1. SignalOk("changed", c, one)
      BY <1>2, <1>7 DEF SignalOk
    <3> QED
      BY <1>1, <3>1, SignalType
  <2>2. Reads
    BY <1>1, <1>2, <1>8, <1>9, StartFacts DEF Reads
  <2> QED
    BY <2>1, <2>2, SignalInv

\* A queue of signals without its first one.
LEMMA HeadTail ==
  ASSUME NEW X, NEW s \in Seq(X), s # <<>>
  PROVE  /\ Head(s) \in X /\ Tail(s) \in Seq(X) /\ Head(s) = s[1] /\ Len(s) \in Nat \ {0}
         /\ Len(Tail(s)) = Len(s) - 1 /\ \A k \in 1..Len(s) - 1 : Tail(s)[k] = s[k + 1]
         /\ Tail(s) = <<>> => Last(s) = Head(s)
         /\ Tail(s) # <<>> => Last(Tail(s)) = Last(s)
<1>1. /\ Head(s) \in X /\ Tail(s) \in Seq(X) /\ Head(s) = s[1] /\ Len(s) \in Nat \ {0}
      /\ Len(Tail(s)) = Len(s) - 1 /\ \A k \in 1..Len(s) - 1 : Tail(s)[k] = s[k + 1]
  OBVIOUS
<1>2. Tail(s) = <<>> <=> Len(Tail(s)) = 0
  BY <1>1, NoElements
<1>3. Tail(s) = <<>> => Last(s) = Head(s)
  BY <1>1, <1>2 DEF Last
<1>4. Tail(s) # <<>> => Last(Tail(s)) = Last(s)
  <2> SUFFICES ASSUME Tail(s) # <<>>
               PROVE  Tail(s)[Len(Tail(s))] = s[Len(s)]
    BY DEF Last
  <2>1. Len(s) - 1 \in 1..Len(s) - 1 /\ (Len(s) - 1) + 1 = Len(s)
    BY <1>1, <1>2
  <2> HIDE DEF Tail
  <2> QED
    BY <1>1, <2>1
<1> QED
  BY <1>1, <1>3, <1>4

LEMMA NotifyInv ==
  ASSUME IInv, notifyCharacterChange
  PROVE  IInv'
<1> DEFINE theirs == client.theirs
           me == client.me
           sheet == Head(ui.told)
           all == [theirs EXCEPT ![me] = sheet]
           one == insert(Nobody, me, sheet)
<1>1. /\ client \in Client /\ theirs \in Sheets(Id) /\ ui.told \in Seq(Sheet)
      /\ ui.told # <<>> /\ me # NoId /\ client.synced /\ me \in Id /\ me \in DOMAIN theirs
      /\ allowed = client.synced /\ DOMAIN theirs \subseteq Remote \cup {client.me}
  BY StartFacts, UiTypes DEF notifyCharacterChange, ClientOk, Client, Id, Faithful, Told
<1>2. sheet \in Sheet /\ Tail(ui.told) \in Seq(Sheet)
  BY <1>1, HeadTail
<1>3. /\ crashed = "no" /\ client.up
      /\ client' = [client EXCEPT !.theirs = all, !.sent = sheet]
      /\ signal("changed", me, one) /\ ui' = [ui EXCEPT !.told = Tail(@)]
      /\ UNCHANGED <<allowed, listed, typed, crashed>>
  <2>1. /\ crashed = "no" /\ client.up
        /\ client' = [client EXCEPT !.theirs[me] = sheet, !.sent = sheet]
        /\ signal("changed", me, one) /\ ui' = [ui EXCEPT !.told = Tail(@)]
        /\ UNCHANGED <<allowed, listed, typed, crashed>>
    BY DEF notifyCharacterChange
  <2> HIDE DEF sheet
  <2>2. [client EXCEPT !.theirs[me] = sheet, !.sent = sheet]
          = [client EXCEPT !.theirs = all, !.sent = sheet]
    BY <1>1 DEF Client
  <2> QED
    BY <2>1, <2>2
<1>4. ui' = [ui EXCEPT !.told = Tail(ui.told)]
  BY <1>3, StartFacts DEF Ui
<1>5. /\ Good(ui') /\ ui'.told = Tail(ui.told) /\ ui'.db = ui.db
      /\ ui'.combo = ui.combo /\ ui'.selection = ui.selection
      /\ ui'.sheet = ui.sheet /\ ui'.inventory = ui.inventory /\ ui'.dialog = ui.dialog
      /\ ui'.slips = ui.slips
  <2> DEFINE told == Tail(ui.told)
  <2>1. told \in Seq(Sheet) /\ ui' = [ui EXCEPT !.told = told] /\ Good(ui)
    BY <1>2, <1>4, StartFacts
  <2> HIDE DEF told
  <2>2. LET w == [ui EXCEPT !.told = told] IN
         /\ Good(w) /\ w.told = told /\ w.db = ui.db /\ w.version = ui.version
         /\ w.file = ui.file /\ w.combo = ui.combo /\ w.selection = ui.selection
         /\ w.sheet = ui.sheet /\ w.inventory = ui.inventory /\ w.dialog = ui.dialog
         /\ w.spoilt = ui.spoilt /\ w.slips = ui.slips
    BY <2>1, ToldEdited
  <2> QED
    BY <2>1, <2>2 DEF told
<1>6. (IF Tail(ui.told) = <<>> THEN sheet ELSE Last(Tail(ui.told))) = Last(ui.told)
  BY <1>1, HeadTail
<1> HIDE DEF theirs, sheet, me
<1>7. all \in Sheets(Id) /\ DOMAIN all = DOMAIN theirs
  <2>1. DOMAIN theirs \subseteq Id /\ theirs \in [DOMAIN theirs -> Sheet]
    BY <1>1, SheetsType
  <2>2. DOMAIN all \subseteq Id /\ all \in [DOMAIN all -> Sheet]
    BY <1>2, <2>1
  <2> QED
    BY <2>2, SheetsType
<1>8. one \in Sheets(Id) /\ me \in DOMAIN one
  <2>1. InsertedIn(one, Nobody, me)
    BY <1>1, <1>2, NobodyType, InsertedInSession
  <2> QED
    BY <2>1 DEF InsertedIn
<1> HIDE DEF all, one
<1>9. /\ client' \in Client /\ client'.up = TRUE /\ client'.synced = client.synced
      /\ client'.me = client.me /\ client'.theirs = all /\ client'.sent = sheet
  BY <1>1, <1>2, <1>3, <1>7 DEF Client
<1>10. /\ DOMAIN client'.theirs \subseteq Remote \cup {client.me}
       /\ client.me # NoId => (client'.synced <=> client.me \in DOMAIN client'.theirs)
  BY <1>1, <1>7, <1>9 DEF me
<1>11. (IF ui'.told = <<>> THEN client'.sent ELSE Last(ui'.told)) = Last(ui.told)
  BY <1>5, <1>6, <1>9
<1> QED
  <2>1. signals' \in Seq(Signal)
    <3>1. SignalOk("changed", me, one)
      BY <1>1, <1>8 DEF SignalOk
    <3> QED
      BY <1>3, <3>1, SignalType
  <2>2. Reads
    <3>1. ui.told # <<>> /\ crashed = "no" /\ client.up /\ allowed' = client'.synced
      BY <1>1, <1>3, <1>9
    <3> QED
      BY <1>3, <1>5, <1>9, <1>10, <1>11, <3>1 DEF Reads
  <2> QED
    BY <2>1, <2>2, SignalInv

---------------------------------------------------------------------------
(* The signals, in the interface *)

\* A slip that is noted is noted, and nothing else of the interface changes.
LEMMA SlippedStays ==
  ASSUME NEW u, Good(u), NEW slip \in Slip, NEW if
  PROVE  /\ Stays(slipped(u, slip, if), u) /\ slipped(u, slip, if).combo = u.combo
         /\ if => slip \in slipped(u, slip, if).slips
<1>1. ListedAs([u EXCEPT !.slips = @ \cup {slip}], u, u.combo, u.slips \cup {slip})
  BY ListedOnly
<1>2. CASE if
  BY <1>1, <1>2 DEF slipped, ListedAs
<1>3. CASE ~if
  BY <1>3, StaysSame DEF slipped
<1> QED
  BY <1>2, <1>3

\* What is left to handle.
LEMMA LeftSignals ==
  ASSUME IInv, signals # <<>>, signals' = Tail(signals), UNCHANGED <<client, allowed>>,
         listed' \in Sheets(Id)
  PROVE  ClientOk' /\ Head(signals) \in Signal /\ (~client.up => Head(signals).late)
<1>1. signals \in Seq(Signal)
  BY StartFacts DEF ClientOk
<1> HIDE DEF Signal
<1>2. /\ Head(signals) \in Signal /\ Tail(signals) \in Seq(Signal) /\ Head(signals) = signals[1]
      /\ Len(signals) \in Nat \ {0} /\ Len(Tail(signals)) = Len(signals) - 1
      /\ \A k \in 1..Len(signals) - 1 : Tail(signals)[k] = signals[k + 1]
  BY <1>1, HeadTail
<1>3. ~client.up => \A n \in 1..Len(signals) : signals[n].late
  BY StartFacts DEF ClientOk
<1>4. \A n \in 1..Len(Tail(signals)) :
        n + 1 \in 1..Len(signals) /\ Tail(signals)[n] = signals[n + 1]
  BY <1>2
<1>5. 1 \in 1..Len(signals)
  BY <1>2
<1>6. ~client.up => \A n \in 1..Len(signals') : signals'[n].late
  BY <1>3, <1>4
<1>7. ClientOk'
  BY <1>2, <1>6, StartFacts DEF ClientOk
<1> QED
  BY <1>2, <1>3, <1>5, <1>7

\* What is made of a signal about the session.
SessionHandled(s) ==
  /\ Kept(ui', ui, Tell) /\ Good(ui') /\ (s.late => "late" \in ui'.slips)
  /\ (\E n \in 1..Len(signals) : signals[n].kind = "in" /\ ~signals[n].late)
       => "raced" \in ui'.slips
  /\ DOMAIN client.theirs = {} => ui'.combo = EmptyCombo
  /\ DOMAIN client.theirs # {} =>
       \E order \in SetToSeqs(DOMAIN client.theirs) : ui'.combo = remoteCombo(order, client.me)
  /\ listed' = s.sheets /\ UNCHANGED crashed

LEMMA SessionStart ==
  ASSUME IInv, HandleSignal, Head(signals).kind = "session"
  PROVE  /\ crashed = "no" /\ signals # <<>> /\ signals' = Tail(signals)
         /\ UNCHANGED <<client, allowed, typed>> /\ onGameSessionReceived(Head(signals))
         /\ Head(signals).sheets \in Sheets(Id) /\ listed \in Sheets(Id)
         /\ (~client.up => Head(signals).late) /\ DOMAIN signals = 1..Len(signals)
<1> DEFINE s == Head(signals)
<1>1. /\ crashed = "no" /\ signals # <<>> /\ signals' = Tail(signals)
      /\ UNCHANGED <<client, allowed, typed>> /\ onGameSessionReceived(s)
  BY DEF HandleSignal
<1>2. listed \in Sheets(Id)
  BY StartFacts DEF ClientOk
<1>3. signals \in Seq(Signal) /\ (~client.up => \A n \in 1..Len(signals) : signals[n].late)
  BY StartFacts DEF ClientOk
<1> HIDE DEF Signal
<1>4. s \in Signal /\ s = signals[1] /\ Len(signals) \in Nat \ {0}
  BY <1>1, <1>3, HeadTail
<1>5. 1 \in 1..Len(signals)
  BY <1>4
<1>6. s.sheets \in Sheets(Id)
  BY <1>4 DEF Signal
<1> QED
  BY <1>1, <1>2, <1>3, <1>4, <1>5, <1>6

\* The signal of a session, handled: the list is emptied and made of who is in.
LEMMA SessionHandling ==
  ASSUME IInv, HandleSignal, Head(signals).kind = "session", client.up
  PROVE  SessionHandled(Head(signals))
<1> DEFINE s == Head(signals)
           raced == \E n \in 1..Len(signals) : signals[n].kind = "in" /\ ~signals[n].late
           u == slipped(ui, "raced", raced)
<1>1. onGameSessionReceived(s) /\ DOMAIN signals = 1..Len(signals)
  BY SessionStart
<1>2. Stays(u, ui) /\ u.combo = ui.combo /\ (raced => "raced" \in u.slips)
  <2> HIDE DEF raced
  <2> QED
    BY StartFacts, SlippedStays DEF Slip
<1>3. Good(u) /\ "late" \in Slip
  BY <1>2 DEF Stays, Slip
<1> DEFINE theirs == client.theirs
           me == client.me
<1>4. PICK v \in loadFromRemote(u, me, Tell, theirs) :
        ui' = slipped(v, "late", s.late) /\ listed' = s.sheets /\ UNCHANGED crashed
  BY <1>1 DEF onGameSessionReceived
<1> HIDE DEF u, s, raced
<1>5. /\ theirs \in Sheets(Id) /\ me \in Local \cup {NoId} /\ NoId \notin DOMAIN theirs
      /\ DOMAIN theirs \subseteq Remote \cup {me} /\ Tell \in BOOLEAN
  BY StartFacts, TellType DEF ClientOk
<1> HIDE DEF theirs, me
<1>6. /\ Step(v, u, Tell)
      /\ DOMAIN theirs = {} => v.combo = EmptyCombo
      /\ DOMAIN theirs # {} =>
           \E order \in SetToSeqs(DOMAIN theirs) : v.combo = remoteCombo(order, me)
  BY <1>3, <1>4, <1>5, RemoteLoaded
<1>7. Step(v, ui, Tell) /\ Kept(v, u, Tell)
  BY <1>2, <1>6, StepAfter, StepKept
<1>8. Good(v) /\ u.slips \subseteq v.slips
  BY <1>7 DEF Kept
<1>9. Stays(ui', v) /\ ui'.combo = v.combo /\ (s.late => "late" \in ui'.slips)
  BY <1>3, <1>4, <1>8, SlippedStays
<1>10. Kept(ui', ui, Tell)
  BY <1>7, <1>9, StepBefore, StepKept
<1>11. v.slips \subseteq ui'.slips /\ Good(ui')
  BY <1>9 DEF Stays
<1> QED
  BY <1>2, <1>4, <1>6, <1>8, <1>9, <1>10, <1>11 DEF SessionHandled, theirs, me, s, raced

\* The list of a session has the user's character, if there is one, and the others'.
LEMMA SessionCombo ==
  ASSUME IInv, NEW s, SessionHandled(s)
  PROVE  /\ Sound(ui'.combo) /\ IsInjective(ui'.combo.items) /\ OwnCombo(ui'.combo, client)
         /\ DOMAIN client.theirs = {} => ui'.combo = EmptyCombo
         /\ DOMAIN client.theirs # {} =>
              /\ ui'.combo.at # 0
              /\ \A e : Lists(ui'.combo, e) <=>
                   \E c \in DOMAIN client.theirs :
                     e = item(c, IF c = client.me THEN "Local" ELSE "Remote")
<1> DEFINE theirs == client.theirs
           me == client.me
           new == ui'.combo
<1>1. /\ theirs \in Sheets(Id) /\ me \in Local \cup {NoId} /\ NoId \notin DOMAIN theirs
      /\ DOMAIN theirs \subseteq Remote \cup {me} /\ (me \in DOMAIN theirs => client.synced)
  BY StartFacts, TellType DEF ClientOk
<1>2. /\ DOMAIN theirs = {} => new = EmptyCombo
      /\ DOMAIN theirs # {} =>
           \E order \in SetToSeqs(DOMAIN theirs) : new = remoteCombo(order, me)
  BY DEF SessionHandled
<1> HIDE DEF theirs, me, new
<1>3. CASE DOMAIN theirs = {}
  <2>1. new = EmptyCombo /\ Sound(EmptyCombo)
    BY <1>2, <1>3, EmptyCombos
  <2>2. OwnCombo(EmptyCombo, client)
    BY EmptyCombos, ItemFields DEF OwnCombo, Placeholder
  <2>3. IsInjective(EmptyCombo.items)
    BY DEF EmptyCombo, IsInjective
  <2> QED
    BY <1>3, <2>1, <2>2, <2>3 DEF theirs, me, new
<1>4. CASE DOMAIN theirs # {}
  <2>1. PICK order \in SetToSeqs(DOMAIN theirs) : new = remoteCombo(order, me)
    BY <1>2, <1>4
  <2>2. IsFiniteSet(DOMAIN theirs)
    <3>1. IsFiniteSet(Id)
      BY IdsAssumption, FS_Union DEF Id
    <3>2. DOMAIN theirs \in SUBSET Id
      BY <1>1, SheetsType
    <3> QED
      BY <3>1, <3>2, FS_Subset
  <2>3. /\ Sound(new) /\ IsInjective(new.items) /\ new.at # 0
        /\ \A e : Lists(new, e) <=>
             \E c \in DOMAIN theirs : e = item(c, IF c = me THEN "Local" ELSE "Remote")
    BY <1>1, <1>4, <2>1, <2>2, RemoteCombo
  <2>4. ASSUME NEW e, Lists(new, e), e.origin = "Local"
        PROVE  e.id = me /\ client.synced
    <3>1. PICK c \in DOMAIN theirs : e = item(c, IF c = me THEN "Local" ELSE "Remote")
      BY <2>3, <2>4
    <3>2. c = me
      BY <2>4, <3>1, ItemFields
    <3> QED
      BY <1>1, <3>1, <3>2, ItemFields
  <2>5. OwnCombo(new, client)
    BY <2>4 DEF OwnCombo, me
  <2> QED
    BY <1>4, <2>3, <2>5 DEF theirs, me, new
<1> QED
  BY <1>3, <1>4

LEMMA SessionInv ==
  ASSUME IInv, HandleSignal, Head(signals).kind = "session"
  PROVE  IInv'
<1> DEFINE s == Head(signals)
<1>1. /\ crashed = "no" /\ signals # <<>> /\ signals' = Tail(signals)
      /\ UNCHANGED <<client, allowed, typed>> /\ onGameSessionReceived(s)
      /\ s.sheets \in Sheets(Id) /\ listed \in Sheets(Id) /\ (~client.up => s.late)
  BY SessionStart
<1>2. CASE client.up
  <2>1. SessionHandled(s)
    BY <1>2, SessionHandling
  <2> HIDE DEF s
  <2>2. listed' = s.sheets /\ UNCHANGED crashed /\ Kept(ui', ui, Tell)
    BY <2>1 DEF SessionHandled
  <2>3. OwnCombo(ui'.combo, client)
    BY <2>1, SessionCombo
  <2>4. ClientOk'
    BY <1>1, <2>2, LeftSignals
  <2>5. UiOk' /\ Faithful(ui, client)' /\ Crashes'
    BY <1>1, <2>2, <2>3, KeptInv
  <2> QED
    BY <2>4, <2>5 DEF IInv
<1>3. CASE ~client.up
  <2> DEFINE u == slipped(ui, "raced", \E n \in DOMAIN signals :
                                            signals[n].kind = "in" /\ ~signals[n].late)
  <2>1. Stays(u, ui) /\ u.combo = ui.combo
    BY StartFacts, SlippedStays DEF Slip
  <2>2. Good(u) /\ "late" \in Slip
    BY <2>1 DEF Stays, Slip
  <2>3. crashed' = "session" /\ ui' = slipped(u, "late", s.late) /\ UNCHANGED listed
    BY <1>1, <1>3 DEF onGameSessionReceived
  <2> HIDE DEF u, s
  <2>4. ClientOk'
    BY <1>1, <2>3, LeftSignals
  <2>5. Stays(ui', u) /\ ui'.combo = u.combo /\ "late" \in ui'.slips
    BY <1>1, <1>3, <2>2, <2>3, SlippedStays
  <2>6. Edited(ui', ui) /\ ui'.dialog = ui.dialog
    BY <2>1, <2>5 DEF Stays, Edited
  <2>7. Faithful(ui', client)
    BY <1>3, <2>6, StartFacts, EditedFaithful
  <2>8. UiOk' /\ Crashes'
    BY <1>1, <2>3, <2>5, <2>6, StartFacts DEF UiOk, Crashes, Edited
  <2> QED
    BY <1>1, <2>4, <2>7, <2>8 DEF IInv
<1> QED
  BY <1>2, <1>3

\* What is made of a signal about one character.
UserHandled(s) ==
  /\ Kept(ui', ui, Tell) /\ (s.late => "late" \in ui'.slips)
  /\ s.kind = "in" =>
       /\ ui'.combo = addItem(mayTooglePlaceholder(ui.combo), item(s.id, "Remote"))
       /\ listed' = insert(listed, s.id, s.sheets[s.id])
  /\ s.kind = "out" =>
       /\ \/ indexOf(ui.combo, s.id) = 0 /\ ui'.combo = ui.combo
          \/ /\ indexOf(ui.combo, s.id) # 0
             /\ \E r \in removeItem(ui.combo, indexOf(ui.combo, s.id)) :
                  /\ ui'.combo = mayTooglePlaceholder(r)
                  /\ r.at = 0 /\ Len(r.items) = 1 => "unpicked" \in ui'.slips
       /\ listed' = [c \in DOMAIN listed \ {s.id} |-> listed[c]]
  /\ s.kind = "changed" => /\ ui'.combo = ui.combo
                           /\ listed' = insert(listed, s.id, s.sheets[s.id])

\* The signal about a user, handled: the list gains a character, loses it, or stays.
LEMMA UserHandling ==
  ASSUME IInv, HandleSignal, Head(signals).kind # "session"
  PROVE  /\ UserHandled(Head(signals)) /\ Head(signals) \in Signal
         /\ crashed = "no" /\ signals # <<>> /\ signals' = Tail(signals)
         /\ UNCHANGED <<client, allowed, typed, crashed>>
<1> DEFINE s == Head(signals)
           u == slipped(ui, "late", s.late)
           sheet == s.sheets[s.id]
<1>1. /\ crashed = "no" /\ signals # <<>> /\ signals' = Tail(signals)
      /\ UNCHANGED <<client, allowed, typed, crashed>> /\ handleUser(s)
  BY DEF HandleSignal, handleUser
<1>2. s \in Signal
  <2>1. signals \in Seq(Signal)
    BY StartFacts DEF ClientOk
  <2> HIDE DEF Signal
  <2> QED
    BY <1>1, <2>1, HeadTail
<1>3. Stays(u, ui) /\ u.combo = ui.combo /\ (s.late => "late" \in u.slips)
  BY StartFacts, SlippedStays DEF Slip
<1>4. Good(u) /\ u.slips \subseteq u.slips
  BY <1>3 DEF Stays
<1> DEFINE theirs == client.theirs
           id == s.id
<1>5. theirs \in Sheets(Id) /\ Tell \in BOOLEAN /\ s.sheets \in Sheets(Id)
  BY <1>2, StartFacts, TellType DEF Signal
<1>6. s.kind \in {"in", "changed"} => sheet \in Sheet /\ id \in Id
  BY <1>2, <1>5, SheetsType DEF Signal
<1>7. s.kind \in {"in", "out", "changed"} /\ (s.kind \in {"in", "out"} => id \in Remote)
  BY <1>2 DEF Signal
<1>8. /\ s.kind = "in" => /\ ui' = onUserJoinedServer(u, id, Tell, theirs)
                          /\ listed' = insert(listed, id, sheet)
      /\ s.kind = "out" => /\ ui' \in removeCharacterId(u, id, Tell, theirs)
                           /\ listed' = [c \in DOMAIN listed \ {id} |-> listed[c]]
      /\ s.kind = "changed" => /\ ui' = onUserDataChanged(u, id, sheet, Tell)
                               /\ listed' = insert(listed, id, sheet)
  BY <1>1 DEF handleUser, u, sheet
<1> HIDE DEF u, s, id, sheet, theirs
<1>9. ASSUME Step(ui', u, Tell)
      PROVE  Kept(ui', ui, Tell) /\ (s.late => "late" \in ui'.slips)
  <2>1. Kept(ui', ui, Tell) /\ Kept(ui', u, Tell)
    BY <1>3, <1>9, StepAfter, StepKept
  <2> QED
    BY <1>3, <2>1 DEF Kept
<1>10. CASE s.kind = "in"
  <2>1. LET w == onUserJoinedServer(u, id, Tell, theirs) IN
         /\ Step(w, u, Tell)
         /\ w.combo = addItem(mayTooglePlaceholder(u.combo), item(id, "Remote"))
    BY <1>4, <1>5, <1>7, <1>10, Joined
  <2>2. Step(ui', u, Tell) /\ ui'.combo = addItem(mayTooglePlaceholder(u.combo), item(id, "Remote"))
    BY <1>8, <1>10, <2>1
  <2> QED
    BY <1>1, <1>2, <1>3, <1>8, <1>9, <1>10, <2>2 DEF UserHandled, s, id, sheet
<1>11. CASE s.kind = "out"
  <2>1. Drops(ui', u, id, Tell)
    BY <1>4, <1>5, <1>8, <1>11, Dropped
  <2>2. Step(ui', u, Tell)
    BY <2>1 DEF Drops
  <2>3. \/ indexOf(ui.combo, id) = 0 /\ ui'.combo = ui.combo
        \/ /\ indexOf(ui.combo, id) # 0
           /\ \E r \in removeItem(ui.combo, indexOf(ui.combo, id)) :
                  /\ ui'.combo = mayTooglePlaceholder(r)
                  /\ r.at = 0 /\ Len(r.items) = 1 => "unpicked" \in ui'.slips
    BY <1>3, <2>1 DEF Drops
  <2> QED
    BY <1>1, <1>2, <1>8, <1>9, <1>11, <2>2, <2>3 DEF UserHandled, s, id
<1>12. CASE s.kind = "changed"
  <2>1. LET w == onUserDataChanged(u, id, sheet, Tell) IN Step(w, u, Tell) /\ w.combo = u.combo
    BY <1>4, <1>5, <1>6, <1>12, DataChanged
  <2>2. Step(ui', u, Tell) /\ ui'.combo = u.combo
    BY <1>8, <1>12, <2>1
  <2> QED
    BY <1>1, <1>2, <1>3, <1>8, <1>9, <1>12, <2>2 DEF UserHandled, s, id, sheet
<1> QED
  BY <1>7, <1>10, <1>11, <1>12

LEMMA UserInv ==
  ASSUME IInv, HandleSignal, Head(signals).kind # "session"
  PROVE  IInv'
<1> DEFINE s == Head(signals)
           id == s.id
           sheet == s.sheets[s.id]
<1>1. /\ UserHandled(s) /\ s \in Signal /\ crashed = "no" /\ signals # <<>>
      /\ signals' = Tail(signals) /\ UNCHANGED <<client, allowed, typed, crashed>>
  BY UserHandling
<1>2. Sound(ui.combo) /\ (client.up => OwnCombo(ui.combo, client)) /\ listed \in Sheets(Id)
  BY StartFacts, SoundCombo DEF ClientOk
<1>3. s.kind \in {"in", "out", "changed"} /\ (s.kind \in {"in", "out"} => id \in Remote)
      /\ (s.kind # "out" => id \in Id /\ sheet \in Sheet)
  <2>1. s.kind \in {"in", "out", "changed"} /\ s.sheets \in Sheets(Id)
        /\ (s.kind \in {"in", "out"} => id \in Remote) /\ (s.kind # "out" => id \in DOMAIN s.sheets)
    BY <1>1 DEF Signal
  <2> QED
    BY <2>1, SheetsType
<1>4. ASSUME client.up => OwnCombo(ui'.combo, client), listed' \in Sheets(Id)
      PROVE  IInv'
  <2>1. Kept(ui', ui, Tell)
    BY <1>1 DEF UserHandled
  <2>2. UiOk' /\ Faithful(ui, client)' /\ Crashes'
    BY <1>1, <1>4, <2>1, KeptInv
  <2> QED
    BY <1>1, <1>4, <2>2, LeftSignals DEF IInv
<1>5. s.kind # "out" => InsertedIn(insert(listed, id, sheet), listed, id)
  BY <1>2, <1>3, InsertedInSession
<1> HIDE DEF s, id, sheet
<1>6. CASE s.kind = "in"
  <2> DEFINE t == mayTooglePlaceholder(ui.combo)
  <2>1. Toggles(t, ui.combo)
    BY <1>2, Toggled
  <2>2. ui'.combo = addItem(t, item(id, "Remote"))
    BY <1>1, <1>6 DEF UserHandled, id
  <2> HIDE DEF t
  <2>3. Sound(t) /\ (client.up => OwnCombo(t, client))
    BY <1>2, <2>1, OwnCombos DEF Toggles
  <2>4. client.up => OwnCombo(ui'.combo, client)
    BY <1>3, <1>6, <2>2, <2>3, OwnCombos
  <2>5. listed' \in Sheets(Id)
    BY <1>1, <1>5, <1>6 DEF UserHandled, InsertedIn, id, sheet
  <2> QED
    BY <1>4, <2>4, <2>5
<1>7. CASE s.kind = "out"
  <2>1. client.up => OwnCombo(ui'.combo, client)
    <3>1. CASE ui'.combo = ui.combo
      BY <1>2, <3>1
    <3>2. CASE indexOf(ui.combo, id) # 0 /\ \E r \in removeItem(ui.combo, indexOf(ui.combo, id)) :
                                              ui'.combo = mayTooglePlaceholder(r)
      <4> DEFINE k == indexOf(ui.combo, id)
      <4>1. PICK r \in removeItem(ui.combo, k) : ui'.combo = mayTooglePlaceholder(r)
        BY <3>2
      <4>2. k \in 1..Len(ui.combo.items)
        BY <1>2, <3>2, IndexOf
      <4> HIDE DEF k
      <4>3. Sound(r) /\ (client.up => OwnCombo(r, client))
        BY <1>2, <4>1, <4>2, RemovedItem, OwnCombos
      <4>4. Toggles(mayTooglePlaceholder(r), r)
        BY <4>3, Toggled
      <4> QED
        BY <4>1, <4>3, <4>4, OwnCombos
    <3> QED
      BY <1>1, <1>7, <3>1, <3>2 DEF UserHandled, id
  <2>2. listed' \in Sheets(Id)
    <3>1. DOMAIN listed \subseteq Id /\ listed \in [DOMAIN listed -> Sheet]
      BY <1>2, SheetsType
    <3>2. listed' = [c \in DOMAIN listed \ {id} |-> listed[c]]
      BY <1>1, <1>7 DEF UserHandled, id
    <3>3. DOMAIN listed' \subseteq Id /\ listed' \in [DOMAIN listed' -> Sheet]
      BY <3>1, <3>2
    <3> QED
      BY <3>3, SheetsType
  <2> QED
    BY <1>4, <2>1, <2>2
<1>8. CASE s.kind = "changed"
  <2>1. ui'.combo = ui.combo /\ listed' = insert(listed, id, sheet)
    BY <1>1, <1>8 DEF UserHandled, id, sheet
  <2> QED
    BY <1>2, <1>4, <1>5, <1>8, <2>1 DEF InsertedIn
<1> QED
  BY <1>3, <1>6, <1>7, <1>8

---------------------------------------------------------------------------
(* Every step *)

\* The assumption on the database at the start says it is of sheets.
LEMMA SheetIs == \A s : isSheet(s) <=> s \in Sheet
<1>1. ASSUME NEW s, isSheet(s)
      PROVE  s \in Sheet
  <2> DEFINE n == Len(s.bags)
  <2>1. n \in Nat /\ s.bags = [k \in 1..n |-> s.bags[k]] /\ s.tabs \in Nat
    BY <1>1 DEF isSheet
  <2>2. \A k \in 1..n : s.bags[k] \in Bag
    BY <1>1, BagType DEF isSheet, isBag
  <2> HIDE DEF n
  <2>3. s.bags \in Seq(Bag)
    BY <2>1, <2>2, IsSeq
  <2>4. s = [tabs |-> s.tabs, bags |-> s.bags]
    BY <1>1 DEF isSheet, character
  <2> QED
    BY <2>1, <2>3, <2>4 DEF Sheet
<1>2. ASSUME NEW s, s \in Sheet
      PROVE  isSheet(s)
  <2>1. s.tabs \in Nat /\ s.bags \in Seq(Bag) /\ s = [tabs |-> s.tabs, bags |-> s.bags]
    BY <1>2 DEF Sheet
  <2>2. Len(s.bags) \in Nat /\ \A k \in 1..Len(s.bags) : s.bags[k] \in Bag
    BY <2>1
  <2>3. s.bags = [k \in 1..Len(s.bags) |-> s.bags[k]]
    BY <2>1
  <2>4. \A k \in 1..Len(s.bags) : isBag(s.bags[k])
    BY <2>2, BagType DEF isBag
  <2> QED
    BY <2>1, <2>2, <2>3, <2>4 DEF isSheet, character
<1> QED
  BY <1>1, <1>2

LEMMA InitInv == Init => IInv
<1> SUFFICES ASSUME Init
             PROVE  IInv
  OBVIOUS
<1> DEFINE file == saveAsFile(apiVersion, StartSheets)
<1>1. StartSheets \in Sheets(Local)
  BY StartAssumption, SheetIs, SheetsType
<1>2. file \in File /\ file.kind = "json" /\ file.version = apiVersion
      /\ file.content = StartSheets
  BY <1>1 DEF saveAsFile, File
<1> HIDE DEF file
<1>3. ui = started(readCharacters(file))
  BY DEF Init, file
<1>4. StartedAs(ui, file)
  BY <1>2, <1>3, Started
<1>5. ui.db = StartSheets
  <2>1. readCharacters(file).content = StartSheets
    BY <1>2, Read
  <2>2. PICK v : Starts(v, StartSheets, readCharacters(file).version) /\ Step(ui, v, FALSE)
    BY <1>4, <2>1 DEF StartedAs
  <2>3. Kept(ui, v, FALSE)
    BY <2>2, StepKept
  <2>4. ~saves(v) /\ v.db = StartSheets
    BY <2>2, PlaceholderType DEF Starts, saves
  <2> QED
    BY <2>3, <2>4 DEF Kept
<1>6. DOMAIN typed = DOMAIN ui.db
  BY <1>5 DEF Init
<1>7. Starting
  BY <1>2, <1>4, <1>6 DEF Init, Starting
<1> QED
  BY <1>7, StartInv

\* Every step keeps the invariant.
LEMMA NextInv == IInv /\ [Next]_vars => IInv'
<1> SUFFICES ASSUME IInv, [Next]_vars
             PROVE  IInv'
  OBVIOUS
<1>1. ASSUME UserStep
      PROVE  IInv'
  BY <1>1, PickInv, SaveInv, WriteTabsInv, AddRowInv, PickInventoryInv, AddInventoryInv,
     AddCharacterInv, AskDeleteCharacterInv, AskDeleteInventoryInv, AskMoveInv,
     AskRemoveRowsInv, CancelInv, DeleteCharacterInv, DeleteInventoryInv, RemoveRowsInv,
     MoveItemsInv, SplitItemInv DEF UserStep
<1>2. ASSUME NEW c \in DOMAIN ui.db \cup {NoId}, Connect(c)
      PROVE  IInv'
  BY <1>2, ConnectInv
<1>3. CASE Disconnect
  BY <1>3, DisconnectInv
<1>4. CASE Quit
  BY <1>4, QuitInv
<1>5. CASE Crash
  BY <1>5, CrashInv
<1>6. CASE ClientStep
  BY <1>6, GameSessionSyncInv, UserInInv, UserOutInv, UserDataChangedInv, NotifyInv
     DEF ClientStep
<1>7. CASE HandleSignal
  BY <1>7, SessionInv, UserInv
<1>8. CASE UNCHANGED vars
  <2>1. UNCHANGED <<ui, client, signals, allowed, listed, typed, crashed>>
    BY <1>8 DEF vars
  <2>2. UiOk' /\ ClientOk' /\ Faithful(ui, client)' /\ Crashes'
    BY <2>1 DEF IInv, UiOk, ClientOk, Crashes
  <2> QED
    BY <2>2 DEF IInv
<1> QED
  BY <1>1, <1>2, <1>3, <1>4, <1>5, <1>6, <1>7, <1>8 DEF Next

\* The widgets, the client and what is told between them stay consistent.
THEOREM SheetsConsistent == Spec => []IInv
BY InitInv, NextInv, PTL DEF Spec

\* Once nothing is on its way, the others know the user's character as the database does.
THEOREM OthersKnowTheSheet == Spec => []OthersSeeSheet
<1>1. IInv => OthersSeeSheet
  <2> SUFFICES ASSUME IInv, client.synced, client.me \in DOMAIN ui.db, ui.told = <<>>
               PROVE  client.sent = ui.db[client.me] \/ "unsaved" \in ui.slips
    BY DEF OthersSeeSheet
  <2>1. client.up
    BY DEF IInv, ClientOk
  <2>2. client.me # NoId
    <3>1. DOMAIN ui.db \subseteq Local
      BY UiTypes, SheetsType DEF IInv, UiOk, Good
    <3> QED
      BY <3>1, IdsAssumption
  <2> QED
    BY <2>1, <2>2 DEF IInv, Faithful, Known
<1> QED
  BY <1>1, SheetsConsistent, PTL

\* Pointers are followed to nothing for the three reasons known, and what the widgets hold
\* is well typed, the sheet on show being the one picked.
THEOREM PointersHoldAlways == Spec => []PointersHold
<1>1. IInv => PointersHold
  <2> SUFFICES ASSUME IInv
               PROVE  PointersHold
    OBVIOUS
  <2>1. /\ ui \in Ui /\ Good(ui) /\ client \in Client /\ listed \in Sheets(Id)
        /\ DOMAIN typed = DOMAIN ui.db
    BY DEF IInv, UiOk, ClientOk, Good
  <2>2. DOMAIN ui.db \subseteq Local /\ \A c \in DOMAIN ui.db : isSheet(ui.db[c])
    <3>1. DOMAIN ui.db \subseteq Local /\ ui.db \in [DOMAIN ui.db -> Sheet]
      BY <2>1, UiTypes, SheetsType
    <3> QED
      BY <3>1, SheetIs
  <2>3. ui.combo.at \in 0..Len(ui.combo.items)
    BY <2>1, UiTypes DEF Good
  <2>4. ASSUME NEW k \in DOMAIN ui.combo.items
        PROVE  ui.combo.items[k] \in [id : Local \cup Remote \cup {NoId}, origin : Origin]
    <3>1. ui.combo.items[k] \in Entry
      BY <2>1, UiTypes
    <3> DEFINE e == ui.combo.items[k]
    <3>2. \E c, o : e = item(c, o)
      BY <3>1 DEF Entry, Placeholder
    <3>3. e = [id |-> e.id, origin |-> e.origin]
      BY <3>2 DEF item
    <3>4. e.id \in Local \cup Remote \cup {NoId} /\ e.origin \in Origin
      BY <3>1, EntryFacts DEF Id
    <3> HIDE DEF e
    <3> QED
      BY <3>3, <3>4 DEF e
  <2>5. isSavable(ui.selection) /\ ui.sheet.id # NoId => ui.sheet.id = ui.selection.id
    BY <2>1 DEF Good, Matched
  <2>6. ui.inventory.at \in 0..Len(ui.inventory.list)
    BY <2>1, UiTypes, InventoryTypes DEF Good, Picked
  <2>7. client.me \in Local \cup {NoId} /\ DOMAIN client.theirs \subseteq Id
        /\ DOMAIN listed \subseteq Id
    BY <2>1, SheetsType DEF Client
  <2>8. ui.slips \subseteq {"late", "raced", "unpicked", "unsaved", "loose", "crossed"}
    BY <2>1, UiTypes DEF Slip
  <2>9. TypeOK
    BY <2>1, <2>2, <2>3, <2>4, <2>5, <2>6, <2>7, <2>8 DEF TypeOK, Id, IInv, Crashes
  <2> QED
    BY <2>9 DEF IInv, Crashes, PointersHold
<1> QED
  BY <1>1, SheetsConsistent, PTL

---------------------------------------------------------------------------
(* The list to pick from: what it and the list of players will be, once the *)
(* signals on their way are handled.                                        *)

isSession(s) == s.kind = "session"
about(s, c) == isSession(s) \/ s.id = c
is(s, kind, c) == s.kind = kind /\ s.id = c

agrees(f, g, c) ==
  /\ c \in DOMAIN f <=> c \in DOMAIN g
  /\ c \in DOMAIN f => f[c] = g[c]

NoSessionAfter(n) == \A m \in 1..Len(signals) : m > n => ~isSession(signals[m])

Timely(n) == ~signals[n].late /\ NoSessionAfter(n)

\* A client signals one session, once it has it.
Sessions ==
  \A n \in 1..Len(signals) :
    isSession(signals[n]) /\ ~signals[n].late => client.synced /\ NoSessionAfter(n)

\* The last signal about a character tells what the client's table has of it.
LastTells ==
  client.synced => \A n \in 1..Len(signals), c \in Id :
    ~signals[n].late /\ about(signals[n], c)
      /\ (\A m \in 1..Len(signals) : m > n => ~about(signals[m], c)) =>
        /\ signals[n].kind = "out" => c \notin DOMAIN client.theirs
        /\ signals[n].kind # "out" => agrees(signals[n].sheets, client.theirs, c)

\* Who came and is gone left after that, and who left and is here came again.
MovesTell ==
  client.synced => \A n \in 1..Len(signals), c \in Id : Timely(n) =>
    /\ is(signals[n], "in", c) /\ c \notin DOMAIN client.theirs =>
         \E m \in 1..Len(signals) : m > n /\ is(signals[m], "out", c)
    /\ is(signals[n], "out", c) /\ c \in DOMAIN client.theirs =>
         \E m \in 1..Len(signals) : m > n /\ is(signals[m], "in", c)

\* Who comes twice leaves in between.
Alternate ==
  client.synced => \A n, m \in 1..Len(signals), c \in Id :
    Timely(n) /\ n < m /\ is(signals[n], "in", c) /\ is(signals[m], "in", c) =>
      \E k \in 1..Len(signals) : n < k /\ k < m /\ is(signals[k], "out", c)

\* The session was handled, and nothing known to confuse the list happened.
Fresh ==
  /\ client.synced /\ \A n \in 1..Len(signals) : ~isSession(signals[n]) /\ ~signals[n].late
  /\ ui.slips \cap {"late", "raced", "unpicked"} = {}

inCombo(c, id) == \E k \in 1..Len(c.items) : c.items[k].id = id

\* Each character once, or the placeholder alone, which nothing else is taken for.
Tidy(c) ==
  /\ c.items # <<>>
  /\ \A k \in 1..Len(c.items) : c.items[k].id = NoId => Len(c.items) = 1
  /\ \A j, k \in 1..Len(c.items) : c.items[j].id = c.items[k].id => j = k
  /\ Len(c.items) = 1 /\ c.at = 0 => c.items[1].id = NoId

\* Who neither comes nor leaves is in the list if in the session.
Settled ==
  \A c \in Id : (\A n \in 1..Len(signals) : ~is(signals[n], "in", c) /\ ~is(signals[n], "out", c))
    => (inCombo(ui.combo, c) <=> c \in DOMAIN client.theirs)

\* Who comes is not in the list, or leaves before.
Comers ==
  \A n \in 1..Len(signals), c \in Id : is(signals[n], "in", c) /\ inCombo(ui.combo, c) =>
    \E m \in 1..Len(signals) : m < n /\ is(signals[m], "out", c)

Players ==
  \A c \in Id : (\A n \in 1..Len(signals) : ~about(signals[n], c)) =>
    agrees(listed, client.theirs, c)

Listing == Fresh => Tidy(ui.combo) /\ Settled /\ Comers /\ Players

Roster == Sessions /\ LastTells /\ MovesTell /\ Alternate /\ Listing

\* What leaves signals, the client's table and the lists alone.
LEMMA QuietRoster ==
  ASSUME IInv, Quiet, Roster
  PROVE  Roster'
<1>1. Sessions' /\ LastTells' /\ MovesTell' /\ Alternate'
  BY DEF Quiet, Roster, Sessions, LastTells, MovesTell, Alternate, NoSessionAfter, Timely
<1>2. ASSUME Fresh'
      PROVE  (Tidy(ui.combo) /\ Settled /\ Comers /\ Players)'
  <2>1. Fresh /\ client.up
    BY <1>2, StartFacts DEF Quiet, Fresh, ClientOk
  <2>2. Tidy(ui.combo) /\ Settled /\ Comers /\ Players
    BY <2>1 DEF Roster, Listing
  <2>3. Keeps(ui'.combo, ui.combo)
    BY <2>1 DEF Quiet
  <2>4. Tidy(ui'.combo)
    BY <2>2, <2>3 DEF Tidy, Keeps
  <2>5. \A c : inCombo(ui'.combo, c) <=> inCombo(ui.combo, c)
    BY <2>3 DEF inCombo, Keeps
  <2> QED
    BY <2>2, <2>4, <2>5 DEF Quiet, Settled, Comers, Players
<1> QED
  BY <1>1, <1>2 DEF Roster, Listing

\* Without a session there is nothing to tell but that none is on its way.
LEMMA UnsyncedRoster ==
  ASSUME ~client'.synced,
         \A n \in 1..Len(signals') : isSession(signals'[n]) => signals'[n].late
  PROVE  Roster'
BY DEF Roster, Sessions, LastTells, MovesTell, Alternate, Listing, Fresh

\* A signal is added to the queue.
Appended(s) ==
  /\ Len(signals) \in Nat /\ Len(signals') = Len(signals) + 1
  /\ signals'[Len(signals) + 1] = s
  /\ \A n \in 1..Len(signals) : signals'[n] = signals[n]

\* A queue of signals with one more.
LEMMA AppendedSignal ==
  ASSUME IInv, NEW kind, NEW c, NEW sheets, signal(kind, c, sheets)
  PROVE  Appended([kind |-> kind, id |-> c, sheets |-> sheets, late |-> FALSE])
<1> DEFINE s == [kind |-> kind, id |-> c, sheets |-> sheets, late |-> FALSE]
<1>1. signals' = Append(signals, s)
  BY DEF signal
<1>2. signals \in Seq(Signal)
  BY StartFacts DEF ClientOk
<1> HIDE DEF s, Signal
<1>3. Appended(s)
  BY <1>1, <1>2 DEF Appended
<1> QED
  BY <1>3 DEF s

\* What the client reads about a character changes its table of that one, and is signalled.
Tells1(s) ==
  /\ s.kind \in {"in", "out", "changed"} /\ ~s.late /\ s.id \in Id
  /\ \A c \in Id : c # s.id => agrees(client'.theirs, client.theirs, c)
  /\ s.kind = "in" => s.id \notin DOMAIN client.theirs /\ s.id \in DOMAIN client'.theirs
  /\ s.kind = "out" => s.id \in DOMAIN client.theirs /\ s.id \notin DOMAIN client'.theirs
  /\ s.kind = "changed" => s.id \in DOMAIN client.theirs /\ s.id \in DOMAIN client'.theirs
  /\ s.kind # "out" => agrees(s.sheets, client'.theirs, s.id)

\* A signal sent about a character tells what the client has of it.
LEMMA HeardRoster ==
  ASSUME IInv, Roster, client.synced, client'.synced, NEW s, Tells1(s), Appended(s),
         ui'.combo = ui.combo, ui'.slips = ui.slips, listed' = listed
  PROVE  Roster'
<1> DEFINE N == Len(signals)
           T == client.theirs
           U == client'.theirs
<1>1. /\ N \in Nat /\ Len(signals') = N + 1 /\ signals'[N + 1] = s
      /\ \A n \in 1..N : signals'[n] = signals[n] /\ n \in 1..N + 1
      /\ N + 1 \in 1..N + 1
      /\ \A n \in 1..N + 1 : n = N + 1 \/ n \in 1..N
  BY DEF Appended
<1>2. s.kind \in {"in", "out", "changed"} /\ ~isSession(s) /\ ~s.late /\ s.id \in Id
  BY DEF Tells1, isSession
<1>3. /\ \A c \in Id : c # s.id => agrees(U, T, c)
      /\ s.kind = "in" => s.id \notin DOMAIN T /\ s.id \in DOMAIN U
      /\ s.kind = "out" => s.id \in DOMAIN T /\ s.id \notin DOMAIN U
      /\ s.kind = "changed" => s.id \in DOMAIN T /\ s.id \in DOMAIN U
      /\ s.kind # "out" => agrees(s.sheets, U, s.id)
  BY DEF Tells1
<1>4. \A c \in Id : c # s.id => (c \in DOMAIN U <=> c \in DOMAIN T)
  BY <1>3 DEF agrees
<1> HIDE DEF N, T, U
<1>5. Sessions'
  <2> SUFFICES ASSUME NEW n \in 1..N + 1, isSession(signals'[n]), ~signals'[n].late
               PROVE  client'.synced /\ NoSessionAfter(n)'
    BY <1>1 DEF Sessions
  <2>1. n \in 1..N /\ isSession(signals[n]) /\ ~signals[n].late
    BY <1>1, <1>2
  <2>2. NoSessionAfter(n)
    BY <2>1 DEF Roster, Sessions, N
  <2> QED
    BY <1>1, <1>2, <2>2 DEF NoSessionAfter, N
<1>6. ASSUME NEW n \in 1..N, NoSessionAfter(n)', ~signals'[n].late
      PROVE  Timely(n)
  BY <1>1, <1>6 DEF NoSessionAfter, Timely, N
<1>7. LastTells'
  <2> SUFFICES ASSUME NEW n \in 1..N + 1, NEW c \in Id, ~signals'[n].late, about(signals'[n], c),
                      \A m \in 1..N + 1 : m > n => ~about(signals'[m], c)
               PROVE  /\ signals'[n].kind = "out" => c \notin DOMAIN U
                      /\ signals'[n].kind # "out" => agrees(signals'[n].sheets, U, c)
    BY <1>1 DEF LastTells, U
  <2>1. CASE n = N + 1
    BY <1>1, <1>2, <1>3, <2>1 DEF about
  <2>2. CASE n \in 1..N
    <3>1. c # s.id
      BY <1>1, <2>2 DEF about
    <3>2. \A m \in 1..N : m > n => ~about(signals[m], c)
      BY <1>1, <2>2
    <3>3. /\ signals[n].kind = "out" => c \notin DOMAIN T
          /\ signals[n].kind # "out" => agrees(signals[n].sheets, T, c)
      BY <1>1, <2>2, <3>2 DEF Roster, LastTells, N, T
    <3> QED
      BY <1>1, <1>3, <2>2, <3>1, <3>3 DEF agrees
  <2> QED
    BY <1>1, <2>1, <2>2
<1>8. MovesTell'
  <2> SUFFICES ASSUME NEW n \in 1..N + 1, NEW c \in Id, Timely(n)'
               PROVE  /\ is(signals'[n], "in", c) /\ c \notin DOMAIN U =>
                           \E m \in 1..N + 1 : m > n /\ is(signals'[m], "out", c)
                      /\ is(signals'[n], "out", c) /\ c \in DOMAIN U =>
                           \E m \in 1..N + 1 : m > n /\ is(signals'[m], "in", c)
    BY <1>1 DEF MovesTell, U
  <2>1. CASE n = N + 1
    BY <1>1, <1>3, <2>1 DEF is
  <2>2. CASE n \in 1..N
    <3>1. Timely(n)
      BY <1>6, <2>2 DEF Timely
    <3>2. /\ is(signals[n], "in", c) /\ c \notin DOMAIN T =>
               \E m \in 1..N : m > n /\ is(signals[m], "out", c)
          /\ is(signals[n], "out", c) /\ c \in DOMAIN T =>
               \E m \in 1..N : m > n /\ is(signals[m], "in", c)
      BY <2>2, <3>1 DEF Roster, MovesTell, N, T
    <3>3. CASE c # s.id
      BY <1>1, <1>4, <2>2, <3>2, <3>3
    <3>4. CASE c = s.id
      <4>1. N + 1 > n /\ (s.kind = "in" => is(signals'[N + 1], "in", c))
            /\ (s.kind = "out" => is(signals'[N + 1], "out", c))
        BY <1>1, <2>2, <3>4 DEF is
      <4> QED
        BY <1>1, <1>2, <1>3, <2>2, <3>2, <3>4, <4>1
    <3> QED
      BY <3>3, <3>4
  <2> QED
    BY <1>1, <2>1, <2>2
<1>9. Alternate'
  <2> SUFFICES ASSUME NEW n \in 1..N + 1, NEW m \in 1..N + 1, NEW c \in Id, Timely(n)', n < m,
                      is(signals'[n], "in", c), is(signals'[m], "in", c)
               PROVE  \E k \in 1..N + 1 : n < k /\ k < m /\ is(signals'[k], "out", c)
    BY <1>1 DEF Alternate
  <2>1. n \in 1..N /\ Timely(n) /\ is(signals[n], "in", c)
    <3>1. n \in 1..N
      BY <1>1
    <3> QED
      BY <1>1, <1>6, <3>1 DEF Timely
  <2>2. CASE m = N + 1
    <3>1. c = s.id /\ c \notin DOMAIN T
      BY <1>1, <1>3, <2>2 DEF is
    <3>2. PICK k \in 1..N : k > n /\ is(signals[k], "out", c)
      BY <2>1, <3>1 DEF Roster, MovesTell, N, T
    <3> QED
      BY <1>1, <2>2, <3>2
  <2>3. CASE m \in 1..N
    <3>1. PICK k \in 1..N : n < k /\ k < m /\ is(signals[k], "out", c)
      BY <1>1, <2>1, <2>3 DEF Roster, Alternate, N
    <3> QED
      BY <1>1, <3>1
  <2> QED
    BY <1>1, <2>2, <2>3
<1>10. Listing'
  <2> SUFFICES ASSUME Fresh'
               PROVE  (Tidy(ui.combo) /\ Settled /\ Comers /\ Players)'
    BY DEF Listing
  <2>1. Fresh
    BY <1>1 DEF Fresh, N
  <2>2. Tidy(ui.combo) /\ Settled /\ Comers /\ Players
    BY <2>1 DEF Roster, Listing
  <2>3. Settled'
    <3> SUFFICES ASSUME NEW c \in Id,
                        \A n \in 1..N + 1 : ~is(signals'[n], "in", c) /\ ~is(signals'[n], "out", c)
                 PROVE  inCombo(ui.combo, c) <=> c \in DOMAIN U
      BY <1>1 DEF Settled, U
    <3>1. \A n \in 1..N : ~is(signals[n], "in", c) /\ ~is(signals[n], "out", c)
      BY <1>1
    <3>2. inCombo(ui.combo, c) <=> c \in DOMAIN T
      BY <2>2, <3>1 DEF Settled, N, T
    <3>3. c = s.id => s.kind = "changed"
      BY <1>1, <1>2 DEF is
    <3> QED
      BY <1>3, <1>4, <3>2, <3>3
  <2>4. Comers'
    <3> SUFFICES ASSUME NEW n \in 1..N + 1, NEW c \in Id, is(signals'[n], "in", c),
                        inCombo(ui.combo, c)
                 PROVE  \E m \in 1..N + 1 : m < n /\ is(signals'[m], "out", c)
      BY <1>1 DEF Comers
    <3>1. CASE n \in 1..N
      <4>1. PICK m \in 1..N : m < n /\ is(signals[m], "out", c)
        BY <1>1, <2>2, <3>1 DEF Comers, N
      <4> QED
        BY <1>1, <4>1
    <3>2. CASE n = N + 1
      <4>1. c = s.id /\ c \notin DOMAIN T
        BY <1>1, <1>3, <3>2 DEF is
      <4>2. PICK m \in 1..N : is(signals[m], "in", c) \/ is(signals[m], "out", c)
        BY <2>2, <4>1 DEF Settled, N, T
      <4>3. CASE is(signals[m], "out", c)
        BY <1>1, <3>2, <4>2, <4>3
      <4>4. CASE is(signals[m], "in", c)
        <5>1. PICK k \in 1..N : k < m /\ is(signals[k], "out", c)
          BY <2>2, <4>2, <4>4 DEF Comers, N
        <5> QED
          BY <1>1, <3>2, <5>1
      <4> QED
        BY <4>2, <4>3, <4>4
    <3> QED
      BY <1>1, <3>1, <3>2
  <2>5. Players'
    <3> SUFFICES ASSUME NEW c \in Id, \A n \in 1..N + 1 : ~about(signals'[n], c)
                 PROVE  agrees(listed, U, c)
      BY <1>1 DEF Players, U
    <3>1. \A n \in 1..N : ~about(signals[n], c)
      BY <1>1
    <3>2. agrees(listed, T, c)
      BY <2>2, <3>1 DEF Players, N, T
    <3>3. c # s.id
      BY <1>1 DEF about
    <3> QED
      BY <1>3, <3>2, <3>3 DEF agrees
  <2> QED
    BY <2>2, <2>3, <2>4, <2>5
<1> QED
  BY <1>5, <1>7, <1>8, <1>9, <1>10 DEF Roster

\* Before there is a session what is heard of the others is not what the list shows.
LEMMA EarlyRoster ==
  ASSUME IInv, Roster, ~client.synced, ~client'.synced, NEW s, ~isSession(s), Appended(s)
  PROVE  Roster'
<1>1. \A n \in 1..Len(signals) : isSession(signals[n]) => signals[n].late
  BY DEF Roster, Sessions
<1>2. \A n \in 1..Len(signals') : isSession(signals'[n]) => signals'[n].late
  <2>1. \A n \in 1..Len(signals') : n = Len(signals) + 1 \/ n \in 1..Len(signals)
    BY DEF Appended
  <2> QED
    BY <1>1, <2>1 DEF Appended
<1> QED
  BY <1>2, UnsyncedRoster

LEMMA ReadRoster ==
  ASSUME IInv, Roster, client'.synced = client.synced, NEW s, Tells1(s), Appended(s),
         ui'.combo = ui.combo, ui'.slips = ui.slips, listed' = listed
  PROVE  Roster'
<1>1. ~isSession(s)
  BY DEF Tells1, isSession
<1>2. CASE client.synced
  BY <1>2, HeardRoster
<1>3. CASE ~client.synced
  BY <1>1, <1>3, EarlyRoster
<1> QED
  BY <1>2, <1>3

LEMMA UserInRoster ==
  ASSUME IInv, Roster, NEW c \in Remote, UserIn(c)
  PROVE  Roster'
<1> DEFINE theirs == client.theirs
           all == insert(theirs, c, NewCharacter)
           one == insert(Nobody, c, NewCharacter)
           s == [kind |-> "in", id |-> c, sheets |-> one, late |-> FALSE]
<1>1. /\ client' = [client EXCEPT !.theirs = all] /\ signal("in", c, one)
      /\ c \notin DOMAIN theirs /\ UNCHANGED <<ui, listed>>
  BY StartFacts DEF UserIn, ClientOk, Client
<1>2. client \in Client /\ c \in Id
  BY StartFacts DEF ClientOk, Id
<1>3. /\ DOMAIN all = DOMAIN theirs \cup {c} /\ DOMAIN one = {c}
      /\ \A d \in DOMAIN all : all[d] = IF d = c THEN NewCharacter ELSE theirs[d]
      /\ one[c] = NewCharacter
  BY DEF insert, Nobody
<1> HIDE DEF all, one, theirs
<1>4. client'.theirs = all /\ client'.synced = client.synced
  BY <1>1, <1>2 DEF Client
<1>5. s.kind = "in" /\ s.id = c /\ ~s.late /\ s.sheets = one
  OBVIOUS
<1>6. Appended(s)
  BY <1>1, AppendedSignal
<1> HIDE DEF s
<1>7. Tells1(s)
  BY <1>1, <1>2, <1>3, <1>4, <1>5 DEF Tells1, agrees, theirs
<1> QED
  BY <1>1, <1>4, <1>6, <1>7, ReadRoster

LEMMA UserOutRoster ==
  ASSUME IInv, Roster, NEW c \in Remote, UserOut(c)
  PROVE  Roster'
<1> DEFINE theirs == client.theirs
           all == [d \in DOMAIN theirs \ {c} |-> theirs[d]]
           s == [kind |-> "out", id |-> c, sheets |-> Nobody, late |-> FALSE]
<1>1. /\ client' = [client EXCEPT !.theirs = all] /\ signal("out", c, Nobody)
      /\ c \in DOMAIN theirs /\ UNCHANGED <<ui, listed>>
  BY StartFacts DEF UserOut, ClientOk, Client
<1>2. client \in Client /\ c \in Id
  BY StartFacts DEF ClientOk, Id
<1>3. DOMAIN all = DOMAIN theirs \ {c} /\ \A d \in DOMAIN all : all[d] = theirs[d]
  OBVIOUS
<1> HIDE DEF all, theirs
<1>4. client'.theirs = all /\ client'.synced = client.synced
  BY <1>1, <1>2 DEF Client
<1>5. s.kind = "out" /\ s.id = c /\ ~s.late
  OBVIOUS
<1>6. Appended(s)
  BY <1>1, AppendedSignal
<1> HIDE DEF s
<1>7. Tells1(s)
  BY <1>1, <1>2, <1>3, <1>4, <1>5 DEF Tells1, agrees, theirs
<1> QED
  BY <1>1, <1>4, <1>6, <1>7, ReadRoster

LEMMA UserDataChangedRoster ==
  ASSUME IInv, Roster, NEW c \in Remote, UserDataChanged(c)
  PROVE  Roster'
<1> DEFINE theirs == client.theirs
           sheet == [theirs[c] EXCEPT !.tabs = @ + 1]
           all == [theirs EXCEPT ![c] = sheet]
           one == insert(Nobody, c, sheet)
           s == [kind |-> "changed", id |-> c, sheets |-> one, late |-> FALSE]
<1>1. /\ client' = [client EXCEPT !.theirs[c] = sheet] /\ signal("changed", c, one)
      /\ c \in DOMAIN theirs /\ UNCHANGED <<ui, listed>>
  BY DEF UserDataChanged
<1>2. client \in Client /\ c \in Id
  BY StartFacts DEF ClientOk, Id
<1> HIDE DEF sheet
<1>3. client' = [client EXCEPT !.theirs = all]
  BY <1>1, <1>2 DEF Client
<1>4. /\ DOMAIN all = DOMAIN theirs /\ DOMAIN one = {c}
      /\ \A d \in DOMAIN all : all[d] = IF d = c THEN sheet ELSE theirs[d]
      /\ one[c] = sheet
  <2>1. client.theirs \in Sheets(Id)
    BY <1>2 DEF Client
  <2>2. theirs \in [DOMAIN theirs -> Sheet]
    BY <2>1, SheetsType
  <2> HIDE DEF theirs
  <2> QED
    BY <1>1, <2>2 DEF insert, Nobody
<1> HIDE DEF all, one, theirs
<1>5. client'.theirs = all /\ client'.synced = client.synced
  BY <1>2, <1>3 DEF Client
<1>6. s.kind = "changed" /\ s.id = c /\ ~s.late /\ s.sheets = one
  OBVIOUS
<1>7. Appended(s)
  BY <1>1, AppendedSignal
<1> HIDE DEF s
<1>8. Tells1(s)
  BY <1>1, <1>2, <1>4, <1>5, <1>6 DEF Tells1, agrees, theirs
<1> QED
  BY <1>1, <1>5, <1>7, <1>8, ReadRoster

\* A change of a sheet that comes from the server.
LEMMA NotifyRoster ==
  ASSUME IInv, Roster, notifyCharacterChange
  PROVE  Roster'
<1> DEFINE theirs == client.theirs
           me == client.me
           sheet == Head(ui.told)
           all == [theirs EXCEPT ![me] = sheet]
           one == insert(Nobody, me, sheet)
           s == [kind |-> "changed", id |-> me, sheets |-> one, late |-> FALSE]
<1>1. client \in Client /\ me # NoId /\ me \in Id /\ me \in DOMAIN theirs
  BY StartFacts DEF notifyCharacterChange, ClientOk, Client, Id, Faithful, Told
<1>2. /\ client' = [client EXCEPT !.theirs[me] = sheet, !.sent = sheet]
      /\ signal("changed", me, one) /\ ui' = [ui EXCEPT !.told = Tail(@)] /\ listed' = listed
  BY DEF notifyCharacterChange
<1>3. ui'.combo = ui.combo /\ ui'.slips = ui.slips
  BY <1>2, StartFacts DEF Ui
<1> HIDE DEF sheet
<1>4. client' = [client EXCEPT !.theirs = all, !.sent = sheet]
  BY <1>1, <1>2 DEF Client
<1>5. /\ DOMAIN all = DOMAIN theirs /\ DOMAIN one = {me}
      /\ \A d \in DOMAIN all : all[d] = IF d = me THEN sheet ELSE theirs[d]
      /\ one[me] = sheet
  <2>1. client.theirs \in Sheets(Id)
    BY <1>1 DEF Client
  <2>2. theirs \in [DOMAIN theirs -> Sheet]
    BY <2>1, SheetsType
  <2> HIDE DEF theirs, me
  <2> QED
    BY <1>1, <2>2 DEF insert, Nobody
<1> HIDE DEF all, one, theirs
<1>6. client'.theirs = all /\ client'.synced = client.synced
  BY <1>1, <1>4 DEF Client
<1>7. s.kind = "changed" /\ s.id = me /\ ~s.late /\ s.sheets = one
  OBVIOUS
<1>8. Appended(s)
  BY <1>2, AppendedSignal
<1> HIDE DEF s, me
<1>9. Tells1(s)
  BY <1>1, <1>5, <1>6, <1>7 DEF Tells1, agrees, theirs
<1> QED
  BY <1>2, <1>3, <1>6, <1>8, <1>9, ReadRoster

\* The session is the last signal, and tells all that the client has.
LEMMA GameSessionSyncRoster ==
  ASSUME IInv, Roster, NEW S \in SUBSET Remote, GameSessionSync(S)
  PROVE  Roster'
<1> DEFINE users == [c \in S |-> NewCharacter]
           all == IF client.me = NoId THEN users ELSE insert(users, client.me, client.sent)
           s == [kind |-> "session", id |-> NoId, sheets |-> all, late |-> FALSE]
           N == Len(signals)
<1>1. /\ ~client.synced /\ client' = [client EXCEPT !.synced = TRUE, !.theirs = all]
      /\ signal("session", NoId, all)
  BY DEF GameSessionSync
<1> HIDE DEF all
<1>2. client'.theirs = all
  BY <1>1, StartFacts DEF ClientOk, Client
<1>3. Appended(s)
  BY <1>1, AppendedSignal
<1>4. isSession(s) /\ s.kind = "session" /\ s.sheets = all
  BY DEF isSession
<1> HIDE DEF s
<1>5. /\ N \in Nat /\ Len(signals') = N + 1 /\ signals'[N + 1] = s
      /\ \A n \in 1..N : signals'[n] = signals[n]
      /\ \A n \in 1..N + 1 : n = N + 1 \/ n \in 1..N
  BY <1>3 DEF Appended
<1>6. \A n \in 1..N : isSession(signals[n]) => signals[n].late
  BY <1>1 DEF Roster, Sessions
<1> HIDE DEF N
<1>7. N + 1 \in 1..N + 1 /\ \A n \in 1..N : N + 1 > n
  BY <1>5
<1>8. \A n \in 1..N + 1 : NoSessionAfter(n)' => n = N + 1
  BY <1>4, <1>5, <1>7 DEF NoSessionAfter
<1>9. \A n \in 1..N + 1, c \in Id :
        (\A m \in 1..N + 1 : m > n => ~about(signals'[m], c)) => n = N + 1
  BY <1>4, <1>5, <1>7 DEF about
<1>10. \A n \in 1..N + 1 : isSession(signals'[n]) /\ ~signals'[n].late => n = N + 1
  BY <1>5, <1>6
<1>11. ~\E n \in 1..N + 1 : n > N + 1
  BY <1>5
<1>12. client'.synced
  BY <1>1, StartFacts DEF ClientOk, Client
<1>13. Sessions'
  BY <1>5, <1>10, <1>11, <1>12 DEF Sessions, NoSessionAfter
<1>14. LastTells'
  <2> SUFFICES ASSUME NEW n \in 1..N + 1, NEW c \in Id, ~signals'[n].late, about(signals'[n], c),
                      \A m \in 1..N + 1 : m > n => ~about(signals'[m], c)
               PROVE  /\ signals'[n].kind = "out" => c \notin DOMAIN client'.theirs
                      /\ signals'[n].kind # "out" =>
                           agrees(signals'[n].sheets, client'.theirs, c)
    BY <1>5 DEF LastTells
  <2>1. signals'[n] = s
    BY <1>5, <1>9
  <2> QED
    BY <1>2, <1>4, <2>1 DEF agrees
<1>15. MovesTell'
  <2> SUFFICES ASSUME NEW n \in 1..N + 1, NEW c \in Id, Timely(n)'
               PROVE  ~is(signals'[n], "in", c) /\ ~is(signals'[n], "out", c)
    BY <1>5 DEF MovesTell
  <2>1. signals'[n] = s
    BY <1>5, <1>8 DEF Timely
  <2> QED
    BY <1>4, <2>1 DEF is
<1>16. Alternate'
  <2> SUFFICES ASSUME NEW n \in 1..N + 1, NEW c \in Id, Timely(n)'
               PROVE  ~is(signals'[n], "in", c)
    BY <1>5 DEF Alternate
  <2>1. signals'[n] = s
    BY <1>5, <1>8 DEF Timely
  <2> QED
    BY <1>4, <2>1 DEF is
<1>17. Listing'
  BY <1>4, <1>5, <1>7 DEF Listing, Fresh
<1> QED
  BY <1>13, <1>14, <1>15, <1>16, <1>17 DEF Roster

\* Where there is no client, nothing on its way is of a session that is.
LEMMA ConnectRoster ==
  ASSUME IInv, Roster, NEW c \in DOMAIN ui.db \cup {NoId}, Connect(c)
  PROVE  Roster'
<1>1. ~client.synced
  BY StartFacts DEF Connect, ClientOk
<1>2. \A n \in 1..Len(signals) : isSession(signals[n]) => signals[n].late
  BY <1>1 DEF Roster, Sessions
<1>3. signals' = signals /\ client'.synced = FALSE
  BY DEF Connect, NoClient
<1> QED
  BY <1>2, <1>3, UnsyncedRoster

LEMMA DisconnectRoster ==
  ASSUME IInv, Roster, Disconnect
  PROVE  Roster'
<1>1. ClientOk' /\ client' = NoClient
  BY DisconnectInv DEF IInv, Disconnect
<1>2. \A n \in 1..Len(signals') : signals'[n].late
  BY <1>1, NoClientFacts DEF ClientOk
<1> QED
  BY <1>1, <1>2, NoClientFacts, UnsyncedRoster

LEMMA RestartRoster ==
  ASSUME client' = NoClient, signals' = <<>>
  PROVE  Roster'
<1>1. \A n \in 1..Len(<<>>) : FALSE
  OBVIOUS
<1> QED
  BY <1>1, NoClientFacts, UnsyncedRoster

\* A signal is handled: those that follow are one nearer.
LEMMA Shifted ==
  ASSUME IInv, signals # <<>>, signals' = Tail(signals)
  PROVE  /\ Len(signals) \in Nat \ {0} /\ Len(signals') = Len(signals) - 1
         /\ signals[1] = Head(signals) /\ signals[1] \in Signal
         /\ \A n \in 1..Len(signals') : n + 1 \in 1..Len(signals) /\ signals'[n] = signals[n + 1]
         /\ \A m \in 1..Len(signals) :
              m # 1 => m - 1 \in 1..Len(signals') /\ signals'[m - 1] = signals[m]
<1>1. signals \in Seq(Signal)
  BY StartFacts DEF ClientOk
<1> HIDE DEF Signal
<1>2. /\ Head(signals) \in Signal /\ Head(signals) = signals[1] /\ Len(signals) \in Nat \ {0}
      /\ Len(signals') = Len(signals) - 1
      /\ \A k \in 1..Len(signals) - 1 : signals'[k] = signals[k + 1]
  BY <1>1, HeadTail
<1>3. ASSUME NEW m \in 1..Len(signals), m # 1
      PROVE  m - 1 \in 1..Len(signals') /\ signals'[m - 1] = signals[m]
  <2>1. m - 1 \in 1..Len(signals) - 1 /\ (m - 1) + 1 = m
    BY <1>2, <1>3
  <2> QED
    BY <1>2, <2>1
<1> QED
  BY <1>2, <1>3

\* Without its first signal, the rest of the queue tells the same.
LEMMA ShiftedRoster ==
  ASSUME IInv, Roster, signals # <<>>, signals' = Tail(signals), client' = client
  PROVE  (Sessions /\ LastTells /\ MovesTell /\ Alternate)'
<1> DEFINE N == Len(signals)
           R == Len(signals')
<1>1. /\ N \in Nat \ {0} /\ R = N - 1
      /\ \A n \in 1..R : n + 1 \in 1..N /\ signals'[n] = signals[n + 1]
      /\ \A m \in 1..N : m # 1 => m - 1 \in 1..R /\ signals'[m - 1] = signals[m]
  BY Shifted
<1> HIDE DEF N, R
<1>2. ASSUME NEW n \in 1..R
      PROVE  /\ n + 1 \in 1..N /\ n \in Nat /\ n + 1 # 1
             /\ \A m \in 1..R : m > n => m + 1 \in 1..N /\ m + 1 > n + 1
             /\ \A m \in 1..N :
                  m > n + 1 => m - 1 \in 1..R /\ m - 1 > n /\ signals'[m - 1] = signals[m]
  <2>1. n + 1 \in 1..N /\ n \in Nat /\ n + 1 # 1 /\ N \in Nat
    BY <1>1
  <2>2. \A m \in 1..R : m > n => m + 1 \in 1..N /\ m + 1 > n + 1
    BY <1>1, <2>1
  <2>3. \A m \in 1..N : m > n + 1 => m # 1 /\ m - 1 > n
    BY <2>1
  <2> QED
    BY <1>1, <2>1, <2>2, <2>3
<1>3. \A n \in 1..R : NoSessionAfter(n)' <=> NoSessionAfter(n + 1)
  <2> TAKE n \in 1..R
  <2>1. NoSessionAfter(n)' <=> \A m \in 1..R : m > n => ~isSession(signals'[m])
    BY DEF NoSessionAfter, R
  <2>2. NoSessionAfter(n + 1) <=> \A m \in 1..N : m > n + 1 => ~isSession(signals[m])
    BY DEF NoSessionAfter, N
  <2> QED
    BY <1>1, <1>2, <2>1, <2>2
<1>4. \A n \in 1..R : Timely(n)' <=> Timely(n + 1)
  BY <1>1, <1>3 DEF Timely
<1>5. Sessions'
  <2> SUFFICES ASSUME NEW n \in 1..R, isSession(signals'[n]), ~signals'[n].late
               PROVE  client.synced /\ NoSessionAfter(n)'
    BY DEF Sessions, R
  <2> QED
    BY <1>1, <1>2, <1>3 DEF Roster, Sessions, N
<1>6. LastTells'
  <2> SUFFICES ASSUME client.synced, NEW n \in 1..R, NEW c \in Id, ~signals'[n].late,
                      about(signals'[n], c), \A m \in 1..R : m > n => ~about(signals'[m], c)
               PROVE  /\ signals'[n].kind = "out" => c \notin DOMAIN client.theirs
                      /\ signals'[n].kind # "out" => agrees(signals'[n].sheets, client.theirs, c)
    BY DEF LastTells, R
  <2>1. \A m \in 1..N : m > n + 1 => ~about(signals[m], c)
    BY <1>2
  <2> QED
    BY <1>1, <1>2, <2>1 DEF Roster, LastTells, N
<1>7. MovesTell'
  <2> SUFFICES ASSUME client.synced, NEW n \in 1..R, NEW c \in Id, Timely(n)'
               PROVE  /\ is(signals'[n], "in", c) /\ c \notin DOMAIN client.theirs =>
                           \E m \in 1..R : m > n /\ is(signals'[m], "out", c)
                      /\ is(signals'[n], "out", c) /\ c \in DOMAIN client.theirs =>
                           \E m \in 1..R : m > n /\ is(signals'[m], "in", c)
    BY DEF MovesTell, R
  <2>1. n + 1 \in 1..N /\ Timely(n + 1) /\ signals'[n] = signals[n + 1]
    BY <1>1, <1>4
  <2>2. /\ is(signals[n + 1], "in", c) /\ c \notin DOMAIN client.theirs =>
             \E m \in 1..N : m > n + 1 /\ is(signals[m], "out", c)
        /\ is(signals[n + 1], "out", c) /\ c \in DOMAIN client.theirs =>
             \E m \in 1..N : m > n + 1 /\ is(signals[m], "in", c)
    BY <2>1 DEF Roster, MovesTell, N
  <2>3. \A m \in 1..N : m > n + 1 => m - 1 \in 1..R /\ m - 1 > n /\ signals'[m - 1] = signals[m]
    BY <1>2
  <2> QED
    BY <2>1, <2>2, <2>3
<1>8. Alternate'
  <2> SUFFICES ASSUME client.synced, NEW n \in 1..R, NEW m \in 1..R, NEW c \in Id, Timely(n)',
                      n < m, is(signals'[n], "in", c), is(signals'[m], "in", c)
               PROVE  \E k \in 1..R : n < k /\ k < m /\ is(signals'[k], "out", c)
    BY DEF Alternate, R
  <2>1. /\ n + 1 \in 1..N /\ Timely(n + 1) /\ signals'[n] = signals[n + 1]
        /\ m + 1 \in 1..N /\ signals'[m] = signals[m + 1] /\ n + 1 < m + 1
    <3>1. n \in Nat /\ m \in Nat /\ n + 1 < m + 1
      BY <1>2
    <3> QED
      BY <1>1, <1>4, <3>1
  <2>2. PICK k \in 1..N : n + 1 < k /\ k < m + 1 /\ is(signals[k], "out", c)
    BY <2>1 DEF Roster, Alternate, N
  <2>3. k - 1 \in 1..R /\ n < k - 1 /\ k - 1 < m /\ signals'[k - 1] = signals[k]
    <3>1. k > n + 1 /\ m \in Nat /\ k \in Nat
      BY <1>1, <1>2, <2>2
    <3>2. k - 1 < m
      BY <2>2, <3>1
    <3> QED
      BY <1>2, <3>1, <3>2
  <2> QED
    BY <2>2, <2>3
<1> QED
  BY <1>5, <1>6, <1>7, <1>8

\* The placeholder alone goes; no other list does.
LEMMA TidyToggled ==
  ASSUME NEW c, Sound(c), Tidy(c)
  PROVE  \/ /\ mayTooglePlaceholder(c) = NoItems
            /\ \A k \in 1..Len(c.items) : c.items[k].id = NoId
         \/ /\ mayTooglePlaceholder(c) = c
            /\ \A k \in 1..Len(c.items) : c.items[k].id # NoId
<1>1. /\ Len(c.items) \in Nat /\ c.at \in Nat /\ c.at <= Len(c.items)
      /\ c.at # 0 => c.at \in 1..Len(c.items) /\ currentCharacter(c) = c.items[c.at]
      /\ c.at = 0 => currentCharacter(c) = Placeholder
  BY ComboTypes
<1>2. c.items # <<>> /\ Len(c.items) # 0
  BY ComboTypes, NoElements DEF Tidy
<1>3. CASE Len(c.items) = 1 /\ currentCharacter(c).id = NoId
  <2>1. mayTooglePlaceholder(c) = NoItems
    BY <1>2, <1>3 DEF mayTooglePlaceholder, NoItems
  <2>2. c.items[1].id = NoId
    <3>1. CASE c.at = 0
      BY <1>3, <3>1 DEF Tidy
    <3>2. CASE c.at # 0
      BY <1>1, <1>3, <3>2
    <3> QED
      BY <3>1, <3>2
  <2> QED
    BY <1>1, <1>3, <2>1, <2>2
<1>4. CASE ~(Len(c.items) = 1 /\ currentCharacter(c).id = NoId)
  <2>1. mayTooglePlaceholder(c) = c
    BY <1>2, <1>4 DEF mayTooglePlaceholder
  <2>2. ASSUME NEW k \in 1..Len(c.items), c.items[k].id = NoId
        PROVE  FALSE
    <3>1. Len(c.items) = 1 /\ k = 1
      BY <1>1, <2>2 DEF Tidy
    <3> QED
      BY <1>1, <1>4, <2>2, <3>1, PlaceholderType
  <2> QED
    BY <2>1, <2>2
<1> QED
  BY <1>3, <1>4

\* A list with each character once, with one more that it had not.
LEMMA TidyAdded ==
  ASSUME NEW c, Sound(c), Tidy(c), NEW id \in Remote, ~inCombo(c, id)
  PROVE  LET r == addItem(mayTooglePlaceholder(c), item(id, "Remote")) IN
         /\ Tidy(r) /\ \A d \in Id : inCombo(r, d) <=> inCombo(c, d) \/ d = id
<1> DEFINE t == mayTooglePlaceholder(c)
           i == item(id, "Remote")
           r == addItem(t, i)
<1>1. /\ i \in Entry /\ i.id = id /\ id # NoId /\ id \in Id /\ NoId \notin Id
  BY IdsAssumption, ItemFields DEF Entry, Id
<1>2. Sound(t)
  BY Toggled DEF Toggles
<1>3. \/ t = NoItems /\ \A k \in 1..Len(c.items) : c.items[k].id = NoId
      \/ t = c /\ \A k \in 1..Len(c.items) : c.items[k].id # NoId
  BY TidyToggled
<1> HIDE DEF t, i
<1>4. /\ Sound(r) /\ Len(r.items) = Len(t.items) + 1 /\ r.items[Len(t.items) + 1] = i
      /\ \A k \in 1..Len(t.items) : r.items[k] = t.items[k]
      /\ r.at = IF t.items = <<>> THEN 1 ELSE t.at
  BY <1>1, <1>2, AddedItem
<1>5. Len(t.items) \in Nat /\ Len(c.items) \in Nat /\ (t.items = <<>> <=> Len(t.items) = 0)
  BY <1>2, ComboTypes, NoElements
<1> HIDE DEF r
<1>6. CASE t = NoItems /\ \A k \in 1..Len(c.items) : c.items[k].id = NoId
  <2>1. t.items = <<>> /\ Len(t.items) = 0
    BY <1>5, <1>6 DEF NoItems
  <2>2. Len(r.items) = 1 /\ r.items[1] = i /\ r.at = 1
    BY <1>4, <2>1
  <2>3. Tidy(r)
    <3>1. r.items # <<>>
      BY <1>4, <2>2, ComboTypes, NoElements
    <3> QED
      BY <1>1, <2>2, <3>1 DEF Tidy
  <2>4. \A d \in Id : ~inCombo(c, d) /\ (inCombo(r, d) <=> d = id)
    BY <1>1, <1>6, <2>2 DEF inCombo
  <2> QED
    BY <2>3, <2>4 DEF r, t, i
<1>7. CASE t = c /\ \A k \in 1..Len(c.items) : c.items[k].id # NoId
  <2> DEFINE n == Len(c.items)
  <2>1. n \in Nat /\ n # 0 /\ t.items # <<>>
    BY <1>5, <1>7, NoElements DEF Tidy
  <2>2. /\ Len(r.items) = n + 1 /\ r.items[n + 1] = i
        /\ \A k \in 1..n : r.items[k] = c.items[k]
    BY <1>4, <1>7
  <2>3. /\ \A k \in 1..n : c.items[k].id # NoId /\ c.items[k].id # id
        /\ \A j, k \in 1..n : c.items[j].id = c.items[k].id => j = k
    BY <1>7 DEF inCombo, Tidy
  <2> HIDE DEF n
  <2>4. \A k \in 1..n + 1 : k = n + 1 \/ k \in 1..n
    BY <2>1
  <2>5. Tidy(r)
    <3>1. r.items # <<>>
      BY <1>4, <2>1, <2>2, ComboTypes, NoElements
    <3>2. \A k \in 1..n + 1 : r.items[k].id # NoId
      BY <1>1, <2>2, <2>3, <2>4
    <3>3. \A j, k \in 1..n + 1 : r.items[j].id = r.items[k].id => j = k
      BY <1>1, <2>2, <2>3, <2>4
    <3> QED
      BY <2>1, <2>2, <3>1, <3>2, <3>3 DEF Tidy
  <2>6. \A d \in Id : inCombo(r, d) <=> inCombo(c, d) \/ d = id
    <3> TAKE d \in Id
    <3>1. inCombo(r, d) <=> \E k \in 1..n + 1 : r.items[k].id = d
      BY <2>2 DEF inCombo
    <3>2. inCombo(c, d) <=> \E k \in 1..n : c.items[k].id = d
      BY DEF inCombo, n
    <3>3. n + 1 \in 1..n + 1 /\ \A k \in 1..n : k \in 1..n + 1
      BY <2>1
    <3> QED
      BY <1>1, <2>2, <2>4, <3>1, <3>2, <3>3
  <2> QED
    BY <2>5, <2>6 DEF r, t, i
<1> QED
  BY <1>3, <1>6, <1>7

\* A list with each character once, without one of them.
LEMMA TidyRemoved ==
  ASSUME NEW c, Sound(c), Tidy(c), NEW id \in Id, indexOf(c, id) # 0,
         NEW r \in removeItem(c, indexOf(c, id)), ~(r.at = 0 /\ Len(r.items) = 1)
  PROVE  /\ Tidy(mayTooglePlaceholder(r))
         /\ \A d \in Id : inCombo(mayTooglePlaceholder(r), d) <=> inCombo(c, d) /\ d # id
<1> DEFINE k == indexOf(c, id)
           n == Len(c.items)
           t == mayTooglePlaceholder(r)
<1>1. k \in 1..n /\ c.items[k].id = id /\ NoId \notin Id /\ n \in Nat
  BY IndexOf, ComboTypes, IdsAssumption DEF Id
<1> HIDE DEF k
<1>2. /\ Sound(r) /\ Len(r.items) = n - 1
      /\ \A j \in 1..n - 1 : r.items[j] = IF j < k THEN c.items[j] ELSE c.items[j + 1]
  BY <1>1, RemovedItem DEF k
<1>3. \A i, j \in 1..n : c.items[i].id = c.items[j].id => i = j
  BY DEF Tidy
<1>4. \A j \in 1..n : c.items[j].id # NoId
  <2> SUFFICES ASSUME NEW j \in 1..n, c.items[j].id = NoId
               PROVE  FALSE
    OBVIOUS
  <2>1. n = 1
    BY DEF Tidy
  <2> QED
    BY <1>1, <2>1
<1> HIDE DEF n
<1>5. /\ r.items = <<>> <=> n = 1
      /\ r.at # 0 => r.at \in 1..n - 1 /\ currentCharacter(r) = r.items[r.at]
  BY <1>1, <1>2, ComboTypes, NoElements
<1>6. CASE n = 1
  <2>1. t = EmptyCombo
    BY <1>5, <1>6 DEF mayTooglePlaceholder
  <2>2. t.items = <<Placeholder>> /\ t.at = 1 /\ Len(t.items) = 1 /\ t.items[1] = Placeholder
        /\ t.items # <<>>
    BY <2>1 DEF EmptyCombo
  <2> HIDE DEF t
  <2>3. Tidy(t)
    BY <2>2 DEF Tidy
  <2>4. \A d \in Id : ~inCombo(t, d)
    BY <1>1, <2>2, PlaceholderType DEF inCombo
  <2>5. \A d \in Id : inCombo(c, d) => d = id
    BY <1>1, <1>6 DEF inCombo, n
  <2> QED
    BY <2>3, <2>4, <2>5 DEF t
<1>7. CASE n # 1
  <2>1. \A j \in 1..n - 1 : r.items[j].id # NoId
    <3> TAKE j \in 1..n - 1
    <3>1. j \in 1..n /\ j + 1 \in 1..n
      BY <1>1
    <3> QED
      BY <1>2, <1>4, <3>1
  <2>2. t = r
    <3>1. Len(r.items) = 1 => currentCharacter(r).id # NoId
      BY <1>2, <1>5, <2>1
    <3> QED
      BY <1>5, <1>7, <3>1 DEF mayTooglePlaceholder
  <2>3. \A i, j \in 1..n - 1 : r.items[i].id = r.items[j].id => i = j
    <3> SUFFICES ASSUME NEW i \in 1..n - 1, NEW j \in 1..n - 1, r.items[i].id = r.items[j].id
                 PROVE  i = j
      OBVIOUS
    <3>1. i \in 1..n /\ i + 1 \in 1..n /\ j \in 1..n /\ j + 1 \in 1..n
      BY <1>1
    <3>2. \E p, q \in 1..n : /\ r.items[i] = c.items[p] /\ p = (IF i < k THEN i ELSE i + 1)
                             /\ r.items[j] = c.items[q] /\ q = (IF j < k THEN j ELSE j + 1)
      BY <1>2, <3>1
    <3> QED
      BY <1>1, <1>3, <3>2
  <2>4. Tidy(r)
    BY <1>2, <1>5, <1>7, <2>1, <2>3 DEF Tidy
  <2>5. \A d \in Id : inCombo(r, d) <=> inCombo(c, d) /\ d # id
    <3> TAKE d \in Id
    <3>1. ASSUME inCombo(r, d)
          PROVE  inCombo(c, d) /\ d # id
      <4>1. PICK j \in 1..n - 1 : r.items[j].id = d
        BY <1>2, <3>1 DEF inCombo
      <4>2. j \in 1..n /\ j + 1 \in 1..n
        BY <1>1
      <4>3. PICK p \in 1..n : p # k /\ c.items[p].id = d
        BY <1>1, <1>2, <4>1, <4>2
      <4> QED
        BY <1>1, <1>3, <4>3 DEF inCombo, n
    <3>2. ASSUME inCombo(c, d), d # id
          PROVE  inCombo(r, d)
      <4>1. PICK p \in 1..n : c.items[p].id = d
        BY <3>2 DEF inCombo, n
      <4>2. p # k
        BY <1>1, <3>2, <4>1
      <4>3. CASE p < k
        <5>1. p \in 1..n - 1 /\ r.items[p] = c.items[p]
          BY <1>1, <1>2, <4>3
        <5> QED
          BY <1>2, <4>1, <5>1 DEF inCombo
      <4>4. CASE p > k
        <5>1. p - 1 \in 1..n - 1 /\ ~(p - 1 < k) /\ (p - 1) + 1 = p
          BY <1>1, <4>4
        <5>2. r.items[p - 1] = c.items[p]
          BY <1>2, <5>1
        <5> QED
          BY <1>2, <4>1, <5>1, <5>2 DEF inCombo
      <4> QED
        BY <1>1, <4>2, <4>3, <4>4
    <3> QED
      BY <3>1, <3>2
  <2> QED
    BY <2>2, <2>4, <2>5
<1> QED
  BY <1>6, <1>7

\* Handled in time, a signal comes with nothing known to confuse the list.
LEMMA InTime ==
  ASSUME IInv, HandleSignal, Fresh'
  PROVE  /\ client.synced /\ client.up /\ client' = client /\ ~Head(signals).late
         /\ signals # <<>> /\ signals' = Tail(signals)
         /\ \A m \in 1..Len(signals) :
              m # 1 => ~isSession(signals[m]) /\ ~signals[m].late
         /\ NoSessionAfter(1)
<1>1. signals # <<>> /\ signals' = Tail(signals) /\ client' = client
  BY DEF HandleSignal
<1>2. /\ client.synced /\ client.up
      /\ \A n \in 1..Len(signals') : ~isSession(signals'[n]) /\ ~signals'[n].late
  BY <1>1, StartFacts DEF Fresh, ClientOk
<1>3. \A m \in 1..Len(signals) : m # 1 => ~isSession(signals[m]) /\ ~signals[m].late
  BY <1>1, <1>2, Shifted
<1>4. NoSessionAfter(1)
  BY <1>3 DEF NoSessionAfter
<1>5. ~Head(signals).late
  <2>1. "late" \notin ui'.slips
    BY DEF Fresh
  <2>2. CASE Head(signals).kind = "session"
    BY <1>2, <2>1, <2>2, SessionHandling DEF SessionHandled
  <2>3. CASE Head(signals).kind # "session"
    BY <2>1, <2>3, UserHandling DEF UserHandled
  <2> QED
    BY <2>2, <2>3
<1> QED
  BY <1>1, <1>2, <1>3, <1>4, <1>5

\* The list is made of the client's table, with nobody on the way.
LEMMA SessionListing ==
  ASSUME IInv, Roster, HandleSignal, Head(signals).kind = "session"
  PROVE  Listing'
<1> SUFFICES ASSUME Fresh'
             PROVE  (Tidy(ui.combo) /\ Settled /\ Comers /\ Players)'
  BY DEF Listing
<1> DEFINE s == Head(signals)
           new == ui'.combo
           theirs == client.theirs
           mine(c) == item(c, IF c = client.me THEN "Local" ELSE "Remote")
<1>1. /\ client.synced /\ client.up /\ client' = client /\ ~s.late
      /\ signals # <<>> /\ signals' = Tail(signals)
      /\ \A m \in 1..Len(signals) : m # 1 => ~isSession(signals[m]) /\ ~signals[m].late
  BY InTime
<1>2. SessionHandled(s)
  BY <1>1, SessionHandling
<1>3. /\ signals[1] = s /\ 1 \in 1..Len(signals)
      /\ \A n \in 1..Len(signals') : n + 1 \in 1..Len(signals) /\ signals'[n] = signals[n + 1]
      /\ \A m \in 1..Len(signals) :
           m # 1 => m - 1 \in 1..Len(signals') /\ signals'[m - 1] = signals[m]
  BY <1>1, Shifted
<1>4. \A n \in 1..Len(signals') : ~signals'[n].late
  BY DEF Fresh
<1> HIDE DEF s
<1>5. \A n \in 1..Len(signals') : signals'[n].kind # "in"
  <2>1. "raced" \notin ui'.slips
    BY DEF Fresh
  <2>2. \A n \in 1..Len(signals) : signals[n].kind = "in" => signals[n].late
    BY <1>2, <2>1 DEF SessionHandled
  <2> TAKE n \in 1..Len(signals')
  <2>3. n + 1 \in 1..Len(signals) /\ signals'[n] = signals[n + 1]
    BY <1>3
  <2>4. ~signals[n + 1].late
    BY <1>4, <2>3
  <2> QED
    BY <2>2, <2>3, <2>4
<1>6. /\ Sound(new) /\ IsInjective(new.items) /\ OwnCombo(new, client)
      /\ DOMAIN theirs = {} => new = EmptyCombo
      /\ DOMAIN theirs # {} => /\ new.at # 0
                               /\ \A e : Lists(new, e) <=> \E c \in DOMAIN theirs : e = mine(c)
  BY <1>2, SessionCombo
<1>7. NoId \notin DOMAIN theirs /\ NoId \notin Id
  BY StartFacts, TellType, IdsAssumption DEF Id
<1>8. \A c : mine(c).id = c
  BY ItemFields
<1> HIDE DEF mine
<1>9. Tidy(new) /\ \A c \in Id : inCombo(new, c) <=> c \in DOMAIN theirs
  <2>1. CASE DOMAIN theirs = {}
    <3>1. /\ new.items = <<Placeholder>> /\ new.at = 1 /\ Len(new.items) = 1
          /\ new.items[1] = Placeholder /\ new.items # <<>>
      BY <1>6, <2>1 DEF EmptyCombo
    <3> HIDE DEF new
    <3>2. Tidy(new)
      BY <3>1 DEF Tidy
    <3>3. \A c \in Id : ~inCombo(new, c)
      BY <1>7, <3>1, PlaceholderType DEF inCombo
    <3> QED
      BY <2>1, <3>2, <3>3
  <2>2. CASE DOMAIN theirs # {}
    <3> HIDE DEF theirs, new
    <3>1. /\ new.at \in 1..Len(new.items)
          /\ Len(new.items) \in Nat
          /\ DOMAIN new.items = 1..Len(new.items)
      BY <1>6, <2>2, ComboTypes
    <3>2. \A k \in 1..Len(new.items) : \E c \in DOMAIN theirs : new.items[k] = mine(c)
      BY <1>6, <2>2 DEF Lists
    <3>3. \A c \in DOMAIN theirs : \E k \in 1..Len(new.items) : new.items[k] = mine(c)
      BY <1>6, <2>2 DEF Lists
    <3>4. \A k \in 1..Len(new.items) : new.items[k].id \in DOMAIN theirs
                                       /\ new.items[k] = mine(new.items[k].id)
      BY <1>8, <3>2
    <3>5. \A j, k \in 1..Len(new.items) : new.items[j].id = new.items[k].id => j = k
      BY <1>6, <3>1, <3>4 DEF IsInjective
    <3>6. Tidy(new)
      <4>1. new.items # <<>>
        BY <1>6, <3>1, ComboTypes, NoElements
      <4> QED
        BY <1>6, <1>7, <2>2, <3>4, <3>5, <4>1 DEF Tidy, theirs
    <3>7. \A c : inCombo(new, c) <=> c \in DOMAIN theirs
      BY <1>8, <3>3, <3>4 DEF inCombo
    <3> QED
      BY <3>6, <3>7
  <2> QED
    BY <2>1, <2>2
<1>10. Settled'
  BY <1>1, <1>9 DEF Settled
<1>11. Comers'
  BY <1>5 DEF Comers, is
<1>12. Players'
  <2> SUFFICES ASSUME NEW c \in Id, \A n \in 1..Len(signals') : ~about(signals'[n], c)
               PROVE  agrees(listed', theirs, c)
    BY <1>1 DEF Players
  <2>1. \A m \in 1..Len(signals) : m > 1 => ~about(signals[m], c)
    BY <1>3
  <2>2. s.kind = "session" /\ about(signals[1], c) /\ ~signals[1].late
    BY <1>1, <1>3 DEF about, isSession, s
  <2>3. agrees(s.sheets, theirs, c)
    BY <1>1, <1>3, <2>1, <2>2 DEF Roster, LastTells
  <2> QED
    BY <1>2, <2>3 DEF SessionHandled
<1> QED
  BY <1>9, <1>10, <1>11, <1>12

\* What was listed before the signal of one character, and what is of it now.
LEMMA ListedBefore ==
  ASSUME IInv, Roster, HandleSignal, Head(signals).kind # "session", Fresh'
  PROVE  /\ Tidy(ui.combo) /\ Settled /\ Comers /\ Players /\ Timely(1)
         /\ UserHandled(Head(signals)) /\ Head(signals) \in Signal /\ client' = client
         /\ signals # <<>> /\ signals' = Tail(signals)
         /\ Players'
<1> DEFINE s == Head(signals)
           theirs == client.theirs
<1>1. /\ client.synced /\ client.up /\ client' = client /\ ~s.late
      /\ signals # <<>> /\ signals' = Tail(signals)
      /\ \A m \in 1..Len(signals) : m # 1 => ~isSession(signals[m]) /\ ~signals[m].late
      /\ NoSessionAfter(1)
  BY InTime
<1>2. UserHandled(s) /\ s \in Signal
  BY UserHandling
<1>3. /\ signals[1] = s /\ 1 \in 1..Len(signals)
      /\ \A n \in 1..Len(signals') : n + 1 \in 1..Len(signals) /\ signals'[n] = signals[n + 1]
      /\ \A m \in 1..Len(signals) :
           m # 1 => m - 1 \in 1..Len(signals') /\ signals'[m - 1] = signals[m]
  BY <1>1, Shifted
<1>4. ~isSession(s)
  BY DEF isSession
<1>5. s.kind \in {"in", "out", "changed"} /\ (s.kind # "out" => s.id \in DOMAIN s.sheets)
  BY <1>2, <1>4 DEF Signal, isSession
<1> HIDE DEF s
<1>6. Fresh
  <2>1. ui.slips \subseteq ui'.slips
    BY <1>2 DEF UserHandled, Kept
  <2> QED
    BY <1>1, <1>3, <1>4, <2>1 DEF Fresh
<1>7. Tidy(ui.combo) /\ Settled /\ Comers /\ Players
  BY <1>6 DEF Roster, Listing
<1>8. Timely(1)
  BY <1>1, <1>3 DEF Timely
<1>9. Players'
  <2> SUFFICES ASSUME NEW c \in Id, \A n \in 1..Len(signals') : ~about(signals'[n], c)
               PROVE  agrees(listed', theirs, c)
    BY <1>1 DEF Players
  <2>1. \A m \in 1..Len(signals) : m # 1 => ~about(signals[m], c)
    BY <1>3
  <2>2. s.kind # "out" => listed' = insert(listed, s.id, s.sheets[s.id])
    BY <1>2, <1>5 DEF UserHandled
  <2>3. s.kind = "out" => listed' = [d \in DOMAIN listed \ {s.id} |-> listed[d]]
    BY <1>2 DEF UserHandled
  <2>4. CASE c = s.id
    <3>1. /\ s.kind = "out" => c \notin DOMAIN theirs
          /\ s.kind # "out" => agrees(s.sheets, theirs, c)
      <4>1. ~signals[1].late /\ about(signals[1], c) /\ \A m \in 1..Len(signals) : m > 1 => m # 1
        BY <1>1, <1>3, <2>4 DEF about
      <4> QED
        BY <1>1, <1>3, <2>1, <4>1 DEF Roster, LastTells
    <3>2. s.kind = "out" => c \notin DOMAIN listed'
      BY <2>3, <2>4
    <3>3. s.kind # "out" =>
            c \in DOMAIN listed' /\ listed'[c] = s.sheets[c] /\ c \in DOMAIN s.sheets
      BY <1>5, <2>2, <2>4 DEF insert
    <3> QED
      BY <3>1, <3>2, <3>3 DEF agrees
  <2>5. CASE c # s.id
    <3>1. \A n \in 1..Len(signals) : ~about(signals[n], c)
      BY <1>3, <1>4, <2>1, <2>5 DEF about
    <3>2. agrees(listed, theirs, c)
      BY <1>7, <3>1 DEF Players
    <3>3. s.kind # "out" => (c \in DOMAIN listed' <=> c \in DOMAIN listed)
                            /\ (c \in DOMAIN listed => listed'[c] = listed[c])
      BY <2>2, <2>5 DEF insert
    <3>4. s.kind = "out" => (c \in DOMAIN listed' <=> c \in DOMAIN listed)
                            /\ (c \in DOMAIN listed => listed'[c] = listed[c])
      BY <2>3, <2>5
    <3> QED
      BY <3>2, <3>3, <3>4 DEF agrees
  <2> QED
    BY <2>4, <2>5
<1> QED
  BY <1>1, <1>2, <1>7, <1>8, <1>9 DEF s

\* Who came is added, as it was not there.
LEMMA InListing ==
  ASSUME IInv, Roster, HandleSignal, Head(signals).kind = "in"
  PROVE  Listing'
<1> SUFFICES ASSUME Fresh'
             PROVE  (Tidy(ui.combo) /\ Settled /\ Comers /\ Players)'
  BY DEF Listing
<1> DEFINE s == Head(signals)
           id == s.id
           theirs == client.theirs
<1>1. /\ Tidy(ui.combo) /\ Settled /\ Comers /\ Timely(1) /\ Players'
      /\ UserHandled(s) /\ s \in Signal /\ client' = client
      /\ signals # <<>> /\ signals' = Tail(signals) /\ client.synced /\ Sound(ui.combo)
  BY ListedBefore, InTime, StartFacts
<1>2. /\ signals[1] = s /\ 1 \in 1..Len(signals) /\ Len(signals) \in Nat
      /\ \A n \in 1..Len(signals') : n + 1 \in 1..Len(signals) /\ signals'[n] = signals[n + 1]
      /\ \A m \in 1..Len(signals) :
           m # 1 => m - 1 \in 1..Len(signals') /\ signals'[m - 1] = signals[m]
  BY <1>1, Shifted
<1>3. id \in Remote /\ id \in Id
  BY <1>1 DEF Signal, Id
<1>4. is(signals[1], "in", id)
  BY <1>2 DEF is
<1> HIDE DEF s, id
<1>5. ~inCombo(ui.combo, id)
  <2>1. \A m \in 1..Len(signals) : ~(m < 1)
    OBVIOUS
  <2> QED
    BY <1>1, <1>2, <1>3, <1>4, <2>1 DEF Comers
<1>6. Tidy(ui'.combo) /\ \A d \in Id : inCombo(ui'.combo, d) <=> inCombo(ui.combo, d) \/ d = id
  <2>1. ui'.combo = addItem(mayTooglePlaceholder(ui.combo), item(id, "Remote"))
    BY <1>1 DEF UserHandled, s, id
  <2>2. LET r == addItem(mayTooglePlaceholder(ui.combo), item(id, "Remote")) IN
         /\ Tidy(r) /\ \A d \in Id : inCombo(r, d) <=> inCombo(ui.combo, d) \/ d = id
    BY <1>1, <1>3, <1>5, TidyAdded
  <2> QED
    BY <2>1, <2>2
<1>7. \A kind, d : is(signals[1], kind, d) => kind = "in" /\ d = id
  BY <1>4 DEF is
<1>8. Settled'
  <2> SUFFICES ASSUME NEW d \in Id,
                      \A n \in 1..Len(signals') :
                        ~is(signals'[n], "in", d) /\ ~is(signals'[n], "out", d)
               PROVE  inCombo(ui'.combo, d) <=> d \in DOMAIN theirs
    BY <1>1 DEF Settled
  <2>1. \A m \in 1..Len(signals) : m # 1 => ~is(signals[m], "in", d) /\ ~is(signals[m], "out", d)
    BY <1>2
  <2>2. CASE d = id
    <3>1. ~\E m \in 1..Len(signals) : m > 1 /\ is(signals[m], "out", d)
      BY <2>1
    <3>2. d \in DOMAIN theirs
      BY <1>1, <1>2, <1>4, <2>2, <3>1 DEF Roster, MovesTell
    <3> QED
      BY <1>6, <2>2, <3>2
  <2>3. CASE d # id
    <3>1. \A m \in 1..Len(signals) : ~is(signals[m], "in", d) /\ ~is(signals[m], "out", d)
      BY <1>7, <2>1, <2>3
    <3> QED
      BY <1>1, <1>6, <2>3, <3>1 DEF Settled
  <2> QED
    BY <2>2, <2>3
<1>9. Comers'
  <2> SUFFICES ASSUME NEW n \in 1..Len(signals'), NEW d \in Id, is(signals'[n], "in", d),
                      inCombo(ui'.combo, d)
               PROVE  \E m \in 1..Len(signals') : m < n /\ is(signals'[m], "out", d)
    BY DEF Comers
  <2>1. n + 1 \in 1..Len(signals) /\ is(signals[n + 1], "in", d) /\ 1 < n + 1 /\ n \in Nat
    BY <1>2
  <2>2. \E m \in 1..Len(signals) : m # 1 /\ m < n + 1 /\ is(signals[m], "out", d)
    <3>1. CASE d = id
      <4>1. PICK m \in 1..Len(signals) : 1 < m /\ m < n + 1 /\ is(signals[m], "out", d)
        BY <1>1, <1>2, <1>4, <2>1, <3>1 DEF Roster, Alternate
      <4> QED
        BY <4>1
    <3>2. CASE d # id
      <4>1. inCombo(ui.combo, d)
        BY <1>6, <3>2
      <4>2. PICK m \in 1..Len(signals) : m < n + 1 /\ is(signals[m], "out", d)
        BY <1>1, <2>1, <4>1 DEF Comers
      <4> QED
        BY <1>7, <4>2
    <3> QED
      BY <3>1, <3>2
  <2>3. PICK m \in 1..Len(signals) : m # 1 /\ m < n + 1 /\ is(signals[m], "out", d)
    BY <2>2
  <2>4. m - 1 \in 1..Len(signals') /\ signals'[m - 1] = signals[m]
    BY <1>2, <2>3
  <2>5. m - 1 < n
    BY <2>1, <2>3
  <2> QED
    BY <2>3, <2>4, <2>5
<1> QED
  BY <1>1, <1>6, <1>8, <1>9

\* Who left goes, if it was there.
LEMMA OutListing ==
  ASSUME IInv, Roster, HandleSignal, Head(signals).kind = "out"
  PROVE  Listing'
<1> SUFFICES ASSUME Fresh'
             PROVE  (Tidy(ui.combo) /\ Settled /\ Comers /\ Players)'
  BY DEF Listing
<1> DEFINE s == Head(signals)
           id == s.id
           theirs == client.theirs
<1>1. /\ Tidy(ui.combo) /\ Settled /\ Comers /\ Timely(1) /\ Players'
      /\ UserHandled(s) /\ s \in Signal /\ client' = client
      /\ signals # <<>> /\ signals' = Tail(signals) /\ client.synced /\ Sound(ui.combo)
  BY ListedBefore, InTime, StartFacts
<1>2. /\ signals[1] = s /\ 1 \in 1..Len(signals) /\ Len(signals) \in Nat
      /\ \A n \in 1..Len(signals') : n + 1 \in 1..Len(signals) /\ signals'[n] = signals[n + 1]
      /\ \A m \in 1..Len(signals) :
           m # 1 => m - 1 \in 1..Len(signals') /\ signals'[m - 1] = signals[m]
  BY <1>1, Shifted
<1>3. id \in Id
  BY <1>1 DEF Signal, Id
<1>4. is(signals[1], "out", id)
  BY <1>2 DEF is
<1> HIDE DEF s, id
<1>5. Tidy(ui'.combo) /\ \A d \in Id : inCombo(ui'.combo, d) <=> inCombo(ui.combo, d) /\ d # id
  <2>1. CASE indexOf(ui.combo, id) = 0 /\ ui'.combo = ui.combo
    <3>1. ~inCombo(ui.combo, id)
      BY <1>1, <2>1, IndexOf DEF inCombo
    <3> QED
      BY <1>1, <2>1, <3>1
  <2>2. CASE /\ indexOf(ui.combo, id) # 0
             /\ \E r \in removeItem(ui.combo, indexOf(ui.combo, id)) :
                  /\ ui'.combo = mayTooglePlaceholder(r)
                  /\ r.at = 0 /\ Len(r.items) = 1 => "unpicked" \in ui'.slips
    <3>1. PICK r \in removeItem(ui.combo, indexOf(ui.combo, id)) :
                  /\ ui'.combo = mayTooglePlaceholder(r)
                  /\ r.at = 0 /\ Len(r.items) = 1 => "unpicked" \in ui'.slips
      BY <2>2
    <3>2. ~(r.at = 0 /\ Len(r.items) = 1)
      BY <3>1 DEF Fresh
    <3> QED
      BY <1>1, <1>3, <2>2, <3>1, <3>2, TidyRemoved
  <2> QED
    BY <1>1, <2>1, <2>2 DEF UserHandled, s, id
<1>6. \A kind, d : is(signals[1], kind, d) => kind = "out" /\ d = id
  BY <1>4 DEF is
<1>7. Settled'
  <2> SUFFICES ASSUME NEW d \in Id,
                      \A n \in 1..Len(signals') :
                        ~is(signals'[n], "in", d) /\ ~is(signals'[n], "out", d)
               PROVE  inCombo(ui'.combo, d) <=> d \in DOMAIN theirs
    BY <1>1 DEF Settled
  <2>1. \A m \in 1..Len(signals) : m # 1 => ~is(signals[m], "in", d) /\ ~is(signals[m], "out", d)
    BY <1>2
  <2>2. CASE d = id
    <3>1. ~\E m \in 1..Len(signals) : m > 1 /\ is(signals[m], "in", d)
      BY <2>1
    <3>2. d \notin DOMAIN theirs
      BY <1>1, <1>2, <1>4, <2>2, <3>1 DEF Roster, MovesTell
    <3> QED
      BY <1>5, <2>2, <3>2
  <2>3. CASE d # id
    <3>1. \A m \in 1..Len(signals) : ~is(signals[m], "in", d) /\ ~is(signals[m], "out", d)
      BY <1>6, <2>1, <2>3
    <3> QED
      BY <1>1, <1>5, <2>3, <3>1 DEF Settled
  <2> QED
    BY <2>2, <2>3
<1>8. Comers'
  <2> SUFFICES ASSUME NEW n \in 1..Len(signals'), NEW d \in Id, is(signals'[n], "in", d),
                      inCombo(ui'.combo, d)
               PROVE  \E m \in 1..Len(signals') : m < n /\ is(signals'[m], "out", d)
    BY DEF Comers
  <2>1. n + 1 \in 1..Len(signals) /\ is(signals[n + 1], "in", d) /\ n \in Nat
    BY <1>2
  <2>2. d # id /\ inCombo(ui.combo, d)
    BY <1>5
  <2>3. PICK m \in 1..Len(signals) : m < n + 1 /\ is(signals[m], "out", d)
    BY <1>1, <2>1, <2>2 DEF Comers
  <2>4. m # 1
    BY <1>6, <2>2, <2>3
  <2>5. m - 1 \in 1..Len(signals') /\ signals'[m - 1] = signals[m]
    BY <1>2, <2>4
  <2>6. m - 1 < n
    BY <2>1, <2>3
  <2> QED
    BY <2>3, <2>5, <2>6
<1> QED
  BY <1>1, <1>5, <1>7, <1>8

\* A signal that a sheet changed leaves the list as it is.
LEMMA ChangedListing ==
  ASSUME IInv, Roster, HandleSignal, Head(signals).kind = "changed"
  PROVE  Listing'
<1> SUFFICES ASSUME Fresh'
             PROVE  (Tidy(ui.combo) /\ Settled /\ Comers /\ Players)'
  BY DEF Listing
<1> DEFINE s == Head(signals)
           theirs == client.theirs
<1>1. /\ Tidy(ui.combo) /\ Settled /\ Comers /\ Players'
      /\ UserHandled(s) /\ client' = client
      /\ signals # <<>> /\ signals' = Tail(signals) /\ Sound(ui.combo)
  BY ListedBefore, StartFacts
<1>2. /\ signals[1] = s /\ 1 \in 1..Len(signals) /\ Len(signals) \in Nat
      /\ \A n \in 1..Len(signals') : n + 1 \in 1..Len(signals) /\ signals'[n] = signals[n + 1]
      /\ \A m \in 1..Len(signals) :
           m # 1 => m - 1 \in 1..Len(signals') /\ signals'[m - 1] = signals[m]
  BY <1>1, Shifted
<1>3. \A d : ~is(signals[1], "in", d) /\ ~is(signals[1], "out", d)
  BY <1>2 DEF is
<1>4. ui'.combo = ui.combo
  BY <1>1 DEF UserHandled
<1> HIDE DEF s
<1>5. Settled'
  <2> SUFFICES ASSUME NEW d \in Id,
                      \A n \in 1..Len(signals') :
                        ~is(signals'[n], "in", d) /\ ~is(signals'[n], "out", d)
               PROVE  inCombo(ui.combo, d) <=> d \in DOMAIN theirs
    BY <1>1, <1>4 DEF Settled
  <2>1. \A m \in 1..Len(signals) : ~is(signals[m], "in", d) /\ ~is(signals[m], "out", d)
    BY <1>2, <1>3
  <2> QED
    BY <1>1, <2>1 DEF Settled
<1>6. Comers'
  <2> SUFFICES ASSUME NEW n \in 1..Len(signals'), NEW d \in Id, is(signals'[n], "in", d),
                      inCombo(ui.combo, d)
               PROVE  \E m \in 1..Len(signals') : m < n /\ is(signals'[m], "out", d)
    BY <1>4 DEF Comers
  <2>1. n + 1 \in 1..Len(signals) /\ is(signals[n + 1], "in", d) /\ n \in Nat
    BY <1>2
  <2>2. PICK m \in 1..Len(signals) : m < n + 1 /\ is(signals[m], "out", d)
    BY <1>1, <2>1 DEF Comers
  <2>3. m # 1
    BY <1>3, <2>2
  <2>4. m - 1 \in 1..Len(signals') /\ signals'[m - 1] = signals[m]
    BY <1>2, <2>3
  <2>5. m - 1 < n
    BY <2>1, <2>2
  <2> QED
    BY <2>2, <2>4, <2>5
<1> QED
  BY <1>1, <1>4, <1>5, <1>6

\* The first signal is handled.
LEMMA HandledRoster ==
  ASSUME IInv, Roster, HandleSignal
  PROVE  Roster'
<1>1. (Sessions /\ LastTells /\ MovesTell /\ Alternate)'
  BY ShiftedRoster DEF HandleSignal
<1>2. Head(signals).kind \in {"session", "in", "out", "changed"}
  <2>1. Head(signals) \in Signal
    <3>1. signals # <<>> /\ signals' = Tail(signals)
      BY DEF HandleSignal
    <3> QED
      BY <3>1, Shifted
  <2> QED
    BY <2>1 DEF Signal
<1>3. Listing'
  BY <1>2, SessionListing, InListing, OutListing, ChangedListing
<1> QED
  BY <1>1, <1>3 DEF Roster

LEMMA RosterInit == Init => Roster
<1> SUFFICES ASSUME Init
             PROVE  Roster
  OBVIOUS
<1>1. ~client.synced /\ \A n \in 1..Len(signals) : FALSE
  BY NoClientFacts DEF Init
<1> QED
  BY <1>1 DEF Roster, Sessions, LastTells, MovesTell, Alternate, Listing, Fresh

\* Every step keeps the roster.
LEMMA RosterNext == IInv /\ Roster /\ [Next]_vars => Roster'
<1> SUFFICES ASSUME IInv, Roster, [Next]_vars
             PROVE  Roster'
  OBVIOUS
<1>1. ASSUME UserStep
      PROVE  Quiet
  BY <1>1, PickInv, SaveInv, WriteTabsInv, AddRowInv, PickInventoryInv, AddInventoryInv,
     AddCharacterInv, AskDeleteCharacterInv, AskDeleteInventoryInv, AskMoveInv,
     AskRemoveRowsInv, CancelInv, DeleteCharacterInv, DeleteInventoryInv, RemoveRowsInv,
     MoveItemsInv, SplitItemInv DEF UserStep
<1>2. CASE UserStep
  BY <1>1, <1>2, QuietRoster
<1>3. ASSUME NEW c \in DOMAIN ui.db \cup {NoId}, Connect(c)
      PROVE  Roster'
  BY <1>3, ConnectRoster
<1>4. CASE Disconnect
  BY <1>4, DisconnectRoster
<1>5. CASE Quit
  BY <1>5, RestartRoster DEF Quit, restart
<1>6. CASE Crash
  BY <1>6, RestartRoster DEF Crash, restart
<1>7. CASE ClientStep
  BY <1>7, GameSessionSyncRoster, UserInRoster, UserOutRoster, UserDataChangedRoster,
     NotifyRoster DEF ClientStep
<1>8. CASE HandleSignal
  BY <1>8, HandledRoster
<1>9. CASE UNCHANGED vars
  BY <1>9, QuietRoster DEF vars, Quiet, Keeps
<1> QED
  BY <1>2, <1>3, <1>4, <1>5, <1>6, <1>7, <1>8, <1>9 DEF Next

\* Once the signals are handled, the list to pick from and the list of players have each
\* character of the session once.
THEOREM PickerAlwaysListsPlayers == Spec => []PickerListsPlayers
<1>1. IInv /\ Roster => PickerListsPlayers
  <2> DEFINE c == ui.combo
             theirs == client.theirs
             me == client.me
             mine(d) == item(d, IF d = me THEN "Local" ELSE "Remote")
  <2> SUFFICES ASSUME IInv, Roster, client.synced, signals = <<>>,
                      ui.slips \cap {"late", "raced", "unpicked"} = {}
               PROVE  /\ listed = theirs
                      /\ ToSet(c.items) =
                           IF listed = Nobody THEN {Placeholder}
                           ELSE {mine(d) : d \in DOMAIN listed}
                      /\ IsInjective(c.items)
    BY DEF PickerListsPlayers
  <2>1. \A n \in 1..Len(signals) : FALSE
    OBVIOUS
  <2>2. Tidy(c) /\ Settled /\ Players
    BY <2>1 DEF Roster, Listing, Fresh
  <2>3. \A d \in Id : (inCombo(c, d) <=> d \in DOMAIN theirs) /\ agrees(listed, theirs, d)
    BY <2>1, <2>2 DEF Settled, Players
  <2>4. listed = theirs
    <3>1. listed \in Sheets(Id) /\ theirs \in Sheets(Id)
      BY StartFacts DEF ClientOk, Client
    <3> HIDE DEF theirs
    <3>2. /\ DOMAIN listed \subseteq Id /\ listed \in [DOMAIN listed -> Sheet]
          /\ DOMAIN theirs \subseteq Id /\ theirs \in [DOMAIN theirs -> Sheet]
      BY <3>1, SheetsType
    <3>3. DOMAIN listed = DOMAIN theirs /\ \A d \in DOMAIN listed : listed[d] = theirs[d]
      BY <2>3, <3>2 DEF agrees
    <3> QED
      BY <3>2, <3>3
  <2>5. DOMAIN theirs \subseteq Id /\ NoId \notin Id /\ me \notin Remote /\ me \in Local \cup {NoId}
        /\ (theirs = Nobody <=> DOMAIN theirs = {})
    <3>1. theirs \in Sheets(Id) /\ me \in Local \cup {NoId}
      BY StartFacts DEF ClientOk, Client
    <3> HIDE DEF theirs, me
    <3> QED
      BY <3>1, SheetsType, IdsAssumption DEF Id, Nobody
  <2>6. /\ Sound(c) /\ DOMAIN c.items = 1..Len(c.items) /\ Len(c.items) \in Nat
        /\ Len(c.items) # 0 /\ \A k \in 1..Len(c.items) : c.items[k] \in Entry
    BY <2>2, StartFacts, ComboTypes, NoElements DEF Tidy
  <2>7. ToSet(c.items) = {c.items[k] : k \in 1..Len(c.items)}
    BY <2>6 DEF ToSet
  <2>8. IsInjective(c.items)
    BY <2>2, <2>6 DEF IsInjective, Tidy
  <2>9. ASSUME NEW k \in 1..Len(c.items), c.items[k].id # NoId
        PROVE  c.items[k] = mine(c.items[k].id) /\ c.items[k].id \in DOMAIN theirs
    <3> DEFINE e == c.items[k]
    <3>1. e \in Entry /\ Lists(c, e)
      BY <2>6 DEF Lists
    <3>2. e.id \in Id
      BY <2>9, <3>1, EntryFacts
    <3>3. e.id \in DOMAIN theirs
      BY <2>3, <3>2 DEF inCombo
    <3>4. e.origin = "Local" => e.id = me
      <4>1. OwnCombo(c, client)
        BY StartFacts DEF ClientOk
      <4> HIDE DEF c, e
      <4> QED
        BY <3>1, <4>1 DEF OwnCombo, me
    <3>5. \/ e.origin = "Local" /\ e = item(e.id, "Local")
          \/ e.origin = "Remote" /\ e = item(e.id, "Remote") /\ e.id \in Remote
      <4> HIDE DEF e
      <4>1. e # Placeholder
        BY <2>9, PlaceholderType DEF e
      <4> QED
        BY <3>1, <4>1, EntryFacts DEF Origin
    <3> HIDE DEF e
    <3> QED
      BY <2>5, <3>3, <3>4, <3>5 DEF e
  <2>10. CASE DOMAIN theirs = {}
    <3>1. \A k \in 1..Len(c.items) : c.items[k] = Placeholder
      BY <2>6, <2>9, <2>10, EntryFacts
    <3>2. 1 \in 1..Len(c.items)
      BY <2>6
    <3>3. ToSet(c.items) = {Placeholder}
      BY <2>7, <3>1, <3>2
    <3> QED
      BY <2>4, <2>5, <2>8, <2>10, <3>3
  <2>11. CASE DOMAIN theirs # {}
    <3>1. \A d \in DOMAIN theirs : \E k \in 1..Len(c.items) : c.items[k].id = d
      BY <2>3, <2>5 DEF inCombo
    <3>2. \A k \in 1..Len(c.items) : c.items[k].id # NoId
      <4>1. PICK d \in DOMAIN theirs : d # NoId
        BY <2>5, <2>11
      <4>2. PICK j \in 1..Len(c.items) : c.items[j].id = d
        BY <3>1
      <4>3. ASSUME NEW k \in 1..Len(c.items), c.items[k].id = NoId
            PROVE  FALSE
        <5>1. Len(c.items) = 1
          BY <2>2, <4>3 DEF Tidy
        <5>2. j = k
          BY <5>1
        <5> QED
          BY <4>1, <4>2, <4>3, <5>2
      <4> QED
        BY <4>3
    <3>3. \A k \in 1..Len(c.items) :
            c.items[k] = mine(c.items[k].id) /\ c.items[k].id \in DOMAIN theirs
      BY <2>9, <3>2
    <3> HIDE DEF mine, c, theirs
    <3>4. {c.items[k] : k \in 1..Len(c.items)} \subseteq {mine(d) : d \in DOMAIN theirs}
      BY <3>3
    <3>5. {mine(d) : d \in DOMAIN theirs} \subseteq {c.items[k] : k \in 1..Len(c.items)}
      BY <3>1, <3>3
    <3>6. ToSet(c.items) = {mine(d) : d \in DOMAIN theirs}
      BY <2>7, <3>4, <3>5
    <3> QED
      BY <2>4, <2>5, <2>8, <2>11, <3>6
  <2> QED
    BY <2>10, <2>11
<1>2. Spec => []Roster
  BY InitInv, NextInv, RosterInit, RosterNext, PTL DEF Spec
<1> QED
  BY <1>1, <1>2, SheetsConsistent, PTL
=============================================================================
