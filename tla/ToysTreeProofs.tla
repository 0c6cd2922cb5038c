--------------------------- MODULE ToysTreeProofs ---------------------------
(***************************************************************************)
(* Each asset is in one folder and has its file, for any assets, names and *)
(* folders, and in whatever order folders that run into each other are     *)
(* rerouted: the theorem AssetsAlwaysStored.                               *)
(***************************************************************************)
EXTENDS ToysTree, SequenceTheorems, FiniteSetTheorems, TLAPS

---------------------------------------------------------------------------
(* Induction and folds *)

\* Induction, on a set rather than on a predicate: a least number out of the set would have
\* one before it, and so its finitely many predecessors would be mapped onto themselves.
LEMMA Induction ==
  ASSUME NEW S, 0 \in S, \A n \in Nat : n \in S => n + 1 \in S
  PROVE  Nat \subseteq S
<1> SUFFICES ASSUME NEW k \in Nat, k \notin S
             PROVE  FALSE
  OBVIOUS
<1> DEFINE T == {n \in 0..k : n \notin S}
           f == [n \in T |-> n - 1]
<1>1. IsFiniteSet(T)
  <2>1. IsFiniteSet(0..k)
    BY FS_Interval
  <2>2. T \in SUBSET (0..k)
    OBVIOUS
  <2> QED
    BY <2>1, <2>2, FS_Subset
<1>2. \A n \in T : n \in Nat /\ n - 1 \in T
  <2> TAKE n \in T
  <2>1. n \in Nat /\ n # 0
    OBVIOUS
  <2>2. n - 1 \in Nat /\ (n - 1) + 1 = n
    BY <2>1
  <2>3. n - 1 \notin S
    BY <2>2
  <2> QED
    BY <2>1, <2>2, <2>3
<1>3. f \in Injection(T, T)
  <2>1. f \in [T -> T]
    BY <1>2
  <2>2. \A a, b \in T : f[a] = f[b] => a = b
    BY <1>2
  <2> QED
    BY <2>1, <2>2 DEF Injection, IsInjective
<1>4. f \in Surjection(T, T)
  BY <1>1, <1>3, FS_Injection
<1>5. k \in T
  OBVIOUS
<1>6. PICK n \in T : f[n] = k
  BY <1>4, <1>5 DEF Surjection
<1> QED
  BY <1>2, <1>6

\* SetToSeq: each element of a finite set once.
LEMMA Enumerated ==
  ASSUME NEW S, IsFiniteSet(S)
  PROVE  /\ Cardinality(S) \in Nat
         /\ SetToSeq(S) \in [1..Cardinality(S) -> S]
         /\ \A i, j \in 1..Cardinality(S) : SetToSeq(S)[i] = SetToSeq(S)[j] => i = j
         /\ \A x \in S : \E i \in 1..Cardinality(S) : SetToSeq(S)[i] = x
<1> DEFINE n == Cardinality(S)
<1>1. n \in Nat /\ ExistsBijection(1..n, S)
  BY FS_CardinalityType
<1>2. \E f \in [1..n -> S] : IsInjective(f)
  BY <1>1 DEF ExistsBijection, Bijection, Injection
<1>3. SetToSeq(S) \in [1..n -> S] /\ IsInjective(SetToSeq(S))
  BY <1>2 DEF SetToSeq
<1>4. SetToSeq(S) \in Surjection(1..n, S)
  <2>1. IsFiniteSet(1..n) /\ Cardinality(1..n) = n
    BY <1>1, FS_Interval
  <2>2. SetToSeq(S) \in Injection(1..n, S)
    BY <1>3 DEF Injection
  <2> QED
    BY <2>1, <2>2, FS_Injection
<1> QED
  BY <1>1, <1>3, <1>4 DEF Surjection, IsInjective

\* The last of the first numbers.
LEMMA LastOfFirst ==
  ASSUME NEW n \in Nat, NEW s \in SUBSET (1..(n + 1))
  PROVE  /\ n + 1 \in s => Max(s) = n + 1 /\ s \ {n + 1} \in SUBSET (1..n)
         /\ n + 1 \notin s => s \in SUBSET (1..n)
<1>1. ASSUME n + 1 \in s
      PROVE  Max(s) = n + 1
  <2>1. \A y \in s : n + 1 >= y
    OBVIOUS
  <2>2. \A x \in s : (\A y \in s : x >= y) => x = n + 1
    BY <1>1
  <2> QED
    BY <1>1, <2>1, <2>2 DEF Max
<1> QED
  BY <1>1

LEMMA LastOf ==
  ASSUME NEW n \in Nat, NEW s \in SUBSET (1..n), s # {}
  PROVE  Max(s) \in s
<1> DEFINE S == {k \in Nat : \A t \in SUBSET (1..k) : t # {} => Max(t) \in t}
<1>1. 0 \in S
  <2>1. 1..0 = {}
    OBVIOUS
  <2> QED
    BY <2>1
<1>2. ASSUME NEW k \in Nat, k \in S
      PROVE  k + 1 \in S
  <2> SUFFICES ASSUME NEW t \in SUBSET (1..(k + 1)), t # {}
               PROVE  Max(t) \in t
    OBVIOUS
  <2>1. CASE k + 1 \in t
    BY <2>1, LastOfFirst
  <2>2. CASE k + 1 \notin t
    BY <1>2, <2>2, LastOfFirst
  <2> QED
    BY <2>1, <2>2
<1>3. n \in S
  <2> HIDE DEF S
  <2> QED
    BY <1>1, <1>2, Induction
<1> QED
  BY <1>3

\* f is what a fold makes of each set of numbers: step[i] makes what is next of what is
\* before the i-th.
IsFold(f, k, V, base, step) ==
  /\ f \in [SUBSET (1..k) -> V]
  /\ \A s \in SUBSET (1..k) : f[s] = IF s = {} THEN base ELSE step[Max(s)][f[s \ {Max(s)}]]

\* The function that a fold computes is defined.
LEMMA Folds ==
  ASSUME NEW V, NEW n \in Nat, NEW base \in V, NEW step \in [1..n -> [V -> V]]
  PROVE  \E f : IsFold(f, n, V, base, step)
<1> DEFINE S == {k \in Nat : k <= n => \E f : IsFold(f, k, V, base, step)}
<1>1. 0 \in S
  <2>1. 1..0 = {}
    OBVIOUS
  <2>2. IsFold([s \in SUBSET (1..0) |-> base], 0, V, base, step)
    BY <2>1 DEF IsFold
  <2> QED
    BY <2>2
<1>2. ASSUME NEW k \in Nat, k \in S
      PROVE  k + 1 \in S
  <2> SUFFICES ASSUME k + 1 <= n
               PROVE  \E f : IsFold(f, k + 1, V, base, step)
    OBVIOUS
  <2>0. k <= n
    OBVIOUS
  <2>1. PICK f : IsFold(f, k, V, base, step)
    BY <1>2, <2>0
  <2>2. /\ f \in [SUBSET (1..k) -> V]
        /\ \A s \in SUBSET (1..k) :
             f[s] = IF s = {} THEN base ELSE step[Max(s)][f[s \ {Max(s)}]]
    BY <2>1 DEF IsFold
  <2> DEFINE g == [s \in SUBSET (1..(k + 1)) |->
                     IF k + 1 \in s THEN step[k + 1][f[s \ {k + 1}]] ELSE f[s]]
  <2>3. g \in [SUBSET (1..(k + 1)) -> V]
    <3> SUFFICES ASSUME NEW s \in SUBSET (1..(k + 1))
                 PROVE  (IF k + 1 \in s THEN step[k + 1][f[s \ {k + 1}]] ELSE f[s]) \in V
      OBVIOUS
    <3>1. CASE k + 1 \in s
      <4>1. f[s \ {k + 1}] \in V /\ step[k + 1] \in [V -> V]
        BY <2>2, <3>1, LastOfFirst
      <4> QED
        BY <3>1, <4>1
    <3>2. CASE k + 1 \notin s
      BY <2>2, <3>2, LastOfFirst
    <3> QED
      BY <3>1, <3>2
  <2>4. ASSUME NEW s \in SUBSET (1..(k + 1))
        PROVE  g[s] = IF s = {} THEN base ELSE step[Max(s)][g[s \ {Max(s)}]]
    <3>1. CASE k + 1 \in s
      <4>1. Max(s) = k + 1 /\ s \ {k + 1} \in SUBSET (1..k) /\ s # {}
        BY <3>1, LastOfFirst
      <4>2. g[s] = step[k + 1][f[s \ {k + 1}]] /\ g[s \ {k + 1}] = f[s \ {k + 1}]
        BY <3>1, <4>1
      <4> QED
        BY <4>1, <4>2
    <3>2. CASE k + 1 \notin s
      <4>1. s \in SUBSET (1..k)
        BY <3>2, LastOfFirst
      <4>2. g[s] = f[s] /\ g[s \ {Max(s)}] = f[s \ {Max(s)}]
        BY <3>2
      <4>3. f[s] = IF s = {} THEN base ELSE step[Max(s)][f[s \ {Max(s)}]]
        BY <2>2, <4>1
      <4> QED
        BY <4>2, <4>3
    <3> QED
      BY <3>1, <3>2
  <2> HIDE DEF g
  <2> QED
    BY <2>3, <2>4 DEF IsFold
<1>3. n \in S
  <2> HIDE DEF S
  <2> QED
    BY <1>1, <1>2, Induction
<1> QED
  BY <1>3

\* What a fold does over the first numbers, one after the other.
LEMMA FoldsOver ==
  ASSUME NEW V, NEW n \in Nat, NEW f, f[{}] \in V,
         \A k \in 1..n : f[(1..k) \ {Max(1..k)}] \in V => f[1..k] \in V
  PROVE  f[1..n] \in V
<1> DEFINE S == {k \in Nat : k <= n => f[1..k] \in V}
<1>1. 0 \in S
  <2>1. 1..0 = {}
    OBVIOUS
  <2> QED
    BY <2>1
<1>2. ASSUME NEW k \in Nat, k \in S
      PROVE  k + 1 \in S
  <2> SUFFICES ASSUME k + 1 <= n
               PROVE  f[1..(k + 1)] \in V
    OBVIOUS
  <2>1. Max(1..(k + 1)) = k + 1 /\ (1..(k + 1)) \ {k + 1} = 1..k
    BY LastOfFirst
  <2>2. k + 1 \in 1..n /\ f[1..k] \in V
    BY <1>2
  <2>3. f[(1..(k + 1)) \ {Max(1..(k + 1))}] \in V
    BY <2>1, <2>2
  <2> QED
    BY <2>2, <2>3
<1>3. n \in S
  <2> HIDE DEF S
  <2> QED
    BY <1>1, <1>2, Induction
<1> QED
  BY <1>3

---------------------------------------------------------------------------
(* Tables *)

Partial(A, B) == UNION {[D -> B] : D \in SUBSET A}

LEMMA PartialFacts ==
  ASSUME NEW A, NEW B, NEW f
  PROVE  f \in Partial(A, B) <=> /\ DOMAIN f \subseteq A
                                 /\ f = [x \in DOMAIN f |-> f[x]]
                                 /\ \A x \in DOMAIN f : f[x] \in B
<1>1. ASSUME f \in Partial(A, B)
      PROVE  /\ DOMAIN f \subseteq A
             /\ f = [x \in DOMAIN f |-> f[x]]
             /\ \A x \in DOMAIN f : f[x] \in B
  <2>1. PICK D \in SUBSET A : f \in [D -> B]
    BY <1>1 DEF Partial
  <2> QED
    BY <2>1
<1>2. ASSUME DOMAIN f \subseteq A, f = [x \in DOMAIN f |-> f[x]], \A x \in DOMAIN f : f[x] \in B
      PROVE  f \in Partial(A, B)
  <2>1. f \in [DOMAIN f -> B]
    BY <1>2
  <2> QED
    BY <1>2, <2>1 DEF Partial
<1> QED
  BY <1>1, <1>2

Rooted(p) == Len(p) >= 1 /\ \E c \in Container : p[1] = <<c>>
Path == {p \in FolderPath : Rooted(p)}

Folding == Partial(Path, SUBSET Hash)
Linking == Partial(Hash, Path)

LEMMA FoldingFacts ==
  ASSUME NEW f \in Folding
  PROVE  DOMAIN f \subseteq Path /\ \A p \in DOMAIN f : f[p] \subseteq Hash
BY PartialFacts DEF Folding

LEMMA LinkingFacts ==
  ASSUME NEW f \in Linking
  PROVE  DOMAIN f \subseteq Hash /\ \A h \in DOMAIN f : f[h] \in Path
BY PartialFacts DEF Linking

LEMMA FolderInserted ==
  ASSUME NEW f \in Folding, NEW p \in Path, NEW H, H \subseteq Hash
  PROVE  /\ insert(f, {p}, H) \in Folding
         /\ DOMAIN insert(f, {p}, H) = DOMAIN f \cup {p}
         /\ insert(f, {p}, H)[p] = H
         /\ \A q \in DOMAIN f : q # p => insert(f, {p}, H)[q] = f[q]
<1>1. DOMAIN f \subseteq Path /\ \A x \in DOMAIN f : f[x] \in SUBSET Hash
  BY FoldingFacts
<1>2. insert(f, {p}, H) = [x \in DOMAIN f \cup {p} |-> IF x \in {p} THEN H ELSE f[x]]
  BY DEF insert
<1>3. insert(f, {p}, H) \in [DOMAIN f \cup {p} -> SUBSET Hash] /\ DOMAIN f \cup {p} \in SUBSET Path
  BY <1>1, <1>2
<1> QED
  BY <1>2, <1>3 DEF Folding, Partial

LEMMA FoldersWithout ==
  ASSUME NEW f \in Folding, NEW P
  PROVE  /\ Without(f, P) \in Folding
         /\ DOMAIN Without(f, P) = DOMAIN f \ P
         /\ \A q \in DOMAIN f : q \notin P => Without(f, P)[q] = f[q]
<1>1. DOMAIN f \subseteq Path /\ \A x \in DOMAIN f : f[x] \in SUBSET Hash
  BY FoldingFacts
<1>2. Without(f, P) = [x \in DOMAIN f \ P |-> f[x]]
  BY DEF Without
<1>3. Without(f, P) \in [DOMAIN f \ P -> SUBSET Hash] /\ DOMAIN f \ P \in SUBSET Path
  BY <1>1, <1>2
<1> QED
  BY <1>2, <1>3 DEF Folding, Partial

LEMMA LinksInserted ==
  ASSUME NEW f \in Linking, NEW p \in Path, NEW H, H \subseteq Hash
  PROVE  /\ insert(f, H, p) \in Linking
         /\ DOMAIN insert(f, H, p) = DOMAIN f \cup H
         /\ \A h \in H : insert(f, H, p)[h] = p
         /\ \A h \in DOMAIN f : h \notin H => insert(f, H, p)[h] = f[h]
<1>1. DOMAIN f \subseteq Hash /\ \A x \in DOMAIN f : f[x] \in Path
  BY LinkingFacts
<1>2. insert(f, H, p) = [x \in DOMAIN f \cup H |-> IF x \in H THEN p ELSE f[x]]
  BY DEF insert
<1>3. insert(f, H, p) \in [DOMAIN f \cup H -> Path] /\ DOMAIN f \cup H \in SUBSET Hash
  BY <1>1, <1>2
<1> QED
  BY <1>2, <1>3 DEF Linking, Partial

LEMMA LinksWithout ==
  ASSUME NEW f \in Linking, NEW H
  PROVE  /\ Without(f, H) \in Linking
         /\ DOMAIN Without(f, H) = DOMAIN f \ H
         /\ \A h \in DOMAIN f : h \notin H => Without(f, H)[h] = f[h]
<1>1. DOMAIN f \subseteq Hash /\ \A x \in DOMAIN f : f[x] \in Path
  BY LinkingFacts
<1>2. Without(f, H) = [x \in DOMAIN f \ H |-> f[x]]
  BY DEF Without
<1>3. Without(f, H) \in [DOMAIN f \ H -> Path] /\ DOMAIN f \ H \in SUBSET Hash
  BY <1>1, <1>2
<1> QED
  BY <1>2, <1>3 DEF Linking, Partial

\* The three tables, well typed and finite.
Tables ==
  {d \in [paths : Folding, assets : SUBSET Hash, assetToPath : Linking] :
     IsFiniteSet(DOMAIN d.paths) /\ IsFiniteSet(d.assets)}

TidyTables == {d \in Tables : EachInOneFolder(d)}

LEMMA TableFacts ==
  ASSUME NEW d \in Tables
  PROVE  /\ d = [paths |-> d.paths, assets |-> d.assets, assetToPath |-> d.assetToPath]
         /\ d.paths \in Folding /\ d.assetToPath \in Linking
         /\ DOMAIN d.paths \in SUBSET Path /\ DOMAIN d.assetToPath \in SUBSET Hash
         /\ \A p \in DOMAIN d.paths : d.paths[p] \in SUBSET Hash
         /\ \A h \in DOMAIN d.assetToPath : d.assetToPath[h] \in Path
         /\ d.assets \in SUBSET Hash
         /\ IsFiniteSet(DOMAIN d.paths) /\ IsFiniteSet(d.assets)
<1>1. /\ d = [paths |-> d.paths, assets |-> d.assets, assetToPath |-> d.assetToPath]
      /\ d.paths \in Folding /\ d.assetToPath \in Linking
      /\ d.assets \in SUBSET Hash
      /\ IsFiniteSet(DOMAIN d.paths) /\ IsFiniteSet(d.assets)
  BY DEF Tables
<1>2. DOMAIN d.paths \subseteq Path /\ \A p \in DOMAIN d.paths : d.paths[p] \in SUBSET Hash
  BY <1>1, FoldingFacts
<1>3. /\ DOMAIN d.assetToPath \subseteq Hash
      /\ \A h \in DOMAIN d.assetToPath : d.assetToPath[h] \in Path
  BY <1>1, LinkingFacts
<1> QED
  BY <1>1, <1>2, <1>3

LEMMA ContentTyped ==
  ASSUME NEW d \in Tables, NEW p
  PROVE  contentOf(d, p) \in SUBSET Hash
BY TableFacts DEF contentOf

\* One path is rerouted to any other.
rerouted(d, old, new) ==
  LET w == Without(d.paths, {old}) IN
  [paths |-> insert(w, {new}, contentOf(d, old) \cup IF new \in DOMAIN w THEN w[new] ELSE {}),
   assets |-> d.assets,
   assetToPath |-> insert(d.assetToPath, contentOf(d, old), new)]

LEMMA Rerouted ==
  ASSUME NEW d \in Tables, NEW a, NEW r, NEW old
  PROVE  reroute(d, a, r, old) = rerouted(d, old, replace(old, a, r))
<1> DEFINE w == Without(d.paths, {old})
           left == [d EXCEPT !.paths = Without(@, {old})]
           new == replace(old, a, r)
           hashes == contentOf(d, old)
           all == hashes \cup contentOf(left, new)
<1>1. d = [paths |-> d.paths, assets |-> d.assets, assetToPath |-> d.assetToPath]
  BY TableFacts
<1>2. left = [paths |-> w, assets |-> d.assets, assetToPath |-> d.assetToPath]
  BY <1>1
<1>3. contentOf(left, new) = IF new \in DOMAIN w THEN w[new] ELSE {}
  BY <1>2 DEF contentOf
<1>4. reroute(d, a, r, old) = [left EXCEPT !.paths = insert(@, {new}, all),
                                           !.assetToPath = insert(@, hashes, new)]
  BY DEF reroute
<1> HIDE DEF left
<1>5. reroute(d, a, r, old) = [paths |-> insert(w, {new}, all), assets |-> d.assets,
                               assetToPath |-> insert(d.assetToPath, hashes, new)]
  BY <1>2, <1>4
<1> QED
  BY <1>3, <1>5 DEF rerouted

LEMMA ReroutedTyped ==
  ASSUME NEW d \in Tables, NEW old, NEW new \in Path
  PROVE  rerouted(d, old, new) \in Tables
<1> DEFINE w == Without(d.paths, {old})
           hashes == contentOf(d, old)
           more == IF new \in DOMAIN w THEN w[new] ELSE {}
<1>1. /\ w \in Folding /\ DOMAIN w = DOMAIN d.paths \ {old}
      /\ \A p \in DOMAIN w : w[p] \in SUBSET Hash
  BY TableFacts, FoldersWithout, FoldingFacts
<1>2. hashes \in SUBSET Hash
  BY ContentTyped
<1>3. more = IF new \in DOMAIN w THEN w[new] ELSE {}
  OBVIOUS
<1>4. hashes \cup more \in SUBSET Hash
  BY <1>1, <1>2, <1>3
<1>5. rerouted(d, old, new) = [paths |-> insert(w, {new}, hashes \cup more), assets |-> d.assets,
                               assetToPath |-> insert(d.assetToPath, hashes, new)]
  BY DEF rerouted
<1> HIDE DEF w, hashes, more
<1>6. /\ insert(w, {new}, hashes \cup more) \in Folding
      /\ DOMAIN insert(w, {new}, hashes \cup more) = DOMAIN w \cup {new}
  BY <1>1, <1>4, FolderInserted
<1>7. insert(d.assetToPath, hashes, new) \in Linking
  BY <1>2, TableFacts, LinksInserted
<1>8. IsFiniteSet(DOMAIN w \cup {new})
  <2>1. IsFiniteSet(DOMAIN d.paths)
    BY TableFacts
  <2>2. IsFiniteSet(DOMAIN w)
    BY <1>1, <2>1, FS_RemoveElement
  <2> QED
    BY <2>2, FS_AddElement
<1> QED
  BY <1>5, <1>6, <1>7, <1>8, TableFacts DEF Tables

\* No asset is lost, nor left behind, nor told to be where it was.
LEMMA ReroutedTidy ==
  ASSUME NEW d \in TidyTables, NEW old, NEW new \in Path
  PROVE  rerouted(d, old, new) \in TidyTables /\ rerouted(d, old, new).assets = d.assets
<1> DEFINE w == Without(d.paths, {old})
           hashes == contentOf(d, old)
           more == IF new \in DOMAIN w THEN w[new] ELSE {}
           e == rerouted(d, old, new)
<1>0. d \in Tables
  BY DEF TidyTables
<1>a. /\ DOMAIN d.assetToPath = d.assets
      /\ \A h \in d.assets : d.assetToPath[h] \in DOMAIN d.paths
      /\ \A p \in DOMAIN d.paths : d.paths[p] = {h \in d.assets : d.assetToPath[h] = p}
  BY DEF TidyTables, EachInOneFolder
<1>1. /\ w \in Folding /\ DOMAIN w = DOMAIN d.paths \ {old}
      /\ \A p \in DOMAIN w : w[p] = d.paths[p] /\ w[p] \in SUBSET Hash
  <2>1. d.paths \in Folding /\ \A p \in DOMAIN d.paths : d.paths[p] \in SUBSET Hash
    BY <1>0, TableFacts
  <2>2. w \in Folding /\ DOMAIN w = DOMAIN d.paths \ {old}
    BY <2>1, FoldersWithout
  <2>3. ASSUME NEW p \in DOMAIN w
        PROVE  w[p] = d.paths[p]
    <3>1. p \in DOMAIN d.paths /\ p \notin {old}
      BY <2>2
    <3> QED
      BY <3>1 DEF Without
  <2> QED
    BY <2>1, <2>2, <2>3
<1>2. hashes \in SUBSET Hash
  BY <1>0, ContentTyped
<1>3. more = IF new \in DOMAIN w THEN w[new] ELSE {}
  OBVIOUS
<1>4. hashes \cup more \in SUBSET Hash
  BY <1>1, <1>2, <1>3
<1>5. /\ e.paths = insert(w, {new}, hashes \cup more)
      /\ e.assets = d.assets
      /\ e.assetToPath = insert(d.assetToPath, hashes, new)
  BY DEF rerouted
<1>b. hashes = {h \in d.assets : d.assetToPath[h] = old}
  BY <1>a DEF contentOf
<1> HIDE DEF w, hashes, more, e
<1>6. /\ DOMAIN e.paths = DOMAIN w \cup {new}
      /\ e.paths[new] = hashes \cup more
      /\ \A p \in DOMAIN w : p # new => e.paths[p] = w[p]
  <2>1. hashes \cup more \subseteq Hash /\ w \in Folding
    BY <1>1, <1>4
  <2>2. e.paths = insert(w, {new}, hashes \cup more)
    BY <1>5
  <2> QED
    BY <2>2 DEF insert
<1>7. /\ DOMAIN e.assetToPath = d.assets
      /\ \A h \in hashes : e.assetToPath[h] = new
      /\ \A h \in d.assets : h \notin hashes => e.assetToPath[h] = d.assetToPath[h]
  <2>1. hashes \subseteq Hash /\ d.assetToPath \in Linking
    BY <1>0, <1>2, TableFacts
  <2>2. e.assetToPath = insert(d.assetToPath, hashes, new)
    BY <1>5
  <2>3. hashes \subseteq d.assets
    BY <1>b
  <2> QED
    BY <1>a, <2>2, <2>3 DEF insert
<1>8. \A h \in e.assets : e.assetToPath[h] \in DOMAIN e.paths
  BY <1>1, <1>5, <1>6, <1>7, <1>a, <1>b
<1>9. ASSUME NEW p \in DOMAIN e.paths
      PROVE  e.paths[p] = {h \in e.assets : e.assetToPath[h] = p}
  <2>1. CASE p = new
    <3>1. hashes \cup more \subseteq {h \in d.assets : e.assetToPath[h] = new}
      BY <1>1, <1>3, <1>7, <1>a, <1>b
    <3>2. {h \in d.assets : e.assetToPath[h] = new} \subseteq hashes \cup more
      <4> SUFFICES ASSUME NEW h \in d.assets, e.assetToPath[h] = new, h \notin hashes
                   PROVE  h \in more
        OBVIOUS
      <4>1. d.assetToPath[h] = new /\ new # old
        BY <1>7, <1>b
      <4> QED
        BY <4>1, <1>1, <1>3, <1>a
    <3> QED
      BY <2>1, <3>1, <3>2, <1>5, <1>6
  <2>2. CASE p # new
    <3>1. p \in DOMAIN w /\ p # old /\ e.paths[p] = d.paths[p] /\ p \in DOMAIN d.paths
      BY <2>2, <1>1, <1>6
    <3> QED
      BY <3>1, <2>2, <1>5, <1>7, <1>a, <1>b
  <2> QED
    BY <2>1, <2>2
<1>10. EachInOneFolder(e)
  BY <1>5, <1>7, <1>8, <1>9 DEF EachInOneFolder
<1>11. e \in Tables
  BY <1>0, ReroutedTyped DEF e
<1> QED
  BY <1>5, <1>10, <1>11 DEF TidyTables, e

reroutedInOrder(d, a, r, order) == FoldLeft(LAMBDA e, p : reroute(e, a, r, p), d, order)

\* What keeps in V what one path makes of a table of V keeps there what all of them make.
LEMMA RerouteFold ==
  ASSUME NEW V, NEW n \in Nat, NEW order, DOMAIN order = 1..n, NEW d \in V, NEW a, NEW r,
         \A e \in V : \A k \in 1..n : reroute(e, a, r, order[k]) \in V
  PROVE  reroutedInOrder(d, a, r, order) \in V
<1> DEFINE step == [i \in 1..n |-> [e \in V |-> reroute(e, a, r, order[i])]]
           Is(f) == f = [s \in SUBSET (1..n) |->
                           IF s = {} THEN d
                           ELSE reroute(f[s \ {Max(s)}], a, r, order[Max(s)])]
           F == CHOOSE f : Is(f)
<1>1. step \in [1..n -> [V -> V]]
  OBVIOUS
<1>2. \A s \in SUBSET (1..n) : s # {} => Max(s) \in 1..n
  BY LastOf
<1>3. PICK f : IsFold(f, n, V, d, step)
  BY <1>1, Folds
<1>4. Is(f)
  BY <1>2, <1>3 DEF IsFold
<1>5. Is(F)
  BY <1>4
<1>6. reroutedInOrder(d, a, r, order) = F[1..n]
  BY DEF reroutedInOrder, FoldLeft, MapThenFoldSet
<1> HIDE DEF F
<1>7. F[{}] = d
  BY <1>5
<1>8. ASSUME NEW k \in 1..n, F[(1..k) \ {Max(1..k)}] \in V
      PROVE  F[1..k] \in V
  <2>1. (1..k) \in SUBSET (1..n) /\ (1..k) # {} /\ Max(1..k) \in 1..n
    <3>1. (1..k) \in SUBSET (1..n) /\ k \in 1..k
      OBVIOUS
    <3> QED
      BY <1>2, <3>1
  <2>2. F[1..k] = reroute(F[(1..k) \ {Max(1..k)}], a, r, order[Max(1..k)])
    BY <1>5, <2>1
  <2> QED
    BY <1>8, <2>1, <2>2
<1> QED
  BY <1>6, <1>7, <1>8, FoldsOver


---------------------------------------------------------------------------
(* The operations *)

LEMMA ContentTidy ==
  ASSUME NEW d \in TidyTables, NEW p
  PROVE  contentOf(d, p) = {h \in d.assets : d.assetToPath[h] = p}
BY DEF TidyTables, EachInOneFolder, contentOf

LEMMA FolderCreated ==
  ASSUME NEW d \in Tables, NEW p \in Path, p \notin DOMAIN d.paths
  PROVE  /\ createFolderInDb(d, p) \in Tables
         /\ createFolderInDb(d, p).assets = d.assets
         /\ d \in TidyTables => createFolderInDb(d, p) \in TidyTables
<1> DEFINE e == createFolderInDb(d, p)
<1>1. e = [paths |-> insert(d.paths, {p}, {}), assets |-> d.assets, assetToPath |-> d.assetToPath]
  BY TableFacts DEF createFolderInDb
<1>2. insert(d.paths, {p}, {}) \in Folding /\ DOMAIN insert(d.paths, {p}, {}) = DOMAIN d.paths \cup {p}
  BY TableFacts, FolderInserted
<1>3. IsFiniteSet(DOMAIN d.paths \cup {p})
  BY TableFacts, FS_AddElement
<1>4. e \in Tables
  BY <1>1, <1>2, <1>3, TableFacts DEF Tables
<1>5. ASSUME d \in TidyTables
      PROVE  EachInOneFolder(e)
  <2>1. /\ DOMAIN d.assetToPath = d.assets
        /\ \A h \in d.assets : d.assetToPath[h] \in DOMAIN d.paths
        /\ \A q \in DOMAIN d.paths : d.paths[q] = {h \in d.assets : d.assetToPath[h] = q}
    BY <1>5 DEF TidyTables, EachInOneFolder
  <2>2. /\ e.assets = d.assets /\ e.assetToPath = d.assetToPath
        /\ DOMAIN e.paths = DOMAIN d.paths \cup {p}
    BY <1>1, <1>2
  <2>3. e.paths[p] = {} /\ \A q \in DOMAIN d.paths : q # p => e.paths[q] = d.paths[q]
    BY <1>1 DEF insert
  <2> HIDE DEF e
  <2> QED
    BY <2>1, <2>2, <2>3 DEF EachInOneFolder
<1> QED
  BY <1>1, <1>4, <1>5 DEF TidyTables

LEMMA AssetAdded ==
  ASSUME NEW d \in Tables, NEW p \in Path, NEW h \in Hash
  PROVE  /\ addAsset(d, h, p) \in Tables
         /\ addAsset(d, h, p).assets = d.assets \cup {h}
         /\ d \in TidyTables /\ h \notin d.assets => addAsset(d, h, p) \in TidyTables
<1> DEFINE e == addAsset(d, h, p)
           H == contentOf(d, p) \cup {h}
<1>1. e = [paths |-> insert(d.paths, {p}, H), assets |-> d.assets \cup {h},
           assetToPath |-> insert(d.assetToPath, {h}, p)]
  BY DEF addAsset
<1>2. H \subseteq Hash
  BY ContentTyped
<1> HIDE DEF H
<1>3. insert(d.paths, {p}, H) \in Folding /\ DOMAIN insert(d.paths, {p}, H) = DOMAIN d.paths \cup {p}
  BY <1>2, TableFacts, FolderInserted
<1>4. insert(d.assetToPath, {h}, p) \in Linking
  <2>1. d.assetToPath \in Linking /\ {h} \subseteq Hash
    BY TableFacts
  <2> QED
    BY <2>1, LinksInserted
<1>5. IsFiniteSet(DOMAIN d.paths \cup {p}) /\ IsFiniteSet(d.assets \cup {h})
  BY TableFacts, FS_AddElement
<1>6. e \in Tables
  BY <1>1, <1>3, <1>4, <1>5, TableFacts DEF Tables
<1>7. ASSUME d \in TidyTables, h \notin d.assets
      PROVE  EachInOneFolder(e)
  <2>1. /\ DOMAIN d.assetToPath = d.assets
        /\ \A g \in d.assets : d.assetToPath[g] \in DOMAIN d.paths
        /\ \A q \in DOMAIN d.paths : d.paths[q] = {g \in d.assets : d.assetToPath[g] = q}
    BY <1>7 DEF TidyTables, EachInOneFolder
  <2>2. e.assets = d.assets \cup {h} /\ DOMAIN e.paths = DOMAIN d.paths \cup {p}
    BY <1>1, <1>3
  <2>3. e.paths[p] = H /\ \A q \in DOMAIN d.paths : q # p => e.paths[q] = d.paths[q]
    BY <1>1 DEF insert
  <2>4. /\ DOMAIN e.assetToPath = d.assets \cup {h} /\ e.assetToPath[h] = p
        /\ \A g \in d.assets : e.assetToPath[g] = d.assetToPath[g]
    BY <1>1, <1>7, <2>1 DEF insert
  <2>5. H = {g \in d.assets : d.assetToPath[g] = p} \cup {h}
    BY <1>7, ContentTidy DEF H
  <2> HIDE DEF e
  <2>6. \A g \in e.assets : e.assetToPath[g] \in DOMAIN e.paths
    BY <2>1, <2>2, <2>4
  <2>7. ASSUME NEW q \in DOMAIN e.paths
        PROVE  e.paths[q] = {g \in e.assets : e.assetToPath[g] = q}
    <3>1. CASE q = p
      BY <3>1, <2>2, <2>3, <2>4, <2>5
    <3>2. CASE q # p
      BY <3>2, <2>1, <2>2, <2>3, <2>4
    <3> QED
      BY <3>1, <3>2
  <2> QED
    BY <2>2, <2>4, <2>6, <2>7 DEF EachInOneFolder
<1> QED
  BY <1>1, <1>6, <1>7 DEF TidyTables

\* What is left of the folders p and of the links once the assets H are taken out.
LEMMA ReferencesRemoved ==
  ASSUME NEW d \in Tables, NEW H
  PROVE  /\ removeReferences(d, H) \in Tables
         /\ removeReferences(d, H).assets = d.assets
         /\ d \in TidyTables =>
              /\ DOMAIN removeReferences(d, H).paths \subseteq DOMAIN d.paths
              /\ \A p \in DOMAIN removeReferences(d, H).paths :
                   removeReferences(d, H).paths[p] = {h \in d.assets \ H : d.assetToPath[h] = p}
              /\ DOMAIN removeReferences(d, H).assetToPath = d.assets \ H
              /\ \A h \in d.assets \ H :
                   /\ removeReferences(d, H).assetToPath[h] = d.assetToPath[h]
                   /\ d.assetToPath[h] \in DOMAIN removeReferences(d, H).paths
<1> DEFINE linked == {h \in H \cap d.assets : h \in DOMAIN d.assetToPath}
           lost(p) == {h \in linked : d.assetToPath[h] = p}
           emptied == {p \in DOMAIN d.paths : lost(p) # {} /\ d.paths[p] \subseteq lost(p)}
           paths == [p \in DOMAIN d.paths \ emptied |-> d.paths[p] \ lost(p)]
           e == removeReferences(d, H)
<1>1. e = [paths |-> paths, assets |-> d.assets, assetToPath |-> Without(d.assetToPath, linked)]
  <2>1. d = [paths |-> d.paths, assets |-> d.assets, assetToPath |-> d.assetToPath]
    BY TableFacts
  <2>2. e = [d EXCEPT !.paths = paths, !.assetToPath = Without(d.assetToPath, linked)]
    BY DEF removeReferences
  <2> HIDE DEF paths, linked
  <2> QED
    BY <2>1, <2>2
<1> HIDE DEF e
<1>2. paths \in Folding
  <2>1. DOMAIN d.paths \ emptied \in SUBSET Path /\ \A p \in DOMAIN d.paths : d.paths[p] \in SUBSET Hash
    BY TableFacts
  <2>2. paths \in [DOMAIN d.paths \ emptied -> SUBSET Hash]
    BY <2>1
  <2> HIDE DEF paths, emptied
  <2> QED
    BY <2>1, <2>2 DEF Folding, Partial
<1>3. Without(d.assetToPath, linked) \in Linking
  BY TableFacts, LinksWithout
<1>4. DOMAIN paths = DOMAIN d.paths \ emptied
  OBVIOUS
<1>5. IsFiniteSet(DOMAIN paths)
  <2>1. DOMAIN paths \in SUBSET DOMAIN d.paths
    BY <1>4
  <2> QED
    BY <2>1, TableFacts, FS_Subset
<1>6. e \in Tables
  <2> HIDE DEF paths
  <2> QED
    BY <1>1, <1>2, <1>3, <1>5, TableFacts DEF Tables
<1>7. ASSUME d \in TidyTables
      PROVE  /\ DOMAIN e.paths \subseteq DOMAIN d.paths
             /\ \A p \in DOMAIN e.paths : e.paths[p] = {h \in d.assets \ H : d.assetToPath[h] = p}
             /\ DOMAIN e.assetToPath = d.assets \ H
             /\ \A h \in d.assets \ H :
                  /\ e.assetToPath[h] = d.assetToPath[h]
                  /\ d.assetToPath[h] \in DOMAIN e.paths
  <2>1. /\ DOMAIN d.assetToPath = d.assets
        /\ \A h \in d.assets : d.assetToPath[h] \in DOMAIN d.paths
        /\ \A q \in DOMAIN d.paths : d.paths[q] = {h \in d.assets : d.assetToPath[h] = q}
    BY <1>7 DEF TidyTables, EachInOneFolder
  <2>2. linked = H \cap d.assets
    BY <2>1
  <2>3. DOMAIN e.paths \subseteq DOMAIN d.paths
    BY <1>1
  <2>4. \A p \in DOMAIN e.paths : e.paths[p] = {h \in d.assets \ H : d.assetToPath[h] = p}
    <3> TAKE p \in DOMAIN e.paths
    <3>1. p \in DOMAIN d.paths /\ e.paths[p] = d.paths[p] \ lost(p)
      BY <1>1
    <3>2. d.paths[p] = {h \in d.assets : d.assetToPath[h] = p}
      BY <2>1, <3>1
    <3> QED
      BY <2>2, <3>1, <3>2
  <2>5. DOMAIN e.assetToPath = d.assets \ H
    BY <1>1, <2>1, <2>2 DEF Without
  <2>6. ASSUME NEW h \in d.assets \ H
        PROVE  e.assetToPath[h] = d.assetToPath[h] /\ d.assetToPath[h] \in DOMAIN e.paths
    <3>1. e.assetToPath[h] = d.assetToPath[h]
      BY <1>1, <2>1, <2>2 DEF Without
    <3>2. d.assetToPath[h] \in DOMAIN d.paths /\ h \in d.paths[d.assetToPath[h]] /\ h \notin linked
      BY <2>1, <2>2
    <3>3. d.assetToPath[h] \notin emptied
      BY <3>2
    <3> QED
      BY <1>1, <3>1, <3>2, <3>3
  <2> QED
    BY <2>3, <2>4, <2>5, <2>6
<1>8. e.assets = d.assets
  BY <1>1
<1> QED
  <2> HIDE DEF paths, linked, emptied
  <2> QED
    BY <1>6, <1>7, <1>8 DEF e

LEMMA AssetsRemoved ==
  ASSUME NEW d \in Tables, NEW H
  PROVE  /\ removeAssets(d, H) \in Tables
         /\ removeAssets(d, H).assets = d.assets \ H
         /\ d \in TidyTables => removeAssets(d, H) \in TidyTables
<1> DEFINE r == removeReferences(d, H)
           e == removeAssets(d, H)
<1>1. r \in Tables /\ r.assets = d.assets
  BY ReferencesRemoved
<1> HIDE DEF r
<1>2. e = [paths |-> r.paths, assets |-> d.assets \ H, assetToPath |-> r.assetToPath]
  <2>1. r = [paths |-> r.paths, assets |-> d.assets, assetToPath |-> r.assetToPath]
    BY <1>1, TableFacts
  <2>2. e = [r EXCEPT !.assets = r.assets \ H]
    BY DEF removeAssets, r
  <2> QED
    BY <2>1, <2>2, <1>1
<1>3. e \in Tables
  <2>1. IsFiniteSet(d.assets \ H) /\ d.assets \ H \in SUBSET Hash
    BY TableFacts, FS_Subset
  <2> QED
    BY <1>1, <1>2, <2>1, TableFacts DEF Tables
<1>4. ASSUME d \in TidyTables
      PROVE  EachInOneFolder(e)
  <2>1. /\ \A p \in DOMAIN r.paths : r.paths[p] = {h \in d.assets \ H : d.assetToPath[h] = p}
        /\ DOMAIN r.assetToPath = d.assets \ H
        /\ \A h \in d.assets \ H : r.assetToPath[h] = d.assetToPath[h]
        /\ \A h \in d.assets \ H : d.assetToPath[h] \in DOMAIN r.paths
    BY <1>4, ReferencesRemoved DEF r
  <2>2. e.assets = d.assets \ H /\ e.paths = r.paths /\ e.assetToPath = r.assetToPath
    BY <1>2
  <2> HIDE DEF e
  <2> QED
    BY <2>1, <2>2 DEF EachInOneFolder
<1> QED
  BY <1>2, <1>3, <1>4 DEF TidyTables

LEMMA AssetsMoved ==
  ASSUME NEW d \in Tables, NEW p \in Path, NEW H, H \subseteq d.assets
  PROVE  /\ moveAssetsTo(d, p, H) \in Tables
         /\ moveAssetsTo(d, p, H).assets = d.assets
         /\ d \in TidyTables => moveAssetsTo(d, p, H) \in TidyTables
<1> DEFINE r == removeReferences(d, H)
           e == moveAssetsTo(d, p, H)
           G == contentOf(r, p) \cup H
<1>1. r \in Tables /\ r.assets = d.assets
  BY ReferencesRemoved
<1> HIDE DEF r
<1>2. H \subseteq Hash /\ G \subseteq Hash
  BY <1>1, TableFacts, ContentTyped
<1>3. e = [paths |-> insert(r.paths, {p}, G), assets |-> d.assets,
           assetToPath |-> insert(r.assetToPath, H, p)]
  <2> DEFINE X == insert(r.paths, {p}, G)
             Y == insert(r.assetToPath, H, p)
  <2>2. e = [r EXCEPT !.paths = X, !.assetToPath = Y]
    BY DEF moveAssetsTo, r
  <2>3. e = [paths |-> X, assets |-> r.assets, assetToPath |-> Y]
    <3> HIDE DEF e, X, Y
    <3>1. r = [paths |-> r.paths, assets |-> r.assets, assetToPath |-> r.assetToPath]
      BY <1>1, TableFacts
    <3> QED
      BY <2>2, <3>1
  <2> QED
    BY <1>1, <2>3
<1>g. G = (IF p \in DOMAIN r.paths THEN r.paths[p] ELSE {}) \cup H
  BY DEF contentOf
<1> HIDE DEF G
<1>4. /\ insert(r.paths, {p}, G) \in Folding
      /\ DOMAIN insert(r.paths, {p}, G) = DOMAIN r.paths \cup {p}
  BY <1>1, <1>2, TableFacts, FolderInserted
<1>5. insert(r.assetToPath, H, p) \in Linking
  BY <1>1, <1>2, TableFacts, LinksInserted
<1>6. IsFiniteSet(DOMAIN r.paths \cup {p})
  BY <1>1, TableFacts, FS_AddElement
<1>7. e \in Tables
  BY <1>3, <1>4, <1>5, <1>6, TableFacts DEF Tables
<1>8. ASSUME d \in TidyTables
      PROVE  EachInOneFolder(e)
  <2>1. /\ \A q \in DOMAIN r.paths : r.paths[q] = {h \in d.assets \ H : d.assetToPath[h] = q}
        /\ DOMAIN r.assetToPath = d.assets \ H
        /\ \A h \in d.assets \ H : r.assetToPath[h] = d.assetToPath[h]
        /\ \A h \in d.assets \ H : d.assetToPath[h] \in DOMAIN r.paths
    BY <1>8, ReferencesRemoved DEF r
  <2>2. e.assets = d.assets /\ DOMAIN e.paths = DOMAIN r.paths \cup {p}
    BY <1>3, <1>4
  <2>3. e.paths[p] = G /\ \A q \in DOMAIN r.paths : q # p => e.paths[q] = r.paths[q]
    BY <1>3 DEF insert
  <2>4. /\ DOMAIN e.assetToPath = d.assets
        /\ \A h \in H : e.assetToPath[h] = p
        /\ \A h \in d.assets : h \notin H => e.assetToPath[h] = d.assetToPath[h]
    BY <1>3, <2>1 DEF insert
  <2> HIDE DEF e
  <2>5. G = {h \in d.assets \ H : d.assetToPath[h] = p} \cup H
    <3>1. CASE p \in DOMAIN r.paths
      BY <3>1, <2>1, <1>g
    <3>2. CASE p \notin DOMAIN r.paths
      <4>1. {h \in d.assets \ H : d.assetToPath[h] = p} = {}
        BY <3>2, <2>1
      <4> QED
        BY <3>2, <4>1, <1>g
    <3> QED
      BY <3>1, <3>2
  <2>6. \A h \in e.assets : e.assetToPath[h] \in DOMAIN e.paths
    BY <2>1, <2>2, <2>4
  <2>7. ASSUME NEW q \in DOMAIN e.paths
        PROVE  e.paths[q] = {h \in e.assets : e.assetToPath[h] = q}
    <3>1. CASE q = p
      BY <3>1, <2>2, <2>3, <2>4, <2>5
    <3>2. CASE q # p
      <4>1. q \in DOMAIN r.paths /\ e.paths[q] = {h \in d.assets \ H : d.assetToPath[h] = q}
        BY <3>2, <2>1, <2>2, <2>3
      <4> QED
        BY <3>2, <4>1, <2>2, <2>4
    <3> QED
      BY <3>1, <3>2
  <2> QED
    BY <2>2, <2>4, <2>6, <2>7 DEF EachInOneFolder
<1> QED
  BY <1>3, <1>7, <1>8 DEF TidyTables

LEMMA FoldersRemoved ==
  ASSUME NEW d \in Tables, NEW P
  PROVE  /\ removeFolders(d, P) \in Tables
         /\ removeFolders(d, P).assets \subseteq d.assets
         /\ d \in TidyTables => removeFolders(d, P) \in TidyTables
<1> DEFINE subpaths == UNION {getPathsStartingWith(d, p) : p \in P}
           hashes == UNION {d.paths[p] : p \in subpaths}
           e == removeFolders(d, P)
<1>1. subpaths \subseteq DOMAIN d.paths
  BY DEF getPathsStartingWith
<1>2. e = [paths |-> Without(d.paths, subpaths), assets |-> d.assets \ hashes,
           assetToPath |-> Without(d.assetToPath, hashes \cap d.assets)]
  <2>1. d = [paths |-> d.paths, assets |-> d.assets, assetToPath |-> d.assetToPath]
    BY TableFacts
  <2> DEFINE X == Without(d.paths, subpaths)
             Y == Without(d.assetToPath, hashes \cap d.assets)
             Z == d.assets \ hashes
  <2>2. e = [d EXCEPT !.paths = X, !.assets = Z, !.assetToPath = Y]
    BY DEF removeFolders
  <2>3. e = [paths |-> X, assets |-> Z, assetToPath |-> Y]
    <3> HIDE DEF e, X, Y, Z
    <3> QED
      BY <2>1, <2>2
  <2> QED
    BY <2>3
<1>3. \A h : h \in hashes <=> \E p \in subpaths : h \in d.paths[p]
  OBVIOUS
<1> HIDE DEF subpaths, hashes
<1>4. /\ Without(d.paths, subpaths) \in Folding
      /\ DOMAIN Without(d.paths, subpaths) = DOMAIN d.paths \ subpaths
  BY TableFacts, FoldersWithout
<1>5. Without(d.assetToPath, hashes \cap d.assets) \in Linking
  BY TableFacts, LinksWithout
<1>6. /\ IsFiniteSet(d.assets \ hashes) /\ IsFiniteSet(DOMAIN d.paths \ subpaths)
      /\ d.assets \ hashes \in SUBSET Hash
  BY TableFacts, FS_Subset
<1>7. e \in Tables
  BY <1>2, <1>4, <1>5, <1>6 DEF Tables
<1>8. ASSUME d \in TidyTables
      PROVE  EachInOneFolder(e)
  <2>1. /\ DOMAIN d.assetToPath = d.assets
        /\ \A h \in d.assets : d.assetToPath[h] \in DOMAIN d.paths
        /\ \A q \in DOMAIN d.paths : d.paths[q] = {h \in d.assets : d.assetToPath[h] = q}
    BY <1>8 DEF TidyTables, EachInOneFolder
  <2>2. e.assets = d.assets \ hashes /\ DOMAIN e.paths = DOMAIN d.paths \ subpaths
    BY <1>2, <1>4
  <2>3. \A q \in DOMAIN e.paths : e.paths[q] = d.paths[q]
    BY <1>2, <2>2 DEF Without
  <2>4. /\ DOMAIN e.assetToPath = d.assets \ hashes
        /\ \A h \in d.assets \ hashes : e.assetToPath[h] = d.assetToPath[h]
    BY <1>2, <2>1 DEF Without
  <2>5. \A h \in d.assets : h \in hashes <=> d.assetToPath[h] \in subpaths
    BY <1>1, <1>3, <2>1
  <2> HIDE DEF e
  <2>6. \A h \in e.assets : e.assetToPath[h] \in DOMAIN e.paths
    BY <2>1, <2>2, <2>4, <2>5
  <2>7. ASSUME NEW q \in DOMAIN e.paths
        PROVE  e.paths[q] = {h \in e.assets : e.assetToPath[h] = q}
    <3>1. q \in DOMAIN d.paths /\ q \notin subpaths /\ e.paths[q] = {h \in d.assets : d.assetToPath[h] = q}
      BY <2>1, <2>2, <2>3
    <3> QED
      BY <3>1, <2>2, <2>4, <2>5
  <2> QED
    BY <2>2, <2>4, <2>6, <2>7 DEF EachInOneFolder
<1> QED
  BY <1>2, <1>7, <1>8 DEF TidyTables

\* A path that is in the tables but for its links is where each asset is linked to again.
LEMMA DatabaseLoaded ==
  ASSUME NEW d \in Tables, NEW e \in loadDatabase(d)
  PROVE  /\ e \in Tables /\ e.assets = d.assets /\ e.paths = d.paths
         /\ d \in TidyTables => e \in TidyTables
<1> DEFINE all == UNION {d.paths[p] : p \in DOMAIN d.paths}
<1>1. PICK link \in [all -> DOMAIN d.paths] :
        e = [d EXCEPT !.assetToPath = link] /\ \A h \in all : h \in d.paths[link[h]]
  BY DEF loadDatabase
<1>2. e = [paths |-> d.paths, assets |-> d.assets, assetToPath |-> link]
  BY <1>1, TableFacts
<1>3. \A h : h \in all <=> \E p \in DOMAIN d.paths : h \in d.paths[p]
  OBVIOUS
<1>4. DOMAIN link = all /\ \A h \in all : link[h] \in DOMAIN d.paths
  OBVIOUS
<1> HIDE DEF all
<1>5. link \in Linking
  <2>1. all \in SUBSET Hash
    BY <1>3, TableFacts
  <2>2. link \in [all -> Path]
    BY <1>1, TableFacts
  <2> QED
    BY <2>1, <2>2 DEF Linking, Partial
<1>6. e \in Tables
  BY <1>2, <1>5, TableFacts DEF Tables
<1>7. ASSUME d \in TidyTables
      PROVE  EachInOneFolder(e)
  <2>1. /\ DOMAIN d.assetToPath = d.assets
        /\ \A h \in d.assets : d.assetToPath[h] \in DOMAIN d.paths
        /\ \A q \in DOMAIN d.paths : d.paths[q] = {h \in d.assets : d.assetToPath[h] = q}
    BY <1>7 DEF TidyTables, EachInOneFolder
  <2>2. all = d.assets
    BY <1>3, <2>1
  <2>3. \A h \in d.assets : link[h] = d.assetToPath[h]
    BY <1>1, <1>4, <2>1, <2>2
  <2>4. e.paths = d.paths /\ e.assets = d.assets /\ e.assetToPath = link
    BY <1>2
  <2> QED
    BY <1>4, <2>1, <2>2, <2>3, <2>4 DEF EachInOneFolder
<1> QED
  BY <1>2, <1>6, <1>7 DEF TidyTables

---------------------------------------------------------------------------
(* Folders that are renamed or moved *)

LEMMA PathFacts ==
  ASSUME NEW p \in Path
  PROVE  /\ p \in Seq(Name) /\ Len(p) \in Nat /\ Len(p) >= 1
         /\ \A k \in 1..Len(p) : p[k] \in Seq(Letter)
         /\ \E c \in Container : p[1] = <<c>>
<1>1. p \in Seq(Name) /\ Rooted(p)
  BY DEF Path, FolderPath
<1> QED
  BY <1>1, LenProperties, ElementOfSeq DEF Rooted, Name

LEMMA PathAppended ==
  ASSUME NEW p \in Path, NEW name \in Name
  PROVE  Append(p, name) \in Path /\ Len(Append(p, name)) = Len(p) + 1
<1>1. p \in Seq(Name) /\ Len(p) \in Nat /\ Len(p) >= 1 /\ \E c \in Container : p[1] = <<c>>
  BY PathFacts
<1>2. /\ Append(p, name) \in Seq(Name) /\ Len(Append(p, name)) = Len(p) + 1
      /\ Append(p, name)[1] = p[1]
  BY <1>1, AppendProperties
<1> DEFINE q == Append(p, name)
<1> HIDE DEF q
<1>3. q \in Seq(Name) /\ Len(q) = Len(p) + 1 /\ q[1] = p[1]
  BY <1>2 DEF q
<1>4. q \in Path
  BY <1>1, <1>3 DEF Path, FolderPath, Rooted
<1> QED
  BY <1>3, <1>4 DEF q

LEMMA Replaced ==
  ASSUME NEW p \in Path, NEW a \in Path, startsWith(p, a), NEW r \in Path, Len(r) >= 2
  PROVE  replace(p, a, r) \in Path
<1> DEFINE n == Len(a)
           continuation == SubSeq(p[n], Len(a[n]) + 1, Len(p[n]))
           name == Last(r) \o continuation
           above == Front(r)
           below == SubSeq(p, n + 1, Len(p))
<1>1. /\ p \in Seq(Name) /\ a \in Seq(Name) /\ r \in Seq(Name)
      /\ n \in Nat /\ n >= 1 /\ Len(p) \in Nat /\ Len(r) \in Nat
      /\ \E c \in Container : r[1] = <<c>>
  BY PathFacts
<1>2. n <= Len(p) /\ Len(a[n]) <= Len(p[n])
  BY <1>1 DEF startsWith, IsPrefix
<1>3. p[n] \in Seq(Letter) /\ a[n] \in Seq(Letter) /\ Last(r) \in Seq(Letter)
  <2>1. n \in 1..Len(p) /\ n \in 1..Len(a) /\ Len(r) \in 1..Len(r)
    BY <1>1, <1>2
  <2> QED
    BY <2>1, PathFacts DEF Last
<1>4. continuation \in Seq(Letter)
  <2>1. Len(a[n]) \in Nat /\ Len(p[n]) \in Nat
    BY <1>3, LenProperties
  <2>2. Len(a[n]) + 1 \in 1..Len(p[n]) + 1 /\ Len(p[n]) \in 0..Len(p[n])
    BY <1>2, <2>1
  <2> QED
    BY <1>3, <2>2, SubSeqProperties
<1>5. name \in Name
  BY <1>3, <1>4, ConcatProperties DEF Name
<1>6. above \in Seq(Name) /\ Len(above) = Len(r) - 1 /\ above[1] = r[1]
  <2>1. 1 \in 1..Len(r) + 1 /\ Len(r) - 1 \in 1..Len(r) /\ Len(r) - 1 \in 0..Len(r)
    BY <1>1
  <2>2. /\ SubSeq(r, 1, Len(r) - 1) \in Seq(Name) /\ Len(SubSeq(r, 1, Len(r) - 1)) = Len(r) - 1
        /\ SubSeq(r, 1, Len(r) - 1)[1] = r[1]
    BY <1>1, <2>1, SubSeqProperties
  <2> QED
    BY <2>2 DEF Front
<1>7. below \in Seq(Name)
  <2>1. n + 1 \in 1..Len(p) + 1 /\ Len(p) \in 0..Len(p)
    BY <1>1, <1>2
  <2> QED
    BY <1>1, <2>1, SubSeqProperties
<1> HIDE DEF name, above, below
<1>8. /\ above \o <<name>> \in Seq(Name) /\ Len(above \o <<name>>) = Len(above) + 1
      /\ (above \o <<name>>)[1] = above[1]
  <2>1. <<name>> \in Seq(Name) /\ Len(<<name>>) = 1
    BY <1>5
  <2>2. 1 \in 1..Len(above) + 1 /\ 1 \in 1..Len(above)
    BY <1>1, <1>6
  <2> QED
    BY <1>6, <2>1, <2>2, ConcatProperties
<1>9. /\ (above \o <<name>>) \o below \in Seq(Name)
      /\ Len((above \o <<name>>) \o below) >= 1
      /\ ((above \o <<name>>) \o below)[1] = above[1]
  <2>1. 1 \in 1..Len(above \o <<name>>) /\ Len(above \o <<name>>) \in Nat /\ Len(below) \in Nat
    BY <1>1, <1>6, <1>7, <1>8, LenProperties
  <2> QED
    BY <1>7, <1>8, <2>1, ConcatProperties
<1>10. replace(p, a, r) = (above \o <<name>>) \o below
  BY DEF replace, above, name, below
<1> QED
  BY <1>1, <1>6, <1>9, <1>10 DEF Path, FolderPath, Rooted

\* V is kept by whatever is rerouted.
Closed(V) ==
  V \subseteq Tables /\ \A d \in V : \A old : \A new \in Path : rerouted(d, old, new) \in V

LEMMA SameAssets ==
  ASSUME NEW A
  PROVE  /\ Closed({d \in Tables : d.assets = A})
         /\ Closed({d \in TidyTables : d.assets = A})
<1>1. \A d : \A old, new : rerouted(d, old, new).assets = d.assets
  BY DEF rerouted
<1> QED
  BY <1>1, ReroutedTyped, ReroutedTidy DEF Closed, TidyTables

LEMMA OrderFacts ==
  ASSUME NEW S, IsFiniteSet(S), NEW order \in SetToSeqs(S)
  PROVE  Cardinality(S) \in Nat /\ order \in [1..Cardinality(S) -> S]
BY FS_CardinalityType DEF SetToSeqs

LEMMA AllRerouted ==
  ASSUME NEW V, Closed(V), NEW d \in V, NEW a \in Path, NEW r \in Path, Len(r) >= 2,
         NEW S, IsFiniteSet(S), S \subseteq Path, \A p \in S : startsWith(p, a)
  PROVE  reroutePaths(d, a, r, S) \subseteq V
<1> SUFFICES ASSUME NEW order \in SetToSeqs(S)
             PROVE  reroutedInOrder(d, a, r, order) \in V
  BY DEF reroutePaths, reroutedInOrder
<1>1. Cardinality(S) \in Nat /\ order \in [1..Cardinality(S) -> S]
  BY OrderFacts
<1>2. ASSUME NEW e \in V, NEW k \in 1..Cardinality(S)
      PROVE  reroute(e, a, r, order[k]) \in V
  <2>1. order[k] \in Path /\ startsWith(order[k], a) /\ e \in Tables
    BY <1>1 DEF Closed
  <2>2. replace(order[k], a, r) \in Path
    BY <2>1, Replaced
  <2> QED
    BY <2>1, <2>2, Rerouted DEF Closed
<1>3. DOMAIN order = 1..Cardinality(S)
  BY <1>1
<1> QED
  BY <1>1, <1>2, <1>3, RerouteFold

LEMMA FolderRenamed ==
  ASSUME NEW V, Closed(V), NEW d \in V, NEW a \in Path, NEW r \in Path, Len(r) >= 2
  PROVE  renameFolderInDb(d, a, r) \subseteq V
<1> DEFINE S == getPathsStartingWith(d, a)
<1>1. IsFiniteSet(S) /\ S \subseteq Path /\ \A p \in S : startsWith(p, a)
  <2>1. d \in Tables
    BY DEF Closed
  <2>2. S \subseteq DOMAIN d.paths
    BY DEF getPathsStartingWith
  <2> QED
    BY <2>1, <2>2, TableFacts, FS_Subset DEF getPathsStartingWith
<1> QED
  BY <1>1, AllRerouted DEF renameFolderInDb

LEMMA FoldersMoved ==
  ASSUME NEW V, Closed(V), NEW d \in V, NEW path \in Path,
         NEW tops, IsFiniteSet(tops), tops \subseteq Path
  PROVE  moveFoldersTo(d, path, tops) \subseteq V
<1> DEFINE moveOne(databases, topmost) ==
             UNION {reroutePaths(e, topmost, Append(path, Last(topmost)),
                                 getPathsStartingWith(d, topmost)) : e \in databases}
<1> SUFFICES ASSUME NEW order \in SetToSeqs(tops)
             PROVE  FoldLeft(moveOne, {d}, order) \subseteq V
  BY DEF moveFoldersTo
<1> DEFINE n == Cardinality(tops)
           step == [i \in 1..n |-> [e \in SUBSET V |-> moveOne(e, order[i])]]
           Is(f) == f = [s \in SUBSET (1..n) |->
                           IF s = {} THEN {d}
                           ELSE moveOne(f[s \ {Max(s)}], order[Max(s)])]
           F == CHOOSE f : Is(f)
<1>1. n \in Nat /\ order \in [1..n -> tops] /\ DOMAIN order = 1..n
  BY OrderFacts
<1>2. ASSUME NEW D \in SUBSET V, NEW k \in 1..n
      PROVE  moveOne(D, order[k]) \in SUBSET V
  <2> DEFINE S == getPathsStartingWith(d, order[k])
             r == Append(path, Last(order[k]))
  <2>1. order[k] \in Path
    BY <1>1
  <2>2. IsFiniteSet(S) /\ S \subseteq Path /\ \A p \in S : startsWith(p, order[k])
    <3>1. d \in Tables
      BY DEF Closed
    <3>2. S \subseteq DOMAIN d.paths
      BY DEF getPathsStartingWith
    <3> QED
      BY <3>1, <3>2, TableFacts, FS_Subset DEF getPathsStartingWith
  <2>3. r \in Path /\ Len(r) >= 2
    <3>1. Last(order[k]) \in Name
      <4>1. Len(order[k]) \in 1..Len(order[k])
        BY <2>1, PathFacts
      <4> QED
        BY <2>1, <4>1, PathFacts DEF Last, Name
    <3>2. Len(path) >= 1 /\ Len(path) \in Nat
      BY PathFacts
    <3> QED
      BY <3>1, <3>2, PathAppended
  <2> HIDE DEF S, r
  <2>4. \A e \in D : reroutePaths(e, order[k], r, S) \subseteq V
    BY <2>1, <2>2, <2>3, AllRerouted
  <2> QED
    BY <2>4 DEF S, r
<1> HIDE DEF moveOne
<1>3. step \in [1..n -> [SUBSET V -> SUBSET V]]
  BY <1>2
<1>4. \A s \in SUBSET (1..n) : s # {} => Max(s) \in 1..n
  BY <1>1, LastOf
<1>5. PICK f : IsFold(f, n, SUBSET V, {d}, step)
  <2>1. {d} \in SUBSET V
    OBVIOUS
  <2> HIDE DEF step
  <2> QED
    BY <1>1, <1>3, <2>1, Folds
<1>6. Is(f)
  BY <1>4, <1>5 DEF IsFold
<1>7. Is(F)
  BY <1>6
<1>8. FoldLeft(moveOne, {d}, order) = F[1..n]
  BY <1>1 DEF FoldLeft, MapThenFoldSet
<1> HIDE DEF F
<1>9. F[{}] = {d} /\ {d} \in SUBSET V
  BY <1>7
<1>10. ASSUME NEW k \in 1..n, F[(1..k) \ {Max(1..k)}] \in SUBSET V
       PROVE  F[1..k] \in SUBSET V
  <2>1. (1..k) \in SUBSET (1..n) /\ (1..k) # {} /\ Max(1..k) \in 1..n
    <3>1. (1..k) \in SUBSET (1..n) /\ k \in 1..k
      BY <1>1
    <3> QED
      BY <1>4, <3>1
  <2>2. F[1..k] = moveOne(F[(1..k) \ {Max(1..k)}], order[Max(1..k)])
    BY <1>7, <2>1
  <2> QED
    BY <1>2, <1>10, <2>1, <2>2
<1>11. F[1..n] \in SUBSET V
  <2> DEFINE W == SUBSET V
  <2>1. F[{}] \in W /\ \A k \in 1..n : F[(1..k) \ {Max(1..k)}] \in W => F[1..k] \in W
    BY <1>9, <1>10
  <2> HIDE DEF W
  <2>2. F[1..n] \in W
    BY <1>1, <2>1, FoldsOver
  <2> QED
    BY <2>2 DEF W
<1> QED
  BY <1>8, <1>11

---------------------------------------------------------------------------
(* What is below an item *)

Hanging(tree, D) == {i \in ItemId : tree[i] # NoItem /\ tree[i].ancestor \in D}

\* D[k]: S and what is below it, k times over.
Downwards(tree, S, D) ==
  /\ D[0] = S
  /\ \A k \in 1..MaxItems : D[k] = D[k - 1] \cup Hanging(tree, D[k - 1])
  /\ AndBelow(tree, S) = D[MaxItems]

LEMMA FirstNumbers ==
  ASSUME NEW k \in Nat, k # 0
  PROVE  Max(1..k) = k /\ (1..k) \ {k} = 1..(k - 1)
<1>1. k - 1 \in Nat /\ (k - 1) + 1 = k
  OBVIOUS
<1>2. (1..k) \in SUBSET (1..((k - 1) + 1)) /\ (k - 1) + 1 \in 1..k
  BY <1>1
<1>3. Max(1..k) = (k - 1) + 1
  BY <1>1, <1>2, LastOfFirst
<1> QED
  BY <1>1, <1>3

LEMMA DownwardsExists ==
  ASSUME NEW tree, NEW S
  PROVE  \E D : Downwards(tree, S, D)
<1> DEFINE V == SUBSET (S \cup ItemId)
           step == [k \in 1..MaxItems |-> [T \in V |-> T \cup Hanging(tree, T)]]
           Is(D) == D = [k \in 0..MaxItems |->
                           IF k = 0 THEN S ELSE D[k - 1] \cup Hanging(tree, D[k - 1])]
           F == CHOOSE D : Is(D)
<1>0. MaxItems \in Nat
  BY BoundsAssumption
<1>1. step \in [1..MaxItems -> [V -> V]] /\ S \in V
  <2>1. \A T \in V : T \cup Hanging(tree, T) \in V
    BY DEF Hanging
  <2> QED
    BY <2>1
<1> HIDE DEF V
<1>2. PICK f : IsFold(f, MaxItems, V, S, step)
  <2> HIDE DEF step
  <2> QED
    BY <1>0, <1>1, Folds
<1> DEFINE G == [k \in 0..MaxItems |-> f[1..k]]
<1>3. ASSUME NEW k \in 0..MaxItems
      PROVE  G[k] = IF k = 0 THEN S ELSE G[k - 1] \cup Hanging(tree, G[k - 1])
  <2>1. CASE k = 0
    <3>1. 1..k = {}
      BY <2>1
    <3> QED
      BY <2>1, <3>1, <1>2 DEF IsFold
  <2>2. CASE k # 0
    <3>1. Max(1..k) = k /\ (1..k) \ {k} = 1..(k - 1)
      BY <2>2, FirstNumbers
    <3>2. (1..k) \in SUBSET (1..MaxItems) /\ (1..k) # {} /\ (1..(k - 1)) \in SUBSET (1..MaxItems)
      <4>1. k \in 1..k
        BY <2>2
      <4> QED
        BY <4>1, <1>0
    <3>3. f[1..k] = step[k][f[1..(k - 1)]] /\ f[1..(k - 1)] \in V
      <4>1. PICK s \in SUBSET (1..MaxItems) : s = 1..k
        BY <3>2
      <4>2. PICK t \in SUBSET (1..MaxItems) : t = 1..(k - 1)
        BY <3>2
      <4> HIDE DEF step
      <4>3. s # {} /\ Max(s) = k /\ s \ {k} = t
        BY <3>1, <3>2, <4>1, <4>2
      <4>4. f[s] = step[Max(s)][f[s \ {Max(s)}]] /\ f[t] \in V
        BY <1>2, <4>3 DEF IsFold
      <4> QED
        BY <4>1, <4>2, <4>3, <4>4
    <3>4. k \in 1..MaxItems /\ k - 1 \in 0..MaxItems
      BY <2>2, <1>0
    <3> QED
      BY <2>2, <3>3, <3>4
  <2> QED
    BY <2>1, <2>2
<1>4. Is(G)
  <2> DEFINE H == [k \in 0..MaxItems |->
                     IF k = 0 THEN S ELSE G[k - 1] \cup Hanging(tree, G[k - 1])]
  <2>1. \A k \in 0..MaxItems : G[k] = H[k]
    BY <1>3
  <2> QED
    BY <2>1
<1>5. Is(F)
  <2> HIDE DEF G
  <2> QED
    BY <1>4
<1>6. AndBelow(tree, S) = F[MaxItems]
  BY DEF AndBelow, Hanging
<1> HIDE DEF F
<1>7. Downwards(tree, S, F)
  <2>1. \A k \in 0..MaxItems : F[k] = IF k = 0 THEN S ELSE F[k - 1] \cup Hanging(tree, F[k - 1])
    BY <1>5
  <2>2. 0 \in 0..MaxItems /\ \A k \in 1..MaxItems : k \in 0..MaxItems /\ k # 0
    BY <1>0
  <2>3. F[0] = S /\ \A k \in 1..MaxItems : F[k] = F[k - 1] \cup Hanging(tree, F[k - 1])
    BY <2>1, <2>2
  <2> QED
    BY <1>6, <2>3 DEF Downwards
<1> QED
  BY <1>7

\* What holds for S, and for whatever hangs below an item it holds for.
LEMMA BelowWithin ==
  ASSUME NEW tree, NEW S, NEW T, S \subseteq T, Hanging(tree, T) \subseteq T
  PROVE  AndBelow(tree, S) \subseteq T
<1>1. PICK D : Downwards(tree, S, D)
  BY DownwardsExists
<1> DEFINE N == {k \in Nat : k <= MaxItems => D[k] \subseteq T}
<1>2. 0 \in N
  BY <1>1 DEF Downwards
<1>3. ASSUME NEW k \in Nat, k \in N
      PROVE  k + 1 \in N
  <2> SUFFICES ASSUME k + 1 <= MaxItems
               PROVE  D[k + 1] \subseteq T
    OBVIOUS
  <2>1. D[k] \subseteq T /\ k + 1 \in 1..MaxItems /\ (k + 1) - 1 = k
    BY <1>3, BoundsAssumption
  <2>2. D[k + 1] = D[k] \cup Hanging(tree, D[k])
    BY <1>1, <2>1 DEF Downwards
  <2>3. Hanging(tree, D[k]) \subseteq Hanging(tree, T)
    BY <2>1 DEF Hanging
  <2> QED
    BY <2>1, <2>2, <2>3
<1>4. MaxItems \in N
  <2> HIDE DEF N
  <2> QED
    BY <1>2, <1>3, Induction, BoundsAssumption
<1> QED
  BY <1>1, <1>4, BoundsAssumption DEF Downwards

\* Each time something is added, or nothing is left to add: MaxItems times are enough.
LEMMA BelowClosed ==
  ASSUME NEW tree, NEW S
  PROVE  S \subseteq AndBelow(tree, S) /\ Hanging(tree, AndBelow(tree, S)) \subseteq AndBelow(tree, S)
<1>1. PICK D : Downwards(tree, S, D)
  BY DownwardsExists
<1>0. MaxItems \in Nat /\ IsFiniteSet(ItemId) /\ Cardinality(ItemId) = MaxItems
  BY BoundsAssumption, FS_Interval DEF ItemId
<1> DEFINE At(k) == D[k] \cap ItemId
           N == {k \in Nat : k <= MaxItems => /\ S \subseteq D[k]
                                              /\ \/ Hanging(tree, D[k]) \subseteq D[k]
                                                 \/ Cardinality(At(k)) >= k}
<1>2. \A k : IsFiniteSet(At(k)) /\ Cardinality(At(k)) \in Nat /\ Cardinality(At(k)) <= MaxItems
  BY <1>0, FS_Subset, FS_CardinalityType
<1>3. 0 \in N
  <2>1. Cardinality(At(0)) >= 0 /\ D[0] = S
    BY <1>1, <1>2 DEF Downwards
  <2> QED
    BY <2>1
<1>4. ASSUME NEW k \in Nat, k \in N
      PROVE  k + 1 \in N
  <2> SUFFICES ASSUME k + 1 <= MaxItems
               PROVE  /\ S \subseteq D[k + 1]
                      /\ \/ Hanging(tree, D[k + 1]) \subseteq D[k + 1]
                         \/ Cardinality(At(k + 1)) >= k + 1
    OBVIOUS
  <2>1. /\ S \subseteq D[k] /\ k + 1 \in 1..MaxItems /\ (k + 1) - 1 = k
        /\ Hanging(tree, D[k]) \subseteq D[k] \/ Cardinality(At(k)) >= k
    BY <1>0, <1>4
  <2>2. D[k + 1] = D[k] \cup Hanging(tree, D[k])
    BY <1>1, <2>1 DEF Downwards
  <2>3. CASE Hanging(tree, D[k]) \subseteq D[k]
    <3>1. D[k + 1] = D[k]
      BY <2>2, <2>3
    <3> QED
      BY <2>1, <2>3, <3>1
  <2>4. CASE ~(Hanging(tree, D[k]) \subseteq D[k])
    <3>1. PICK i \in Hanging(tree, D[k]) : i \notin D[k]
      BY <2>4
    <3>2. i \in ItemId
      BY <3>1 DEF Hanging
    <3>3. i \notin At(k) /\ (At(k) \cup {i}) \in SUBSET At(k + 1)
      BY <2>2, <3>1, <3>2
    <3>4. Cardinality(At(k) \cup {i}) = Cardinality(At(k)) + 1
      BY <1>2, <3>3, FS_AddElement
    <3>5. Cardinality(At(k) \cup {i}) <= Cardinality(At(k + 1))
      BY <1>2, <3>3, FS_Subset
    <3> HIDE DEF At
    <3>6. Cardinality(At(k)) \in Nat /\ Cardinality(At(k + 1)) \in Nat /\ Cardinality(At(k)) >= k
      BY <1>2, <2>1, <2>4
    <3> QED
      BY <2>1, <2>2, <3>4, <3>5, <3>6
  <2> QED
    BY <2>3, <2>4
<1>5. MaxItems \in N
  <2> HIDE DEF N
  <2> QED
    BY <1>0, <1>3, <1>4, Induction
<1>6. /\ S \subseteq D[MaxItems]
      /\ Hanging(tree, D[MaxItems]) \subseteq D[MaxItems] \/ Cardinality(At(MaxItems)) >= MaxItems
  BY <1>0, <1>5
<1>7. ASSUME Cardinality(At(MaxItems)) >= MaxItems
      PROVE  ItemId \subseteq D[MaxItems]
  <2>1. At(MaxItems) \in SUBSET ItemId
    OBVIOUS
  <2>2. Cardinality(At(MaxItems)) = Cardinality(ItemId)
    BY <1>0, <1>2, <1>7
  <2>3. At(MaxItems) = ItemId
    BY <1>0, <2>1, <2>2, FS_Subset
  <2> QED
    BY <2>3
<1>8. Hanging(tree, D[MaxItems]) \subseteq D[MaxItems]
  BY <1>6, <1>7 DEF Hanging
<1> QED
  BY <1>1, <1>6, <1>8 DEF Downwards

---------------------------------------------------------------------------
(* The items of the tree *)

Place == Container \cup ItemId
FolderNode ==
  [type : {"Folder"}, name : Name, ancestor : Place, path : {p \in Path : Len(p) >= 2}]
AssetNode == [type : {"Asset"}, hash : Hash, ancestor : Place, path : Path]
Node == FolderNode \cup AssetNode

Trees == [ItemId -> Node \cup {NoItem}]

\* An item is below a container or a folder that exists.
Hung(tree) ==
  \A i \in ItemId : tree[i] # NoItem => tree[i].ancestor \in Container \cup FoldersOf(tree)

HungTrees == {tree \in Trees : Hung(tree)}

\* The trees of some folders and assets, wherever they are.
TreesWith(F, A) == {tree \in HungTrees : FoldersOf(tree) = F /\ AssetsOf(tree) = A}

LEMMA ItemFacts ==
  ASSUME NEW x \in Node
  PROVE  /\ x # NoItem
         /\ x.ancestor \in Place /\ x.path \in Path
         /\ x.type = "Folder" => x \in FolderNode /\ x.name \in Name /\ Len(x.path) >= 2
         /\ x.type # "Folder" => x \in AssetNode /\ x.type = "Asset" /\ x.hash \in Hash
<1>1. x # NoItem
  <2>1. Path \subseteq FolderPath
    BY DEF Path
  <2>2. FolderNode \subseteq [type : {"Folder"}, name : Name, ancestor : Container \cup (1..MaxItems),
                              path : FolderPath]
    BY <2>1 DEF FolderNode, Place, ItemId
  <2>3. AssetNode \subseteq [type : {"Asset"}, hash : Hash, ancestor : Container \cup (1..MaxItems),
                             path : FolderPath]
    BY <2>1 DEF AssetNode, Place, ItemId
  <2> QED
    BY <2>2, <2>3, NoItemAssumption DEF Node
<1>2. CASE x \in FolderNode
  BY <1>1, <1>2 DEF FolderNode
<1>3. CASE x \in AssetNode
  BY <1>1, <1>3 DEF AssetNode
<1> QED
  BY <1>2, <1>3 DEF Node

LEMMA TreeFacts ==
  ASSUME NEW tree \in Trees, NEW i \in ItemId, tree[i] # NoItem
  PROVE  /\ tree[i] \in Node
         /\ i \in FoldersOf(tree) <=> tree[i].type = "Folder"
         /\ i \in AssetsOf(tree) <=> tree[i].type # "Folder"
<1>1. tree[i] \in Node
  BY DEF Trees
<1> QED
  BY <1>1, ItemFacts DEF FoldersOf, AssetsOf

\* Nothing is below an asset.
LEMMA BelowAsset ==
  ASSUME NEW tree \in HungTrees, NEW i \in ItemId, tree[i] # NoItem, tree[i].type # "Folder"
  PROVE  AndBelow(tree, {i}) \subseteq {i}
<1>1. i \notin Container /\ i \notin FoldersOf(tree)
  BY ItemsAssumption DEF ItemId, FoldersOf
<1>2. Hanging(tree, {i}) = {}
  BY <1>1 DEF HungTrees, Hung, Hanging
<1> QED
  BY <1>2, BelowWithin

LEMMA ReachableExist ==
  ASSUME NEW tree
  PROVE  Reachable(tree) \subseteq {i \in ItemId : tree[i] # NoItem}
<1> DEFINE T == Container \cup {i \in ItemId : tree[i] # NoItem}
<1>1. Container \subseteq T /\ Hanging(tree, T) \subseteq T
  BY DEF Hanging
<1>2. AndBelow(tree, Container) \subseteq T
  <2> HIDE DEF T
  <2> QED
    BY <1>1, BelowWithin
<1> QED
  BY <1>2 DEF Reachable

LEMMA ContainerPath ==
  ASSUME NEW c \in Container
  PROVE  containerPath(c) \in Path
<1>1. <<c>> \in Seq(Letter)
  BY ContainerAssumption
<1>2. <<<<c>>>> \in Seq(Seq(Letter)) /\ Len(<<<<c>>>>) = 1 /\ <<<<c>>>>[1] = <<c>>
  BY <1>1
<1> QED
  BY <1>2 DEF containerPath, Path, FolderPath, Name, Rooted

\* A path whose beginning is replaced.
LEMMA PathContinued ==
  ASSUME NEW p \in Path, NEW q \in Path, NEW m \in Nat
  PROVE  /\ p \o SubSeq(q, m + 1, Len(q)) \in Path
         /\ Len(p \o SubSeq(q, m + 1, Len(q))) >= Len(p)
<1> DEFINE rest == SubSeq(q, m + 1, Len(q))
           r == p \o rest
<1>1. /\ p \in Seq(Name) /\ Len(p) \in Nat /\ Len(p) >= 1 /\ \E c \in Container : p[1] = <<c>>
      /\ q \in Seq(Name) /\ Len(q) \in Nat
  BY PathFacts
<1>2. \A k \in m + 1 .. Len(q) : q[k] \in Name
  <2> TAKE k \in m + 1 .. Len(q)
  <2>1. k \in 1..Len(q)
    BY <1>1
  <2> QED
    BY <1>1, <2>1, ElementOfSeq
<1>3. rest \in Seq(Name)
  BY <1>1, <1>2, SubSeqProperties
<1>4. Len(rest) \in Nat
  BY <1>3, LenProperties
<1> HIDE DEF rest
<1>5. /\ r \in Seq(Name) /\ Len(r) = Len(p) + Len(rest)
      /\ \A k \in 1..Len(p) + Len(rest) : r[k] = IF k <= Len(p) THEN p[k] ELSE rest[k - Len(p)]
  BY <1>1, <1>3, ConcatProperties
<1>6. 1 \in 1..Len(p) + Len(rest) /\ 1 <= Len(p) /\ Len(r) >= 1 /\ Len(r) >= Len(p)
  BY <1>1, <1>4, <1>5
<1>7. r[1] = p[1]
  BY <1>5, <1>6
<1> HIDE DEF r
<1>8. r \in Path /\ Len(r) >= Len(p)
  BY <1>1, <1>5, <1>6, <1>7 DEF Path, FolderPath, Rooted
<1> QED
  BY <1>8 DEF r, rest

\* The item that is given an ancestor, and those below it.
LEMMA ItemRepathed ==
  ASSUME NEW x \in Node, NEW p \in Path, x.type = "Folder" => Len(p) >= 2
  PROVE  /\ \A a \in Place : /\ [x EXCEPT !.ancestor = a, !.path = p] \in Node
                             /\ [x EXCEPT !.ancestor = a, !.path = p].type = x.type
                             /\ [x EXCEPT !.ancestor = a, !.path = p].ancestor = a
         /\ [x EXCEPT !.path = p] \in Node
         /\ [x EXCEPT !.path = p].type = x.type
         /\ [x EXCEPT !.path = p].ancestor = x.ancestor
<1>1. CASE x.type = "Folder"
  <2>1. x \in FolderNode
    BY <1>1, ItemFacts
  <2> QED
    BY <1>1, <2>1 DEF FolderNode, Node
<1>2. CASE x.type # "Folder"
  <2>1. x \in AssetNode
    BY <1>2, ItemFacts
  <2> QED
    BY <2>1 DEF AssetNode, Node
<1> QED
  BY <1>1, <1>2

LEMMA SubItemAppended ==
  ASSUME NEW tree \in HungTrees, NEW i \in ItemId, tree[i] # NoItem,
         NEW a \in Container \cup FoldersOf(tree)
  PROVE  appendSubItem(tree, i, a) \in TreesWith(FoldersOf(tree), AssetsOf(tree))
<1> DEFINE top == IF a \in Container THEN containerPath(a) ELSE tree[a].path
           path == IF tree[i].type = "Folder" THEN Append(top, tree[i].name) ELSE top
           old == tree[i].path
           u == appendSubItem(tree, i, a)
<1>1. tree \in Trees /\ Hung(tree) /\ tree[i] \in Node
  BY TreeFacts DEF HungTrees
<1>2. a \in Place /\ top \in Path
  <2>1. CASE a \in Container
    BY <2>1, ContainerPath DEF Place
  <2>2. CASE a \notin Container
    <3>1. a \in ItemId /\ tree[a] # NoItem
      BY <2>2 DEF FoldersOf
    <3>2. tree[a].path \in Path
      BY <1>1, <3>1, TreeFacts, ItemFacts
    <3> QED
      BY <2>2, <3>1, <3>2 DEF Place
  <2> QED
    BY <2>1, <2>2
<1>3. path \in Path /\ (tree[i].type = "Folder" => Len(path) >= 2)
  <2>1. CASE tree[i].type = "Folder"
    <3>1. tree[i].name \in Name /\ Len(top) \in Nat /\ Len(top) >= 1
      BY <1>1, <1>2, <2>1, ItemFacts, PathFacts
    <3>2. Append(top, tree[i].name) \in Path /\ Len(Append(top, tree[i].name)) = Len(top) + 1
      BY <1>2, <3>1, PathAppended
    <3> HIDE DEF top
    <3> QED
      BY <2>1, <3>1, <3>2
  <2>2. CASE tree[i].type # "Folder"
    BY <1>2, <2>2
  <2> QED
    BY <2>1, <2>2
<1>4. Len(old) \in Nat
  BY <1>1, ItemFacts, PathFacts
<1>5. u = [j \in ItemId |->
             IF j = i THEN [tree[i] EXCEPT !.ancestor = a, !.path = path]
             ELSE IF j \in AndBelow(tree, {i})
             THEN [tree[j] EXCEPT !.path = path \o SubSeq(@, Len(old) + 1, Len(@))]
             ELSE tree[j]]
  BY DEF appendSubItem
<1> HIDE DEF u, path, top, old
<1>6. \A j \in ItemId : tree[j] = NoItem => j # i /\ j \notin AndBelow(tree, {i})
  <2> DEFINE T == {j \in ItemId : tree[j] # NoItem}
  <2>1. {i} \subseteq T /\ Hanging(tree, T) \subseteq T
    BY DEF Hanging
  <2> HIDE DEF T
  <2>2. AndBelow(tree, {i}) \subseteq T
    BY <2>1, BelowWithin
  <2> QED
    BY <2>2 DEF T
<1>7. ASSUME NEW j \in ItemId
      PROVE  /\ tree[j] = NoItem => u[j] = NoItem
             /\ tree[j] # NoItem => /\ u[j] \in Node /\ u[j].type = tree[j].type
                                    /\ u[j].ancestor \in {a, tree[j].ancestor}
  <2>1. CASE tree[j] = NoItem
    BY <1>5, <1>6, <2>1
  <2>2. CASE tree[j] # NoItem /\ j = i
    <3>1. u[j] = [tree[i] EXCEPT !.ancestor = a, !.path = path]
      BY <1>5, <2>2
    <3>2. /\ [tree[i] EXCEPT !.ancestor = a, !.path = path] \in Node
          /\ [tree[i] EXCEPT !.ancestor = a, !.path = path].type = tree[i].type
          /\ [tree[i] EXCEPT !.ancestor = a, !.path = path].ancestor = a
      <4>1. \A b \in Place : /\ [tree[i] EXCEPT !.ancestor = b, !.path = path] \in Node
                             /\ [tree[i] EXCEPT !.ancestor = b, !.path = path].type = tree[i].type
                             /\ [tree[i] EXCEPT !.ancestor = b, !.path = path].ancestor = b
        BY <1>1, <1>3, ItemRepathed
      <4> QED
        BY <1>2, <4>1
    <3> QED
      BY <2>2, <3>1, <3>2
  <2>3. CASE tree[j] # NoItem /\ j # i /\ j \in AndBelow(tree, {i})
    <3> DEFINE q == path \o SubSeq(tree[j].path, Len(old) + 1, Len(tree[j].path))
    <3>1. u[j] = [tree[j] EXCEPT !.path = q]
      BY <1>5, <2>3
    <3>2. tree[i].type = "Folder" /\ tree[j] \in Node /\ tree[j].path \in Path
      <4>1. tree[j] \in Node
        BY <1>1, <2>3, TreeFacts
      <4>2. ~(AndBelow(tree, {i}) \subseteq {i})
        BY <2>3
      <4>3. tree[i].type = "Folder"
        BY <4>2, BelowAsset
      <4> QED
        BY <4>1, <4>3, ItemFacts
    <3>3. q \in Path /\ Len(q) >= Len(path) /\ Len(q) \in Nat /\ Len(path) \in Nat
      <4>1. q \in Path /\ Len(q) >= Len(path)
        BY <1>3, <1>4, <3>2, PathContinued
      <4> HIDE DEF q
      <4> QED
        BY <1>3, <4>1, PathFacts
    <3> HIDE DEF q
    <3>4. Len(q) >= 2
      BY <1>3, <3>2, <3>3
    <3>5. /\ [tree[j] EXCEPT !.path = q] \in Node
          /\ [tree[j] EXCEPT !.path = q].type = tree[j].type
          /\ [tree[j] EXCEPT !.path = q].ancestor = tree[j].ancestor
      BY <3>2, <3>3, <3>4, ItemRepathed
    <3> QED
      BY <2>3, <3>1, <3>5
  <2>4. CASE tree[j] # NoItem /\ j # i /\ j \notin AndBelow(tree, {i})
    <3>1. u[j] = tree[j]
      BY <1>5, <2>4
    <3> QED
      BY <1>1, <2>4, <3>1, TreeFacts
  <2> QED
    BY <2>1, <2>2, <2>3, <2>4
<1>8. u \in Trees
  <2>1. u = [j \in ItemId |-> u[j]]
    BY <1>5
  <2>2. \A j \in ItemId : u[j] \in Node \cup {NoItem}
    BY <1>7
  <2> QED
    BY <2>1, <2>2 DEF Trees
<1>9. \A j \in ItemId : u[j] = NoItem <=> tree[j] = NoItem
  BY <1>7, ItemFacts
<1>10. FoldersOf(u) = FoldersOf(tree) /\ AssetsOf(u) = AssetsOf(tree)
  BY <1>7, <1>9 DEF FoldersOf, AssetsOf
<1>11. Hung(u)
  BY <1>1, <1>7, <1>9, <1>10 DEF Hung
<1> QED
  BY <1>8, <1>10, <1>11 DEF TreesWith, HungTrees, u

LEMMA ItemRenamed ==
  ASSUME NEW tree \in HungTrees, NEW i \in FoldersOf(tree), NEW name \in Name
  PROVE  renamed(tree, i, name) \in HungTrees
<1> DEFINE t == [tree EXCEPT ![i].name = name]
<1>1. tree \in Trees /\ Hung(tree) /\ i \in ItemId /\ tree[i] # NoItem /\ tree[i].type = "Folder"
  BY DEF HungTrees, FoldersOf
<1>2. tree[i] \in FolderNode
  BY <1>1, TreeFacts, ItemFacts
<1>3. [tree[i] EXCEPT !.name = name] \in FolderNode
  BY <1>2 DEF FolderNode
<1>4. t = [tree EXCEPT ![i] = [tree[i] EXCEPT !.name = name]]
  OBVIOUS
<1>5. /\ t[i] \in Node /\ t[i].type = tree[i].type /\ t[i].ancestor = tree[i].ancestor
      /\ \A j \in ItemId : j # i => t[j] = tree[j]
  <2>1. t[i] = [tree[i] EXCEPT !.name = name]
    BY <1>1, <1>4 DEF Trees
  <2>2. t[i].type = tree[i].type /\ t[i].ancestor = tree[i].ancestor
    BY <1>2, <2>1 DEF FolderNode
  <2> QED
    BY <1>1, <1>3, <1>4, <2>1, <2>2 DEF Trees, Node
<1>6. t \in Trees
  <2>1. t = [j \in ItemId |-> IF j = i THEN t[i] ELSE tree[j]]
    BY <1>1, <1>4, <1>5 DEF Trees
  <2> HIDE DEF t
  <2> QED
    BY <1>1, <1>5, <2>1 DEF Trees
<1> HIDE DEF t
<1>7. \A j \in ItemId : /\ t[j] = NoItem <=> tree[j] = NoItem
                        /\ t[j] # NoItem => /\ t[j].type = tree[j].type
                                            /\ t[j].ancestor = tree[j].ancestor
  BY <1>1, <1>5, ItemFacts
<1>8. FoldersOf(t) = FoldersOf(tree) /\ Hung(t)
  <2>1. FoldersOf(t) = FoldersOf(tree)
    BY <1>7 DEF FoldersOf
  <2> QED
    BY <1>1, <1>7, <2>1 DEF Hung
<1>9. t \in HungTrees /\ t[i] # NoItem /\ tree[i].ancestor \in Container \cup FoldersOf(t)
  BY <1>1, <1>6, <1>7, <1>8 DEF HungTrees, Hung
<1>10. appendSubItem(t, i, tree[i].ancestor) \in HungTrees
  BY <1>1, <1>9, SubItemAppended DEF TreesWith
<1> QED
  BY <1>10 DEF renamed, t

movedInOrder(tree, dest, order) == FoldLeft(LAMBDA t, i : appendSubItem(t, i, dest), tree, order)

\* Items that are moved one after the other, in any order.
LEMMA ItemsMoved ==
  ASSUME NEW tree \in HungTrees, NEW dest \in Container \cup FoldersOf(tree),
         NEW n \in Nat, NEW order, DOMAIN order = 1..n,
         \A k \in 1..n : order[k] \in ItemId /\ tree[order[k]] # NoItem
  PROVE  movedInOrder(tree, dest, order) \in HungTrees
<1> DEFINE V == TreesWith(FoldersOf(tree), AssetsOf(tree))
           step == [k \in 1..n |-> [t \in V |-> appendSubItem(t, order[k], dest)]]
           Is(f) == f = [s \in SUBSET (1..n) |->
                           IF s = {} THEN tree
                           ELSE appendSubItem(f[s \ {Max(s)}], order[Max(s)], dest)]
           F == CHOOSE f : Is(f)
<1>1. tree \in V
  BY DEF TreesWith
<1>2. ASSUME NEW t \in V, NEW k \in 1..n
      PROVE  appendSubItem(t, order[k], dest) \in V
  <2>1. t \in HungTrees /\ FoldersOf(t) = FoldersOf(tree) /\ AssetsOf(t) = AssetsOf(tree)
    BY DEF TreesWith
  <2>2. order[k] \in FoldersOf(tree) \cup AssetsOf(tree)
    <3>1. order[k] \in ItemId /\ tree[order[k]] # NoItem
      OBVIOUS
    <3> QED
      BY <3>1, TreeFacts DEF HungTrees
  <2>3. order[k] \in ItemId /\ t[order[k]] # NoItem
    BY <2>1, <2>2 DEF FoldersOf, AssetsOf
  <2> QED
    BY <2>1, <2>3, SubItemAppended
<1> HIDE DEF V
<1>3. step \in [1..n -> [V -> V]]
  BY <1>2
<1>4. \A s \in SUBSET (1..n) : s # {} => Max(s) \in 1..n
  BY LastOf
<1>5. PICK f : IsFold(f, n, V, tree, step)
  <2> HIDE DEF step
  <2> QED
    BY <1>1, <1>3, Folds
<1>6. Is(f)
  BY <1>4, <1>5 DEF IsFold
<1>7. Is(F)
  BY <1>6
<1>8. movedInOrder(tree, dest, order) = F[1..n]
  BY DEF movedInOrder, FoldLeft, MapThenFoldSet
<1> HIDE DEF F
<1>9. F[{}] = tree
  BY <1>7
<1>10. ASSUME NEW k \in 1..n, F[(1..k) \ {Max(1..k)}] \in V
       PROVE  F[1..k] \in V
  <2>1. (1..k) \in SUBSET (1..n) /\ (1..k) # {} /\ Max(1..k) \in 1..n
    <3>1. (1..k) \in SUBSET (1..n) /\ k \in 1..k
      OBVIOUS
    <3> QED
      BY <1>4, <3>1
  <2>2. F[1..k] = appendSubItem(F[(1..k) \ {Max(1..k)}], order[Max(1..k)], dest)
    BY <1>7, <2>1
  <2> QED
    BY <1>2, <1>10, <2>1, <2>2
<1>11. F[1..n] \in V
  BY <1>1, <1>9, <1>10, FoldsOver
<1> QED
  BY <1>8, <1>11 DEF V, TreesWith

withoutBelow(tree, S) == [i \in ItemId |-> IF i \in AndBelow(tree, S) THEN NoItem ELSE tree[i]]

\* What is below an item that is removed is removed with it.
LEMMA ItemsRemoved ==
  ASSUME NEW tree \in HungTrees, NEW S
  PROVE  withoutBelow(tree, S) \in HungTrees
<1> DEFINE gone == AndBelow(tree, S)
           u == withoutBelow(tree, S)
<1>1. tree \in Trees /\ Hung(tree) /\ Hanging(tree, gone) \subseteq gone
  BY BelowClosed DEF HungTrees
<1>2. u = [i \in ItemId |-> IF i \in gone THEN NoItem ELSE tree[i]]
  BY DEF withoutBelow
<1> HIDE DEF gone, u
<1>3. u \in Trees
  BY <1>1, <1>2 DEF Trees
<1>4. FoldersOf(u) = FoldersOf(tree) \ gone
  BY <1>2 DEF FoldersOf
<1>5. Hung(u)
  <2> SUFFICES ASSUME NEW i \in ItemId, u[i] # NoItem
               PROVE  u[i].ancestor \in Container \cup FoldersOf(u)
    BY DEF Hung
  <2>1. i \notin gone /\ u[i] = tree[i]
    BY <1>2
  <2>2. tree[i].ancestor \in Container \cup FoldersOf(tree) /\ tree[i].ancestor \notin gone
    BY <1>1, <2>1 DEF Hung, Hanging
  <2> QED
    BY <1>4, <2>1, <2>2
<1> QED
  BY <1>3, <1>5 DEF HungTrees, u

\* A new item below a container or a folder.
LEMMA ItemAdded ==
  ASSUME NEW tree \in HungTrees, NEW i \in ItemId, tree[i] = NoItem, NEW x \in Node,
         x.ancestor \in Container \cup FoldersOf(tree)
  PROVE  [tree EXCEPT ![i] = x] \in HungTrees
<1> DEFINE u == [tree EXCEPT ![i] = x]
<1>1. tree \in Trees /\ Hung(tree)
  BY DEF HungTrees
<1>2. u \in Trees /\ u[i] = x /\ \A j \in ItemId : j # i => u[j] = tree[j]
  BY <1>1 DEF Trees
<1> HIDE DEF u
<1>3. FoldersOf(tree) \subseteq FoldersOf(u)
  BY <1>2 DEF FoldersOf
<1>4. Hung(u)
  BY <1>1, <1>2, <1>3 DEF Hung
<1> QED
  BY <1>2, <1>4 DEF HungTrees, u

LEMMA ImageFinite ==
  ASSUME NEW f, IsFiniteSet(DOMAIN f)
  PROVE  IsFiniteSet({f[x] : x \in DOMAIN f})
<1> DEFINE T == {f[x] : x \in DOMAIN f}
           g == [x \in DOMAIN f |-> f[x]]
<1>1. g \in Surjection(DOMAIN f, T)
  BY DEF Surjection
<1> QED
  BY <1>1, FS_Surjection

---------------------------------------------------------------------------
(* The tree that is built when the application starts *)

LEMMA Beginning ==
  ASSUME NEW p \in Path, NEW n \in 1..Len(p)
  PROVE  SubSeq(p, 1, n) \in Path /\ Len(SubSeq(p, 1, n)) = n
<1> DEFINE q == SubSeq(p, 1, n)
<1>1. p \in Seq(Name) /\ Len(p) \in Nat /\ \E c \in Container : p[1] = <<c>>
  BY PathFacts
<1>2. \A k \in 1..n : p[k] \in Name
  <2> TAKE k \in 1..n
  <2>1. k \in 1..Len(p)
    BY <1>1
  <2> QED
    BY <1>1, <2>1, ElementOfSeq
<1>3. q \in Seq(Name) /\ Len(q) = n /\ \A k \in 1..n : q[k] = p[k]
  <2>1. /\ q \in Seq(Name) /\ Len(q) = IF 1 <= n THEN n - 1 + 1 ELSE 0
        /\ \A k \in 1..n - 1 + 1 : q[k] = p[1 + k - 1]
    BY <1>1, <1>2, SubSeqProperties
  <2>2. n \in Int /\ 1 <= n
    BY <1>1
  <2>3. \A k \in 1..n : k \in 1..n - 1 + 1 /\ 1 + k - 1 = k
    BY <2>2
  <2> HIDE DEF q
  <2> QED
    BY <2>1, <2>2, <2>3
<1>4. 1 \in 1..n /\ n >= 1
  BY <1>1
<1> HIDE DEF q
<1>5. q[1] = p[1] /\ Len(q) >= 1
  BY <1>3, <1>4
<1>6. q \in Path
  BY <1>1, <1>3, <1>5 DEF Path, FolderPath, Rooted
<1> QED
  BY <1>3, <1>6 DEF q

LEMMA FolderPaths ==
  ASSUME NEW d \in Tables
  PROVE  /\ IsFiniteSet(folderPathsOf(d))
         /\ \A p \in folderPathsOf(d) :
              /\ p \in Path /\ Len(p) >= 2 /\ Last(p) \in Name /\ Front(p) \in Path
              /\ Len(Front(p)) >= 2 => Front(p) \in folderPathsOf(d)
         /\ \A p \in DOMAIN d.paths : Len(p) >= 2 => p \in folderPathsOf(d)
<1> DEFINE above(p) == {SubSeq(p, 1, n) : n \in 2..Len(p)}
           all == {above(p) : p \in DOMAIN d.paths}
<1>1. DOMAIN d.paths \subseteq Path /\ IsFiniteSet(DOMAIN d.paths)
  BY TableFacts
<1>2. \A p \in DOMAIN d.paths : IsFiniteSet(above(p))
  <2> TAKE p \in DOMAIN d.paths
  <2> DEFINE f == [n \in 2..Len(p) |-> SubSeq(p, 1, n)]
  <2>1. Len(p) \in Nat
    BY <1>1, PathFacts
  <2>2. IsFiniteSet(DOMAIN f)
    BY <2>1, FS_Interval
  <2>3. IsFiniteSet({f[x] : x \in DOMAIN f})
    <3> HIDE DEF f
    <3> QED
      BY <2>2, ImageFinite
  <2>4. above(p) = {f[x] : x \in DOMAIN f}
    OBVIOUS
  <2> QED
    BY <2>3, <2>4
<1>3. IsFiniteSet(all)
  <2> DEFINE f == [p \in DOMAIN d.paths |-> above(p)]
  <2> HIDE DEF above
  <2>1. IsFiniteSet(DOMAIN f) /\ all = {f[x] : x \in DOMAIN f}
    BY <1>1
  <2> HIDE DEF f
  <2> QED
    BY <2>1, ImageFinite
<1>4. folderPathsOf(d) = UNION all
  BY DEF folderPathsOf
<1>5. IsFiniteSet(folderPathsOf(d))
  <2>1. \A T \in all : IsFiniteSet(T)
    BY <1>2
  <2> HIDE DEF all
  <2> QED
    BY <1>3, <1>4, <2>1, FS_UNION
<1>6. \A q : q \in folderPathsOf(d) <=> \E p \in DOMAIN d.paths : \E n \in 2..Len(p) : q = SubSeq(p, 1, n)
  BY <1>4
<1> HIDE DEF all, above
<1>7. ASSUME NEW q \in folderPathsOf(d)
      PROVE  /\ q \in Path /\ Len(q) >= 2 /\ Last(q) \in Name /\ Front(q) \in Path
             /\ Len(Front(q)) >= 2 => Front(q) \in folderPathsOf(d)
  <2>0. PICK p \in DOMAIN d.paths : \E n \in 2..Len(p) : q = SubSeq(p, 1, n)
    BY <1>6
  <2>1. PICK n \in 2..Len(p) : q = SubSeq(p, 1, n)
    BY <2>0
  <2>2. p \in Path /\ p \in Seq(Name) /\ Len(p) \in Nat
    BY <1>1, PathFacts
  <2>3. n \in Nat /\ n >= 2 /\ n \in 1..Len(p) /\ n - 1 \in 1..Len(p) /\ n - 1 \in 1..n
    BY <2>2
  <2>4. q \in Path /\ Len(q) = n
    BY <2>1, <2>2, <2>3, Beginning
  <2>5. Last(q) \in Name
    <3>1. n \in 1..Len(q)
      BY <2>3, <2>4
    <3>2. q \in Seq(Name)
      BY <2>4, PathFacts
    <3> QED
      BY <2>4, <3>1, <3>2, ElementOfSeq DEF Last
  <2>6. Front(q) = SubSeq(p, 1, n - 1)
    <3>1. SubSeq(SubSeq(p, 1, n), 1, n - 1) = SubSeq(p, 1 + 1 - 1, 1 + (n - 1) - 1)
      <4>1. 1 \in 1..Len(p) /\ 1 \in 1..(n - 1 + 1) /\ n - 1 \in 1..(n - 1 + 1)
        BY <2>2, <2>3
      <4> QED
        BY <2>2, <2>3, <4>1, SubSeqOfSubSeq
    <3>2. 1 + 1 - 1 = 1 /\ 1 + (n - 1) - 1 = n - 1
      BY <2>3
    <3> QED
      BY <2>1, <2>4, <3>1, <3>2 DEF Front
  <2>7. Front(q) \in Path /\ Len(Front(q)) = n - 1
    BY <2>2, <2>3, <2>6, Beginning
  <2>8. Len(Front(q)) >= 2 => Front(q) \in folderPathsOf(d)
    <3> SUFFICES ASSUME Len(Front(q)) >= 2
                 PROVE  Front(q) \in folderPathsOf(d)
      OBVIOUS
    <3>1. n - 1 \in 2..Len(p)
      BY <2>2, <2>3, <2>7
    <3> QED
      BY <1>6, <2>6, <3>1
  <2> QED
    BY <2>3, <2>4, <2>5, <2>7, <2>8
<1>8. ASSUME NEW p \in DOMAIN d.paths, Len(p) >= 2
      PROVE  p \in folderPathsOf(d)
  <2>1. p \in Seq(Name) /\ Len(p) \in Nat
    BY <1>1, PathFacts
  <2>2. Len(p) \in 2..Len(p) /\ SubSeq(p, 1, Len(p)) = p
    BY <1>8, <2>1, SubSeqFull
  <2> QED
    BY <1>6, <2>2
<1> QED
  BY <1>5, <1>7, <1>8

LEMMA StoredAssets ==
  ASSUME NEW d \in Tables
  PROVE  /\ IsFiniteSet(storedAssets(d))
         /\ \A a \in storedAssets(d) : a[1] \in Hash /\ a[2] \in DOMAIN d.paths
<1> DEFINE at(p) == (d.paths[p] \cap d.assets) \X {p}
           all == {at(p) : p \in DOMAIN d.paths}
<1>1. /\ IsFiniteSet(DOMAIN d.paths) /\ IsFiniteSet(d.assets) /\ d.assets \subseteq Hash
  BY TableFacts
<1>2. \A p \in DOMAIN d.paths : IsFiniteSet(at(p))
  <2> TAKE p \in DOMAIN d.paths
  <2>1. IsFiniteSet(d.paths[p] \cap d.assets) /\ IsFiniteSet({p})
    BY <1>1, FS_Subset, FS_Singleton
  <2> QED
    BY <2>1, FS_Product
<1>3. IsFiniteSet(all)
  <2> DEFINE f == [p \in DOMAIN d.paths |-> at(p)]
  <2> HIDE DEF at
  <2>1. IsFiniteSet(DOMAIN f) /\ all = {f[x] : x \in DOMAIN f}
    BY <1>1
  <2> HIDE DEF f
  <2> QED
    BY <2>1, ImageFinite
<1>4. storedAssets(d) = UNION all
  BY DEF storedAssets
<1>5. IsFiniteSet(storedAssets(d))
  <2>1. \A T \in all : IsFiniteSet(T)
    BY <1>2
  <2> HIDE DEF all
  <2> QED
    BY <1>3, <1>4, <2>1, FS_UNION
<1>6. \A a \in storedAssets(d) : \E p \in DOMAIN d.paths : a \in d.assets \X {p}
  BY <1>4
<1> QED
  BY <1>1, <1>5, <1>6

LEMMA EnumeratedSequence ==
  ASSUME NEW S, IsFiniteSet(S)
  PROVE  /\ DOMAIN SetToSeq(S) = 1..Cardinality(S)
         /\ Len(SetToSeq(S)) = Cardinality(S)
         /\ Cardinality(S) \in Nat
         /\ \A k \in 1..Cardinality(S) : SetToSeq(S)[k] \in S
         /\ \A x \in S : \E k \in 1..Cardinality(S) : SetToSeq(S)[k] = x
<1> DEFINE s == SetToSeq(S)
           n == Cardinality(S)
<1>1. /\ n \in Nat /\ s \in [1..n -> S]
      /\ \A x \in S : \E k \in 1..n : s[k] = x
  BY Enumerated
<1> HIDE DEF s, n
<1>2. s \in Seq(S) /\ Len(s) = n
  BY <1>1
<1> QED
  BY <1>1, <1>2 DEF s, n

LEMMA TreeBuilt ==
  ASSUME NEW d \in Tables,
         Cardinality(folderPathsOf(d)) + Cardinality(storedAssets(d)) <= MaxItems
  PROVE  TreeOf(d) \in HungTrees
<1> DEFINE folders == SetToSeq(folderPathsOf(d))
           assets == SetToSeq(storedAssets(d))
           itemAt(p) == IF Len(p) = 1 THEN p[1][1]
                        ELSE CHOOSE n \in DOMAIN folders : folders[n] = p
           n == Cardinality(folderPathsOf(d))
           m == Cardinality(storedAssets(d))
           tree == TreeOf(d)
<1>1. /\ DOMAIN folders = 1..n /\ Len(folders) = n /\ n \in Nat
      /\ \A k \in 1..n : folders[k] \in folderPathsOf(d)
      /\ \A p \in folderPathsOf(d) : \E k \in 1..n : folders[k] = p
  BY FolderPaths, EnumeratedSequence
<1>2. /\ DOMAIN assets = 1..m /\ m \in Nat
      /\ \A k \in 1..m : assets[k][1] \in Hash /\ assets[k][2] \in DOMAIN d.paths
  BY StoredAssets, EnumeratedSequence
<1>3. /\ MaxItems \in Nat /\ n + m <= MaxItems /\ DOMAIN d.paths \subseteq Path
      /\ \A p \in folderPathsOf(d) :
              /\ p \in Path /\ Len(p) >= 2 /\ Last(p) \in Name /\ Front(p) \in Path
              /\ Len(Front(p)) >= 2 => Front(p) \in folderPathsOf(d)
      /\ \A p \in DOMAIN d.paths : Len(p) >= 2 => p \in folderPathsOf(d)
  BY BoundsAssumption, FolderPaths, TableFacts
<1>4. tree = [i \in ItemId |->
                CASE i \in DOMAIN folders ->
                       folderItem(Last(folders[i]), itemAt(Front(folders[i])), folders[i])
                  [] i - Len(folders) \in DOMAIN assets ->
                       LET a == assets[i - Len(folders)] IN assetItem(a[1], itemAt(a[2]), a[2])
                  [] OTHER -> NoItem]
  BY DEF TreeOf
<1>5. \A p \in Path : (Len(p) >= 2 => p \in folderPathsOf(d)) => itemAt(p) \in Container \cup (1..n)
  <2> SUFFICES ASSUME NEW p \in Path, Len(p) >= 2 => p \in folderPathsOf(d)
               PROVE  itemAt(p) \in Container \cup (1..n)
    OBVIOUS
  <2>1. CASE Len(p) = 1
    <3>1. PICK c \in Container : p[1] = <<c>>
      BY PathFacts
    <3> QED
      BY <2>1, <3>1
  <2>2. CASE Len(p) # 1
    <3>1. p \in folderPathsOf(d)
      <4>1. Len(p) \in Nat /\ Len(p) >= 1
        BY PathFacts
      <4>2. \A k \in Nat : k >= 1 /\ k # 1 => k >= 2
        OBVIOUS
      <4>3. Len(p) >= 2
        BY <2>2, <4>1, <4>2
      <4> QED
        BY <4>3
    <3>2. \E k \in 1..n : folders[k] = p
      BY <1>1, <3>1
    <3> HIDE DEF folders, n
    <3> QED
      BY <1>1, <2>2, <3>2
  <2> QED
    BY <2>1, <2>2
<1> HIDE DEF tree, folders, assets, n, m, itemAt
<1>6. 1..n \subseteq ItemId
  BY <1>1, <1>2, <1>3 DEF ItemId
<1>7. ASSUME NEW i \in 1..n
      PROVE  tree[i] \in FolderNode /\ tree[i].ancestor \in Container \cup (1..n)
  <2> DEFINE p == folders[i]
  <2>1. /\ p \in Path /\ Len(p) >= 2 /\ Last(p) \in Name
        /\ itemAt(Front(p)) \in Container \cup (1..n)
    BY <1>1, <1>3, <1>5
  <2>2. i \in ItemId /\ i - n \notin 1..m
    BY <1>1, <1>2, <1>6
  <2>3. tree[i] = [type |-> "Folder", name |-> Last(p), ancestor |-> itemAt(Front(p)), path |-> p]
    BY <1>1, <1>2, <1>4, <2>2 DEF folderItem
  <2> HIDE DEF p
  <2>4. itemAt(Front(p)) \in Place
    BY <1>6, <2>1 DEF Place
  <2> QED
    BY <2>1, <2>3, <2>4 DEF FolderNode
<1>8. ASSUME NEW i \in ItemId, i \notin 1..n
      PROVE  tree[i] # NoItem => tree[i] \in AssetNode /\ tree[i].ancestor \in Container \cup (1..n)
  <2>1. CASE i - n \in 1..m
    <3> DEFINE a == assets[i - n]
    <3>1. a[1] \in Hash /\ a[2] \in Path /\ itemAt(a[2]) \in Container \cup (1..n)
      BY <1>2, <1>3, <1>5, <2>1
    <3>2. tree[i] = [type |-> "Asset", hash |-> a[1], ancestor |-> itemAt(a[2]), path |-> a[2]]
      BY <1>1, <1>2, <1>4, <1>8, <2>1 DEF assetItem
    <3> HIDE DEF a
    <3>3. itemAt(a[2]) \in Place
      BY <1>6, <3>1 DEF Place
    <3> QED
      BY <3>1, <3>2, <3>3 DEF AssetNode
  <2>2. CASE i - n \notin 1..m
    BY <1>1, <1>2, <1>4, <1>8, <2>2
  <2> QED
    BY <2>1, <2>2
<1>9. tree \in Trees
  <2>1. tree = [i \in ItemId |-> tree[i]]
    BY <1>4
  <2>2. \A i \in ItemId : tree[i] \in Node \cup {NoItem}
    BY <1>7, <1>8 DEF Node
  <2> QED
    BY <2>1, <2>2 DEF Trees
<1>10. 1..n \subseteq FoldersOf(tree)
  <2> SUFFICES ASSUME NEW i \in 1..n
               PROVE  i \in FoldersOf(tree)
    OBVIOUS
  <2>1. i \in ItemId /\ tree[i] \in Node /\ tree[i].type = "Folder"
    BY <1>6, <1>7 DEF Node, FolderNode
  <2> QED
    BY <2>1, ItemFacts DEF FoldersOf
<1>11. Hung(tree)
  BY <1>7, <1>8, <1>10 DEF Hung
<1> QED
  BY <1>9, <1>11 DEF HungTrees, tree

---------------------------------------------------------------------------
(* The toys box *)

Box ==
  /\ db \in Tables
  /\ files \subseteq Hash
  /\ items \in HungTrees
  /\ confused \in BOOLEAN
  /\ crashed \in BOOLEAN
  /\ operations \in 0..MaxOperations
  /\ ~crashed => db \in TidyTables /\ files = db.assets

LEMMA BoxStored ==
  ASSUME Box
  PROVE  AssetsStored
<1>1. db \in Tables /\ items \in Trees /\ Hung(items)
  BY DEF Box, HungTrees
<1>2. isDatabase(db)
  BY <1>1, TableFacts DEF isDatabase, Path
<1>3. ASSUME NEW i \in Existing
      PROVE  isItem(items[i])
  <2>1. i \in ItemId /\ items[i] # NoItem /\ items[i] \in Node
    BY <1>1, TreeFacts DEF Existing
  <2>2. items[i].ancestor \in Container \cup Folders
    BY <1>1, <2>1 DEF Hung, Folders
  <2>3. items[i].path \in FolderPath
    BY <2>1, ItemFacts DEF Path
  <2>4. \/ items[i].type = "Folder" /\ items[i].name \in Name
        \/ items[i].type = "Asset" /\ items[i].hash \in Hash
    BY <2>1, ItemFacts
  <2> QED
    BY <2>2, <2>3, <2>4 DEF isItem
<1>4. DOMAIN items = ItemId
  BY <1>1 DEF Trees
<1>5. TypeOK
  BY <1>2, <1>3, <1>4 DEF Box, TypeOK
<1> QED
  BY <1>5 DEF Box, AssetsStored, AssetsInOneFolder, FilesFollowAssets, TidyTables

LEMMA BoxAtFirst ==
  ASSUME Init
  PROVE  Box
<1>1. <<>> \in [{} -> SUBSET Hash] /\ <<>> \in [{} -> Path]
  OBVIOUS
<1>2. <<>> \in Folding /\ <<>> \in Linking /\ DOMAIN <<>> = {}
  BY <1>1 DEF Folding, Linking, Partial
<1>3. IsFiniteSet({})
  BY FS_EmptySet
<1>4. db = [paths |-> <<>>, assets |-> {}, assetToPath |-> <<>>]
  BY DEF Init, EmptyDatabase
<1>5. db \in Tables
  BY <1>2, <1>3, <1>4 DEF Tables
<1>6. EachInOneFolder(db)
  BY <1>2, <1>4 DEF EachInOneFolder
<1>7. items \in Trees /\ \A i \in ItemId : items[i] = NoItem
  BY DEF Init, Trees
<1>8. items \in HungTrees
  BY <1>7 DEF HungTrees, Hung
<1>9. db \in TidyTables /\ files = db.assets /\ files \subseteq Hash
  BY <1>4, <1>5, <1>6 DEF Init, TidyTables
<1>10. confused \in BOOLEAN /\ crashed \in BOOLEAN /\ operations \in 0..MaxOperations
  <2>1. operations \in 0..MaxOperations
    BY BoundsAssumption DEF Init
  <2>2. confused \in BOOLEAN /\ crashed \in BOOLEAN
    BY DEF Init
  <2> QED
    BY <2>1, <2>2
<1> QED
  BY <1>5, <1>8, <1>9, <1>10 DEF Box

LEMMA Operated ==
  ASSUME Box, Operate
  PROVE  operations' \in 0..MaxOperations
BY BoundsAssumption DEF Box, Operate

\* Where something can be put.
LEMMA ParentFacts ==
  ASSUME Box, NEW parent \in Movable \cup Folders
  PROVE  pathOf(parent) \in Path /\ parent \in Container \cup FoldersOf(items) /\ parent \in Place
<1>1. items \in Trees
  BY DEF Box, HungTrees
<1>2. CASE parent \in Container
  BY <1>2, ContainerPath DEF pathOf, Place
<1>3. CASE parent \notin Container
  <2>1. parent \in FoldersOf(items) /\ parent \in ItemId /\ items[parent] # NoItem
    BY <1>3, ContainersAssumption DEF Folders, FoldersOf
  <2>2. items[parent].path \in Path
    BY <1>1, <2>1, TreeFacts, ItemFacts
  <2> QED
    BY <1>3, <2>1, <2>2 DEF pathOf, Place
<1> QED
  BY <1>2, <1>3


LEMMA FolderMade ==
  ASSUME Box, NEW parent, createFolder(parent)
  PROVE  Box'
<1>1. PICK name \in NewNames, i \in Fresh(items) :
        /\ Append(pathOf(parent), name) \notin DOMAIN db.paths
        /\ db' = createFolderInDb(db, Append(pathOf(parent), name))
        /\ items' = [items EXCEPT ![i] = folderItem(name, parent, Append(pathOf(parent), name))]
  BY DEF createFolder
<1> DEFINE p == Append(pathOf(parent), name)
           x == folderItem(name, parent, p)
<1>2. /\ pathOf(parent) \in Path /\ parent \in Container \cup FoldersOf(items)
      /\ parent \in Place /\ name \in Name
  BY ParentFacts, NamesAssumption DEF createFolder
<1>3. p \in Path /\ Len(p) >= 2
  <2>1. p \in Path /\ Len(p) = Len(pathOf(parent)) + 1
    BY <1>2, PathAppended
  <2>2. Len(pathOf(parent)) \in Nat /\ Len(pathOf(parent)) >= 1
    BY <1>2, PathFacts
  <2> HIDE DEF p
  <2> QED
    BY <2>1, <2>2
<1>4. db' = createFolderInDb(db, p) /\ p \notin DOMAIN db.paths /\ items' = [items EXCEPT ![i] = x]
  BY <1>1
<1> HIDE DEF p
<1>5. db \in Tables
  BY DEF Box
<1>6. db' \in Tables /\ db'.assets = db.assets /\ (db \in TidyTables => db' \in TidyTables)
  BY <1>3, <1>4, <1>5, FolderCreated
<1>7. x \in Node /\ x.ancestor = parent
  BY <1>2, <1>3 DEF folderItem, FolderNode, Node
<1>8. i \in ItemId /\ items[i] = NoItem /\ items \in HungTrees
  BY DEF Fresh, Box
<1> HIDE DEF x
<1>9. items' \in HungTrees
  BY <1>2, <1>4, <1>7, <1>8, ItemAdded
<1>10. operations' \in 0..MaxOperations
  BY Operated DEF createFolder
<1>11. confused' \in BOOLEAN
  BY DEF createFolder, Box, Ambiguous
<1> QED
  BY <1>6, <1>9, <1>10, <1>11 DEF Box, createFolder

\* An asset that was not there is added below a container or a folder.
LEMMA AssetPut ==
  ASSUME Box, NEW parent \in Movable \cup Folders \cup {Downloaded}, Operate,
         NEW h \in Hash \ files, NEW i \in Fresh(items),
         files' = files \cup {h},
         db' = addAsset(db, h, pathOf(parent)),
         items' = [items EXCEPT ![i] = assetItem(h, parent, pathOf(parent))],
         UNCHANGED <<confused, crashed>>
  PROVE  Box'
<1> DEFINE p == pathOf(parent)
           x == assetItem(h, parent, p)
<1>1. p \in Path /\ parent \in Container \cup FoldersOf(items) /\ parent \in Place
  <2>1. CASE parent \in Movable \cup Folders
    BY <2>1, ParentFacts
  <2>2. CASE parent = Downloaded
    BY <2>2, ContainersAssumption, ContainerPath DEF pathOf, Place
  <2> QED
    BY <2>1, <2>2
<1>2. db' = addAsset(db, h, p) /\ items' = [items EXCEPT ![i] = x] /\ db \in Tables
  BY DEF Box
<1> HIDE DEF p
<1>3. /\ db' \in Tables /\ db'.assets = db.assets \cup {h}
      /\ db \in TidyTables /\ h \notin db.assets => db' \in TidyTables
  BY <1>1, <1>2, AssetAdded
<1>4. x \in Node /\ x.ancestor = parent
  BY <1>1 DEF assetItem, AssetNode, Node
<1>5. i \in ItemId /\ items[i] = NoItem /\ items \in HungTrees
  BY DEF Fresh, Box
<1> HIDE DEF x
<1>6. items' \in HungTrees
  <2>1. [items EXCEPT ![i] = x] \in HungTrees
    BY <1>1, <1>4, <1>5, ItemAdded
  <2> QED
    BY <1>2, <2>1
<1>7. operations' \in 0..MaxOperations
  BY Operated
<1> QED
  BY <1>3, <1>6, <1>7 DEF Box

LEMMA AssetsInserted ==
  ASSUME Box, NEW parent, insertAssets(parent)
  PROVE  Box'
<1>1. PICK h \in Hash \ files, i \in Fresh(items) :
        /\ files' = files \cup {h}
        /\ db' = addAsset(db, h, pathOf(parent))
        /\ items' = [items EXCEPT ![i] = assetItem(h, parent, pathOf(parent))]
  BY DEF insertAssets
<1>2. parent \in Movable \cup Folders /\ Operate /\ UNCHANGED <<confused, crashed>>
  BY DEF insertAssets
<1> QED
  BY <1>1, <1>2, AssetPut

LEMMA AssetIntegrated ==
  ASSUME Box, integrateAsset
  PROVE  Box'
<1>1. PICK h \in Hash, i \in Fresh(items) :
        /\ mayIntegrate(h)
        /\ files' = files \cup {h}
        /\ db' = addAsset(db, h, containerPath(Downloaded))
        /\ items' = [items EXCEPT ![i] = assetItem(h, Downloaded, containerPath(Downloaded))]
  BY DEF integrateAsset
<1>2. Operate /\ UNCHANGED <<confused, crashed>>
  BY DEF integrateAsset
<1>3. h \in Hash \ files /\ pathOf(Downloaded) = containerPath(Downloaded)
  BY <1>1, ContainersAssumption DEF mayIntegrate, pathOf
<1> QED
  BY <1>1, <1>2, <1>3, AssetPut

LEMMA FolderCalled ==
  ASSUME Box, NEW i, renameFolder(i)
  PROVE  Box'
<1>1. PICK newName \in GivenNames \ {items[i].name} :
        /\ db' \in renameFolderInDb(db, items[i].path, Append(Front(items[i].path), newName))
        /\ items' = renamed(items, i, newName)
  BY DEF renameFolder
<1> DEFINE p == items[i].path
           r == Append(Front(p), newName)
           V == {d \in Tables : d.assets = db.assets}
           W == {d \in TidyTables : d.assets = db.assets}
<1>2. i \in FoldersOf(items) /\ newName \in Name /\ items \in HungTrees /\ db \in Tables
  BY NamesAssumption DEF renameFolder, Folders, Box
<1>3. p \in Path /\ Len(p) >= 2
  <2>1. items \in Trees /\ i \in ItemId /\ items[i] # NoItem /\ items[i].type = "Folder"
    BY <1>2 DEF HungTrees, FoldersOf
  <2> QED
    BY <2>1, TreeFacts, ItemFacts
<1> HIDE DEF p
<1>4. r \in Path /\ Len(r) >= 2
  <2>1. Len(p) \in Nat
    BY <1>3, PathFacts
  <2>2. Len(p) - 1 \in 1..Len(p) /\ Len(p) - 1 >= 1
    BY <1>3, <2>1
  <2>3. Front(p) \in Path /\ Len(Front(p)) = Len(p) - 1
    BY <1>3, <2>2, Beginning DEF Front
  <2>4. r \in Path /\ Len(r) = Len(Front(p)) + 1
    BY <1>2, <2>3, PathAppended
  <2> HIDE DEF r
  <2> QED
    BY <2>1, <2>2, <2>3, <2>4
<1>5. db' \in renameFolderInDb(db, p, r)
  BY <1>1 DEF p
<1> HIDE DEF r
<1>6. db' \in Tables /\ db'.assets = db.assets
  <2>1. Closed(V) /\ db \in V
    BY <1>2, SameAssets
  <2> HIDE DEF V
  <2>2. renameFolderInDb(db, p, r) \subseteq V
    BY <1>3, <1>4, <2>1, FolderRenamed
  <2> QED
    BY <1>5, <2>2 DEF V
<1>7. ASSUME db \in TidyTables
      PROVE  db' \in TidyTables
  <2>1. Closed(W) /\ db \in W
    BY <1>7, SameAssets
  <2> HIDE DEF W
  <2>2. renameFolderInDb(db, p, r) \subseteq W
    BY <1>3, <1>4, <2>1, FolderRenamed
  <2> QED
    BY <1>5, <2>2 DEF W
<1>8. items' \in HungTrees
  BY <1>1, <1>2, ItemRenamed
<1>9. operations' \in 0..MaxOperations
  BY Operated DEF renameFolder
<1>10. confused' \in BOOLEAN
  BY DEF renameFolder, Box, Ambiguous
<1> QED
  BY <1>6, <1>7, <1>8, <1>9, <1>10 DEF Box, renameFolder

\* A selection is of items that exist.
LEMMA SelectionFacts ==
  ASSUME Box, NEW S \in Selections, NEW T \in TopMost(S)
  PROVE  /\ IsFiniteSet(T) /\ T \subseteq ItemId
         /\ \A i \in T : items[i] # NoItem
         /\ IsFiniteSet(pathsOf(T)) /\ pathsOf(T) \subseteq Path
         /\ hashesOf(T) \subseteq db.assets
<1>1. S \subseteq {i \in ItemId : items[i] # NoItem} /\ T \subseteq S
  BY ReachableExist DEF Selections, TopMost
<1>2. T \subseteq ItemId /\ (\A i \in T : items[i] # NoItem) /\ items \in Trees
  BY <1>1 DEF Box, HungTrees
<1>3. IsFiniteSet(T)
  <2>1. IsFiniteSet(ItemId)
    BY BoundsAssumption, FS_Interval DEF ItemId
  <2> QED
    BY <1>2, <2>1, FS_Subset
<1>4. pathsOf(T) \subseteq Path
  <2>1. \A i \in T : items[i].path \in Path
    BY <1>2, TreeFacts, ItemFacts
  <2> QED
    BY <2>1 DEF pathsOf
<1>5. IsFiniteSet(pathsOf(T))
  <2> DEFINE f == [i \in T \cap Folders |-> items[i].path]
  <2>1. IsFiniteSet(DOMAIN f)
    BY <1>3, FS_Subset
  <2>2. pathsOf(T) = {f[i] : i \in DOMAIN f}
    BY DEF pathsOf
  <2> HIDE DEF f
  <2> QED
    BY <2>1, <2>2, ImageFinite
<1> QED
  BY <1>2, <1>3, <1>4, <1>5 DEF hashesOf

LEMMA ItemsGone ==
  ASSUME Box, NEW S \in Selections, removeItems(S)
  PROVE  Box'
<1>1. PICK T \in TopMost(S) : /\ db' = dbWithout(T)
                              /\ files' = filesWithout(T)
                              /\ items' = itemsWithout(T)
  BY DEF removeItems
<1> DEFINE e == removeFolders(db, pathsOf(T))
<1>2. db \in Tables /\ db' = removeAssets(e, hashesOf(T))
  BY <1>1 DEF Box, dbWithout
<1>3. e \in Tables /\ e.assets \subseteq db.assets /\ (db \in TidyTables => e \in TidyTables)
  BY <1>2, FoldersRemoved
<1> HIDE DEF e
<1>4. db' \in Tables /\ db'.assets \subseteq db.assets /\ (db \in TidyTables => db' \in TidyTables)
  <2>1. /\ removeAssets(e, hashesOf(T)) \in Tables
        /\ removeAssets(e, hashesOf(T)).assets = e.assets \ hashesOf(T)
        /\ e \in TidyTables => removeAssets(e, hashesOf(T)) \in TidyTables
    BY <1>3, AssetsRemoved
  <2> QED
    BY <1>2, <1>3, <2>1
<1>5. files' = files \ (db.assets \ db'.assets)
  BY <1>1 DEF filesWithout
<1>6. items' \in HungTrees
  <2>1. items' = withoutBelow(items, T)
    BY <1>1 DEF itemsWithout, withoutBelow
  <2> QED
    BY <2>1, ItemsRemoved DEF Box
<1>7. operations' \in 0..MaxOperations
  BY Operated DEF removeItems
<1>8. files' \subseteq Hash /\ (files = db.assets => files' = db'.assets)
  BY <1>4, <1>5 DEF Box
<1> QED
  BY <1>4, <1>6, <1>7, <1>8 DEF Box, removeItems

LEMMA ItemsPut ==
  ASSUME Box, NEW S \in Selections, NEW dest, moveItemsToContainer(S, dest)
  PROVE  Box'
<1>1. PICK T \in TopMost(S) :
        /\ db' \in moveFoldersTo(moveAssetsTo(db, pathOf(dest), hashesOf(T)), pathOf(dest), pathsOf(T))
        /\ \E order \in SetToSeqs(T) :
             items' = FoldLeft(LAMBDA tree, i : appendSubItem(tree, i, dest), items, order)
  BY DEF moveItemsToContainer
<1>2. PICK order \in SetToSeqs(T) : items' = movedInOrder(items, dest, order)
  BY <1>1 DEF movedInOrder
<1>3. dest \in Movable \cup Folders
  BY DEF moveItemsToContainer, mayDrop
<1> DEFINE p == pathOf(dest)
           e == moveAssetsTo(db, p, hashesOf(T))
           V == {d \in Tables : d.assets = e.assets}
           W == {d \in TidyTables : d.assets = e.assets}
<1>4. p \in Path /\ dest \in Container \cup FoldersOf(items)
  BY <1>3, ParentFacts
<1>5. db' \in moveFoldersTo(e, p, pathsOf(T)) /\ db \in Tables /\ items \in HungTrees
  BY <1>1 DEF Box
<1> HIDE DEF p
<1>6. e \in Tables /\ e.assets = db.assets /\ (db \in TidyTables => e \in TidyTables)
  BY <1>4, <1>5, SelectionFacts, AssetsMoved
<1> HIDE DEF e
<1>7. IsFiniteSet(pathsOf(T)) /\ pathsOf(T) \subseteq Path
  BY SelectionFacts
<1>8. db' \in Tables /\ db'.assets = e.assets
  <2>1. Closed(V) /\ e \in V
    BY <1>6, SameAssets
  <2> HIDE DEF V
  <2>2. moveFoldersTo(e, p, pathsOf(T)) \subseteq V
    BY <1>4, <1>7, <2>1, FoldersMoved
  <2> QED
    BY <1>5, <2>2 DEF V
<1>9. ASSUME e \in TidyTables
      PROVE  db' \in TidyTables
  <2>1. Closed(W) /\ e \in W
    BY <1>9, SameAssets
  <2> HIDE DEF W
  <2>2. moveFoldersTo(e, p, pathsOf(T)) \subseteq W
    BY <1>4, <1>7, <2>1, FoldersMoved
  <2> QED
    BY <1>5, <2>2 DEF W
<1>10. items' \in HungTrees
  <2> DEFINE n == Cardinality(T)
  <2>1. n \in Nat /\ order \in [1..n -> T]
    BY SelectionFacts, OrderFacts
  <2>2. \A k \in 1..n : order[k] \in ItemId /\ items[order[k]] # NoItem
    BY <2>1, SelectionFacts
  <2> HIDE DEF n
  <2>3. movedInOrder(items, dest, order) \in HungTrees
    BY <1>4, <1>5, <2>1, <2>2, ItemsMoved
  <2> QED
    BY <1>2, <2>3
<1>11. operations' \in 0..MaxOperations
  BY Operated DEF moveItemsToContainer
<1>12. confused' \in BOOLEAN
  BY DEF moveItemsToContainer, Box, Ambiguous
<1> QED
  BY <1>6, <1>8, <1>9, <1>10, <1>11, <1>12 DEF Box, moveItemsToContainer

LEMMA Started ==
  ASSUME Box, start(db)
  PROVE  /\ db' \in Tables /\ db'.assets = db.assets /\ (db \in TidyTables => db' \in TidyTables)
         /\ items' \in HungTrees /\ confused' \in BOOLEAN
<1>1. db \in Tables
  BY DEF Box
<1>2. items' \in HungTrees
  BY <1>1, TreeBuilt DEF start
<1>3. confused' \in BOOLEAN
  BY DEF start, Ambiguous
<1> QED
  BY <1>1, <1>2, <1>3, DatabaseLoaded DEF start

LEMMA Restarted ==
  ASSUME Box, restart
  PROVE  Box'
<1>1. operations' \in 0..MaxOperations /\ start(db)
  BY Operated DEF restart
<1> QED
  BY <1>1, Started DEF Box, restart

\* The tables are still well typed, but they and the files may not be of the same assets.
LEMMA StoppedWithin ==
  ASSUME Box, crash
  PROVE  Box'
<1>1. operations' \in 0..MaxOperations /\ start(db) /\ crashed' = TRUE
  BY Operated DEF crash
<1>2. files' \subseteq Hash
  <2>1. CASE \E h \in Hash \ files : files' = files \cup {h}
    BY <2>1 DEF Box
  <2>2. CASE \E S \in Selections : \E topmost \in TopMost(S) : files' = filesWithout(topmost)
    BY <2>2 DEF Box, filesWithout
  <2> QED
    BY <2>1, <2>2 DEF crash
<1> QED
  BY <1>1, <1>2, Started DEF Box

LEMMA BoxKept ==
  ASSUME Box, [Next]_vars
  PROVE  Box'
<1>1. CASE UNCHANGED vars
  BY <1>1 DEF vars, Box
<1>2. CASE \E parent \in Movable \cup ItemId : createFolder(parent) \/ insertAssets(parent)
  BY <1>2, FolderMade, AssetsInserted
<1>3. CASE integrateAsset
  BY <1>3, AssetIntegrated
<1>4. CASE \E i \in ItemId : renameFolder(i)
  BY <1>4, FolderCalled
<1>5. CASE \E S \in Selections : removeItems(S)
  BY <1>5, ItemsGone
<1>6. CASE \E S \in Selections : \E dest \in Movable \cup ItemId : moveItemsToContainer(S, dest)
  BY <1>6, ItemsPut
<1>7. CASE restart
  BY <1>7, Restarted
<1>8. CASE crash
  BY <1>8, StoppedWithin
<1> QED
  BY <1>1, <1>2, <1>3, <1>4, <1>5, <1>6, <1>7, <1>8 DEF Next

\* Whatever folders are made, named, moved into each other and removed, whichever way their
\* paths run into each other and in whatever order a set gives them, and however often the
\* application starts again: each asset is in one folder, linked to it, and has its file,
\* until the application stops within an operation; no asset is lost and none is kept twice.
THEOREM AssetsAlwaysStored == Spec => []AssetsStored
<1>1. Init => Box
  BY BoxAtFirst
<1>2. Box /\ [Next]_vars => Box'
  BY BoxKept
<1>3. Box => AssetsStored
  BY BoxStored
<1> QED
  BY <1>1, <1>2, <1>3, PTL DEF Spec
=============================================================================
