-------------------------- MODULE JSONSocketProofs ---------------------------
(***************************************************************************)
(* A connection is a FIFO of whole messages, wherever its stream is split: *)
(* the theorem ConnectionIsFIFO. What is on its way, received, on the wire *)
(* or to be written, is what the messages that were not delivered were     *)
(* laid out as.                                                            *)
(*                                                                         *)
(* What the recursive functions of SocketFraming compute is proved by      *)
(* induction on the set of the numbers for which it is so.                 *)
(***************************************************************************)
EXTENDS JSONSocket, FiniteSetTheorems, TLAPS

---------------------------------------------------------------------------
(* Induction, recursion and sequences *)

\* Induction, on a set rather than on a predicate: a least number out of the set would have
\* one before it, and so its finitely many predecessors would be mapped onto themselves.
LEMMA Induction ==
  ASSUME NEW S, 0 \in S, \A n \in Nat : n \in S => n + 1 \in S
  PROVE  Nat \subseteq S
<1> SUFFICES ASSUME NEW k \in Nat, k \notin S
             PROVE  FALSE
  OBVIOUS
<1> DEFINE T == {n \in 0..k : n \notin S}
           f == [n \in T |-> n - 1]
<1>1. IsFiniteSet(T)
  <2>1. IsFiniteSet(0..k)
    BY FS_Interval
  <2>2. T \in SUBSET (0..k)
    OBVIOUS
  <2> QED
    BY <2>1, <2>2, FS_Subset
<1>2. \A n \in T : n \in Nat /\ n - 1 \in T
  <2> TAKE n \in T
  <2>1. n \in Nat /\ n # 0
    OBVIOUS
  <2>2. n - 1 \in Nat /\ (n - 1) + 1 = n
    BY <2>1
  <2>3. n - 1 \notin S
    BY <2>2
  <2> QED
    BY <2>1, <2>2, <2>3
<1>3. f \in Injection(T, T)
  <2>1. f \in [T -> T]
    BY <1>2
  <2>2. \A a, b \in T : f[a] = f[b] => a = b
    BY <1>2
  <2> QED
    BY <2>1, <2>2 DEF Injection, IsInjective
<1>4. f \in Surjection(T, T)
  BY <1>1, <1>3, FS_Injection
<1>5. k \in T
  OBVIOUS
<1>6. PICK n \in T : f[n] = k
  BY <1>4, <1>5 DEF Surjection
<1> QED
  BY <1>2, <1>6

\* f starts with base, and step[i] makes what it is at i of what it is before.
Follows(f, n, base, step) == f[0] = base /\ \A i \in 1..n : f[i] = step[i][f[i - 1]]

\* A function may be defined by recursion.
LEMMA Recursion ==
  ASSUME NEW V, NEW n \in Nat, NEW base \in V, NEW step \in [1..n -> [V -> V]]
  PROVE  \E f \in [0..n -> V] : Follows(f, n, base, step)
<1> DEFINE Reaches(k, f) == /\ f \in [0..k -> V]
                            /\ f[0] = base
                            /\ \A i \in 1..k : f[i] = step[i][f[i - 1]]
           S == {k \in Nat : k <= n => \E f : Reaches(k, f)}
<1>1. 0 \in S
  <2>1. Reaches(0, [i \in 0..0 |-> base])
    OBVIOUS
  <2> QED
    BY <2>1
<1>2. ASSUME NEW k \in Nat, k \in S
      PROVE  k + 1 \in S
  <2> SUFFICES ASSUME k + 1 <= n
               PROVE  \E f : Reaches(k + 1, f)
    BY DEF S
  <2>1. k <= n
    OBVIOUS
  <2>2. PICK f : Reaches(k, f)
    BY <1>2, <2>1 DEF S
  <2> DEFINE g == [i \in 0..(k + 1) |-> IF i = k + 1 THEN step[i][f[k]] ELSE f[i]]
  <2>3. g \in [0..(k + 1) -> V]
    <3>1. f[k] \in V
      BY <2>2
    <3>2. step[k + 1][f[k]] \in V
      BY <3>1
    <3> QED
      BY <2>2, <3>2
  <2>4. \A i \in 0..(k + 1) : i # k + 1 => i \in 0..k /\ g[i] = f[i]
    OBVIOUS
  <2>5. g[k + 1] = step[k + 1][g[(k + 1) - 1]]
    BY <2>4
  <2>6. \A i \in 1..(k + 1) : g[i] = step[i][g[i - 1]]
    <3> TAKE i \in 1..(k + 1)
    <3>1. CASE i = k + 1
      BY <2>5, <3>1
    <3>2. CASE i # k + 1
      <4>1. i \in 1..k /\ i - 1 \in 0..(k + 1) /\ i - 1 # k + 1
        BY <3>2
      <4> HIDE DEF g
      <4>2. g[i] = f[i] /\ g[i - 1] = f[i - 1]
        BY <2>4, <3>2, <4>1
      <4> QED
        BY <2>2, <4>1, <4>2
    <3> QED
      BY <3>1, <3>2
  <2>7. g[0] = base
    BY <2>2
  <2> HIDE DEF g
  <2> QED
    BY <2>3, <2>6, <2>7
<1>3. n \in S
  <2> HIDE DEF S
  <2> QED
    BY <1>1, <1>2, Induction
<1>4. \E f : Reaches(n, f)
  BY <1>3 DEF S
<1> QED
  BY <1>4 DEF Follows

\* FlattenSeq, one sequence after the other.
LEMMA FlattenSteps ==
  ASSUME NEW U, NEW seqs \in Seq(Seq(U)), Len(seqs) # 0
  PROVE  \E f \in [0..Len(seqs) -> Seq(U)] :
           /\ FlattenSeq(seqs) = f[Len(seqs)]
           /\ f[0] = <<>>
           /\ \A i \in 1..Len(seqs) : f[i] = f[i - 1] \o seqs[i]
<1> DEFINE n == Len(seqs)
           flatten[i \in 1..n] == IF i = 1 THEN seqs[i] ELSE flatten[i - 1] \o seqs[i]
           step == [i \in 1..n |-> [v \in Seq(U) |-> v \o seqs[i]]]
<1>1. n \in Nat /\ \A i \in 1..n : seqs[i] \in Seq(U)
  OBVIOUS
<1>2. step \in [1..n -> [Seq(U) -> Seq(U)]]
  BY <1>1
<1>3. \A i \in 1..n, v \in Seq(U) : step[i][v] = v \o seqs[i]
  OBVIOUS
<1>4. PICK f \in [0..n -> Seq(U)] : Follows(f, n, <<>>, step)
  <2>1. <<>> \in Seq(U)
    OBVIOUS
  <2> HIDE DEF step, n
  <2> QED
    BY <1>1, <1>2, <2>1, Recursion
<1>5. \A i \in 1..n : f[i] = f[i - 1] \o seqs[i]
  <2> TAKE i \in 1..n
  <2>1. i - 1 \in 0..n
    BY <1>1
  <2>2. f[i - 1] \in Seq(U)
    BY <2>1
  <2> HIDE DEF step
  <2> QED
    BY <1>3, <1>4, <2>2 DEF Follows
<1> DEFINE g == [i \in 1..n |-> f[i]]
<1>6. g = [i \in 1..n |-> IF i = 1 THEN seqs[i] ELSE g[i - 1] \o seqs[i]]
  <2> SUFFICES ASSUME NEW i \in 1..n
               PROVE  g[i] = IF i = 1 THEN seqs[i] ELSE g[i - 1] \o seqs[i]
    OBVIOUS
  <2>1. CASE i = 1
    <3>1. i - 1 = 0 /\ i \in 1..n /\ seqs[i] \in Seq(U)
      BY <1>1, <2>1
    <3>2. f[i] = <<>> \o seqs[i]
      BY <1>4, <1>5, <3>1 DEF Follows
    <3> QED
      BY <2>1, <3>1, <3>2
  <2>2. CASE i # 1
    <3>1. i - 1 \in 1..n
      BY <1>1, <2>2
    <3> QED
      BY <1>5, <2>2, <3>1
  <2> QED
    BY <2>1, <2>2
<1>7. flatten = [i \in 1..n |-> IF i = 1 THEN seqs[i] ELSE flatten[i - 1] \o seqs[i]]
  <2> HIDE DEF g
  <2> QED
    BY <1>6
<1>8. FlattenSeq(seqs) = flatten[n]
  BY DEF FlattenSeq
<1>9. \A i \in 1..n : flatten[i] = f[i]
  <2> DEFINE S == {k \in Nat : k \in 1..n => flatten[k] = f[k]}
  <2> HIDE DEF flatten, g
  <2>1. 0 \in S
    OBVIOUS
  <2>2. ASSUME NEW k \in Nat, k \in S
        PROVE  k + 1 \in S
    <3> SUFFICES ASSUME k + 1 \in 1..n
                 PROVE  flatten[k + 1] = f[k + 1]
      BY DEF S
    <3>1. flatten[k + 1] = IF k + 1 = 1 THEN seqs[k + 1] ELSE flatten[(k + 1) - 1] \o seqs[k + 1]
      BY <1>7
    <3>2. CASE k = 0
      <4>1. (k + 1) - 1 = 0 /\ k + 1 = 1 /\ k + 1 \in 1..n /\ seqs[k + 1] \in Seq(U)
        BY <1>1, <3>2
      <4>2. f[k + 1] = <<>> \o seqs[k + 1]
        BY <1>4, <1>5, <4>1 DEF Follows
      <4>3. flatten[k + 1] = seqs[k + 1]
        BY <3>1, <4>1
      <4> QED
        BY <4>1, <4>2, <4>3
    <3>3. CASE k # 0
      <4>1. k \in 1..n /\ (k + 1) - 1 = k /\ k + 1 # 1
        BY <1>1, <3>3
      <4>2. flatten[k] = f[k]
        BY <2>2, <4>1 DEF S
      <4> QED
        BY <1>5, <3>1, <4>1, <4>2
    <3> QED
      BY <3>2, <3>3
  <2> HIDE DEF S
  <2>3. Nat \subseteq S
    BY <2>1, <2>2, Induction
  <2> QED
    BY <2>3 DEF S
<1>10. n \in 1..n
  BY <1>1
<1> HIDE DEF flatten
<1> QED
  BY <1>4, <1>5, <1>8, <1>9, <1>10 DEF Follows

\* Where the elements of a concatenation are.
LEMMA Concat ==
  ASSUME NEW U, NEW s \in Seq(U), NEW t \in Seq(U)
  PROVE  /\ s \o t \in Seq(U) /\ Len(s) \in Nat /\ Len(t) \in Nat
         /\ Len(s \o t) = Len(s) + Len(t)
         /\ \A i \in 1..Len(s) : (s \o t)[i] = s[i]
         /\ \A i \in 1..Len(t) : (s \o t)[Len(s) + i] = t[i]
  OBVIOUS

\* at[i] is where the i-th of seqs ends when they are laid one after the other, as in f.
Ends(at, seqs) == at[0] = 0 /\ \A i \in 1..Len(seqs) : at[i] = at[i - 1] + Len(seqs[i])

Lays(f, seqs, at) ==
  \A i \in 1..Len(seqs) : \A j \in 1..Len(seqs[i]) : f[at[i - 1] + j] = seqs[i][j]

\* What FlattenSeq makes of sequences is as long as they are together, and lays each out
\* where the ones before it end.
LEMMA FlattenPositions ==
  ASSUME NEW U, NEW seqs \in Seq(Seq(U)), NEW at \in [0..Len(seqs) -> Nat], Ends(at, seqs)
  PROVE  /\ FlattenSeq(seqs) \in Seq(U)
         /\ Len(FlattenSeq(seqs)) = at[Len(seqs)]
         /\ Lays(FlattenSeq(seqs), seqs, at)
<1>0. /\ at[0] = 0
      /\ \A i \in 1..Len(seqs) : at[i] = at[i - 1] + Len(seqs[i])
  BY DEF Ends
<1>1. CASE Len(seqs) = 0
  <2>1. seqs = <<>>
    BY <1>1
  <2>2. FlattenSeq(seqs) = <<>>
    BY <1>1, <2>1 DEF FlattenSeq
  <2> QED
    BY <1>0, <1>1, <2>2 DEF Lays
<1>2. CASE Len(seqs) # 0
  <2> DEFINE n == Len(seqs)
  <2>1. n \in Nat /\ \A i \in 1..n : seqs[i] \in Seq(U) /\ Len(seqs[i]) \in Nat
    OBVIOUS
  <2>2. PICK f \in [0..n -> Seq(U)] : /\ FlattenSeq(seqs) = f[n]
                                      /\ f[0] = <<>>
                                      /\ \A i \in 1..n : f[i] = f[i - 1] \o seqs[i]
    BY <1>2, FlattenSteps
  <2> DEFINE Laid(k) == /\ Len(f[k]) = at[k]
                        /\ \A i \in 1..k : at[i] <= at[k]
                        /\ \A i \in 1..k : \A j \in 1..Len(seqs[i]) :
                             f[k][at[i - 1] + j] = seqs[i][j]
             S == {k \in Nat : k <= n => Laid(k)}
  <2>3. 0 \in S
    BY <1>0, <2>2
  <2> HIDE DEF Laid
  <2>4. ASSUME NEW k \in Nat, k \in S
        PROVE  k + 1 \in S
    <3> SUFFICES ASSUME k + 1 <= n
                 PROVE  Laid(k + 1)
      BY DEF S
    <3>1. k <= n /\ k + 1 \in 1..n /\ (k + 1) - 1 = k /\ k \in 0..n /\ n \in Nat
      BY <2>1
    <3> HIDE DEF n
    <3>2. Laid(k)
      BY <2>4, <3>1 DEF S
    <3>3. f[k + 1] = f[k] \o seqs[k + 1] /\ at[k + 1] = at[k] + Len(seqs[k + 1])
      BY <1>0, <2>2, <3>1 DEF n
    <3>4. f[k] \in Seq(U) /\ seqs[k + 1] \in Seq(U) /\ at[k] \in Nat /\ Len(seqs[k + 1]) \in Nat
      BY <2>1, <3>1 DEF n
    <3> DEFINE fs == f[k]
               new == seqs[k + 1]
    <3>8. /\ fs \o new \in Seq(U) /\ Len(fs) \in Nat /\ Len(new) \in Nat
          /\ Len(fs \o new) = Len(fs) + Len(new)
          /\ \A i \in 1..Len(fs) : (fs \o new)[i] = fs[i]
          /\ \A i \in 1..Len(new) : (fs \o new)[Len(fs) + i] = new[i]
      <4>1. fs \in Seq(U) /\ new \in Seq(U)
        BY <3>4
      <4> HIDE DEF fs, new
      <4> QED
        BY <4>1, Concat
    <3>9. f[k + 1] = fs \o new /\ Len(fs) = at[k]
      BY <3>2, <3>3 DEF Laid
    <3>5. Len(f[k + 1]) = at[k + 1]
      BY <3>3, <3>8, <3>9
    <3>6. \A i \in 1..(k + 1) : at[i] <= at[k + 1]
      <4> TAKE i \in 1..(k + 1)
      <4>1. CASE i = k + 1
        <5>1. at[k + 1] \in Nat
          BY <3>3, <3>4
        <5> QED
          BY <4>1, <5>1
      <4>2. CASE i # k + 1
        <5>1. i \in 1..k /\ i \in 0..n
          BY <3>1, <4>2
        <5>2. at[i] <= at[k] /\ at[i] \in Nat
          BY <3>2, <5>1 DEF n, Laid
        <5> QED
          BY <3>3, <3>4, <5>2
      <4> QED
        BY <4>1, <4>2
    <3>7. \A i \in 1..(k + 1) : \A j \in 1..Len(seqs[i]) : f[k + 1][at[i - 1] + j] = seqs[i][j]
      <4> TAKE i \in 1..(k + 1)
      <4> TAKE j \in 1..Len(seqs[i])
      <4>1. CASE i = k + 1
        <5>1. at[i - 1] + j = Len(fs) + j /\ j \in 1..Len(new) /\ seqs[i] = new
          BY <3>1, <3>9, <4>1
        <5> QED
          BY <3>8, <3>9, <4>1, <5>1
      <4>2. CASE i # k + 1
        <5>1. i \in 1..k /\ i - 1 \in 0..n /\ i \in 1..n
          BY <3>1, <4>2
        <5>2. at[i] <= at[k] /\ at[i] = at[i - 1] + Len(seqs[i]) /\ at[i - 1] \in Nat
          BY <1>0, <3>2, <5>1 DEF n, Laid
        <5>3. at[i - 1] + j \in 1..Len(fs)
          <6>1. Len(seqs[i]) \in Nat
            BY <2>1, <5>1
          <6>2. at[i] \in Nat /\ at[i] <= Len(fs)
            <7>1. i \in 0..n
              BY <3>1, <5>1
            <7> QED
              BY <3>9, <5>2, <7>1 DEF n
          <6> DEFINE a == at[i - 1]
                     b == at[i]
                     x == Len(seqs[i])
                     y == Len(fs)
          <6>3. b = a + x /\ a \in Nat /\ x \in Nat /\ b <= y /\ y \in Nat /\ j \in 1..x
            BY <3>8, <5>2, <6>1, <6>2
          <6> HIDE DEF a, b, x, y
          <6>4. a + j \in 1..y
            BY <6>3
          <6> QED
            BY <6>4 DEF a, y
        <5>4. f[k + 1][at[i - 1] + j] = f[k][at[i - 1] + j]
          BY <3>8, <3>9, <5>3
        <5> QED
          BY <3>2, <5>1, <5>4 DEF Laid
      <4> QED
        BY <4>1, <4>2
    <3> QED
      BY <3>5, <3>6, <3>7 DEF Laid
  <2>5. n \in S
    <3> HIDE DEF S
    <3> QED
      BY <2>1, <2>3, <2>4, Induction
  <2>6. Laid(n)
    BY <2>5 DEF S
  <2>7. n \in 0..n
    BY <2>1
  <2> QED
    BY <2>2, <2>6, <2>7 DEF Laid, Lays
<1> QED
  BY <1>1, <1>2

---------------------------------------------------------------------------
(* A message on the stream *)

Message == [id : Nat, method : {Light, Heavy}, size : Nat \ {0}]
Unit == [id : Nat, at : Nat, value : Nat]

\* How much of a message k of its chunks are.
Reach(s, k) == IF k * ChunkSize > s THEN s ELSE k * ChunkSize

\* The chunks of a message make it up, and none is empty.
LEMMA ChunksReach ==
  ASSUME ChunkAssumption, NEW s \in Nat \ {0}
  PROVE  /\ chunksOf(s) \in Nat \ {0}
         /\ Reach(s, 0) = 0 /\ Reach(s, chunksOf(s)) = s
         /\ \A k \in 0..chunksOf(s) : Reach(s, k) \in 0..s
         /\ \A k \in 1..chunksOf(s) : /\ Reach(s, k - 1) = (k - 1) * ChunkSize
                                      /\ Reach(s, k - 1) < Reach(s, k)
<1> DEFINE c == ChunkSize
           q == chunksOf(s)
<1>1. c \in Nat /\ c >= 1 /\ s \in Nat /\ s >= 1
  BY DEF ChunkAssumption
<1>2. q \in Int /\ q * c <= s + c - 1 /\ s + c - 1 < q * c + c
  BY <1>1 DEF chunksOf
<1>3. q \in Nat \ {0}
  BY <1>1, <1>2
<1>4. q * c >= s /\ (q - 1) * c < s
  BY <1>1, <1>2
<1>5. \A k \in 0..q : k * c \in Nat
  BY <1>1, <1>3
<1>6. \A k \in 1..q : k - 1 \in 0..q /\ (k - 1) * c <= (q - 1) * c /\ k * c = (k - 1) * c + c
  BY <1>1, <1>3
<1>7. Reach(s, 0) = 0 /\ Reach(s, q) = s
  <2>1. 0 * c = 0 /\ ~(0 * c > s)
    BY <1>1
  <2>2. Reach(s, 0) = 0
    BY <2>1 DEF Reach
  <2>3. q * c \in Int
    BY <1>1, <1>3
  <2>4. Reach(s, q) = s
    <3> DEFINE x == q * c
    <3>1. x \in Int /\ x >= s
      BY <1>4, <2>3
    <3>2. Reach(s, q) = IF x > s THEN s ELSE x
      BY DEF Reach
    <3> HIDE DEF x
    <3> QED
      BY <1>1, <3>1, <3>2
  <2> QED
    BY <2>2, <2>4
<1>8. \A k \in 0..q : Reach(s, k) \in 0..s
  BY <1>1, <1>5 DEF Reach
<1>9. ASSUME NEW k \in 1..q
      PROVE  Reach(s, k - 1) = (k - 1) * c /\ Reach(s, k - 1) < Reach(s, k)
  <2>1. (k - 1) * c < s /\ (k - 1) * c \in Nat /\ k * c \in Nat
    <3> DEFINE a == (k - 1) * c
               b == (q - 1) * c
    <3>1. a \in Nat /\ a <= b /\ b < s /\ b \in Int /\ k \in 0..q
      BY <1>1, <1>3, <1>4, <1>5, <1>6
    <3> HIDE DEF a, b
    <3>2. a < s
      BY <1>1, <3>1
    <3> QED
      BY <1>5, <3>1, <3>2 DEF a
  <2>2. k * c > (k - 1) * c
    <3> DEFINE a == (k - 1) * c
               b == k * c
    <3>1. b = a + c /\ a \in Nat
      BY <1>6, <2>1
    <3> HIDE DEF a, b
    <3>2. b > a
      BY <1>1, <3>1
    <3> QED
      BY <3>2 DEF a, b
  <2> QED
    BY <1>1, <2>1, <2>2 DEF Reach
<1> QED
  BY <1>3, <1>7, <1>8, <1>9

\* Where the elements of a subsequence are.
LEMMA Slice ==
  ASSUME NEW U, NEW s \in Seq(U), NEW a \in Nat, NEW b \in Nat, a <= b, b <= Len(s)
  PROVE  /\ SubSeq(s, a + 1, b) \in Seq(U)
         /\ Len(SubSeq(s, a + 1, b)) = b - a
         /\ \A i \in 1..(b - a) : SubSeq(s, a + 1, b)[i] = s[a + i]
  OBVIOUS

\* A word is two halves that carry it.
LEMMA Words ==
  ASSUME NEW w \in Nat
  PROVE  /\ halves(w) \in Seq(Unit) /\ Len(halves(w)) = 2
         /\ halves(w)[1].value = w /\ halves(w)[2].value = w
<1>1. \A i \in 1..2 : [id |-> 0, at |-> i, value |-> w] \in Unit
  BY DEF Unit
<1> QED
  BY <1>1 DEF halves

\* The pieces of a message are units, as many as its size.
LEMMA Pieces ==
  ASSUME NEW m \in Message
  PROVE  pieces(m) \in Seq(Unit) /\ Len(pieces(m)) = m.size
<1>1. \A i \in 1..m.size : [id |-> m.id, at |-> i, value |-> 0] \in Unit
  BY DEF Unit, Message
<1>2. m.size \in Nat
  BY DEF Message
<1> QED
  BY <1>1, <1>2 DEF pieces

\* The length of a chunk, and what precedes the end of the k-th after the header.
Long(s, k) == Reach(s, k) - Reach(s, k - 1)
At(s, k) == 2 * k + Reach(s, k)

\* A chunk has the pieces after those of the chunks before it.
LEMMA Chunks ==
  ASSUME ChunkAssumption, NEW s \in Nat \ {0}, NEW data \in Seq(Unit), Len(data) = s,
         NEW k \in 1..chunksOf(s)
  PROVE  /\ Long(s, k) \in Nat \ {0}
         /\ chunk(data, k) \in Seq(Unit)
         /\ Len(chunk(data, k)) = Long(s, k)
         /\ \A j \in 1..Long(s, k) : chunk(data, k)[j] = data[Reach(s, k - 1) + j]
<1> DEFINE a == Reach(s, k - 1)
           b == Reach(s, k)
<1>1. a \in Nat /\ b \in Nat /\ a < b /\ b <= Len(data) /\ a = (k - 1) * ChunkSize
  <2>1. chunksOf(s) \in Nat /\ k \in 0..chunksOf(s) /\ k - 1 \in 0..chunksOf(s)
    BY ChunksReach
  <2> QED
    BY <2>1, ChunksReach
<1>2. chunk(data, k) = SubSeq(data, a + 1, b)
  BY <1>1 DEF chunk, Reach
<1> HIDE DEF a, b
<1>3. b - a \in Nat \ {0} /\ a <= b
  BY <1>1
<1>4. Long(s, k) = b - a
  BY DEF Long, a, b
<1>5. /\ SubSeq(data, a + 1, b) \in Seq(Unit)
      /\ Len(SubSeq(data, a + 1, b)) = b - a
      /\ \A j \in 1..(b - a) : SubSeq(data, a + 1, b)[j] = data[a + j]
  <2>1. a \in Nat /\ b \in Nat /\ a <= b /\ b <= Len(data) /\ data \in Seq(Unit)
    BY <1>1, <1>3
  <2> QED
    BY <2>1, Slice
<1>6. \A j \in 1..Long(s, k) : chunk(data, k)[j] = data[Reach(s, k - 1) + j]
  BY <1>2, <1>4, <1>5 DEF a
<1> QED
  BY <1>2, <1>3, <1>4, <1>5, <1>6

\* Where the chunks end, one after the other.
LEMMA AtSteps ==
  ASSUME ChunkAssumption, NEW s \in Nat \ {0}
  PROVE  /\ At(s, 0) = 0
         /\ \A k \in 0..chunksOf(s) : At(s, k) \in Nat /\ At(s, k) <= At(s, chunksOf(s))
         /\ \A k \in 1..chunksOf(s) : /\ Long(s, k) \in Nat \ {0}
                                      /\ At(s, k) = At(s, k - 1) + 2 + Long(s, k)
                                      /\ Reach(s, k) = Reach(s, k - 1) + Long(s, k)
<1> DEFINE c == chunksOf(s)
<1>1. c \in Nat \ {0} /\ Reach(s, 0) = 0 /\ Reach(s, c) = s
  BY ChunksReach
<1>2. \A k \in 0..c : Reach(s, k) \in 0..s
  BY ChunksReach
<1>3. \A k \in 1..c : Reach(s, k - 1) < Reach(s, k)
  BY ChunksReach
<1> HIDE DEF c
<1>4. \A k \in 1..c : k \in 0..c /\ k - 1 \in 0..c
  BY <1>1
<1>5. At(s, 0) = 0
  BY <1>1 DEF At
<1>6. \A k \in 0..c : At(s, k) \in Nat /\ At(s, k) <= At(s, c)
  BY <1>1, <1>2 DEF At
<1>7. ASSUME NEW k \in 1..c
      PROVE  /\ Long(s, k) \in Nat \ {0}
             /\ At(s, k) = At(s, k - 1) + 2 + Long(s, k)
             /\ Reach(s, k) = Reach(s, k - 1) + Long(s, k)
  <2> DEFINE a == Reach(s, k - 1)
             b == Reach(s, k)
  <2>1. a \in Nat /\ b \in Nat /\ a < b /\ k \in Int
    BY <1>1, <1>2, <1>3, <1>4
  <2>2. Long(s, k) = b - a /\ At(s, k) = 2 * k + b /\ At(s, k - 1) = 2 * (k - 1) + a
    BY DEF Long, At
  <2> HIDE DEF a, b
  <2>3. b - a \in Nat \ {0} /\ 2 * k + b = (2 * (k - 1) + a) + 2 + (b - a) /\ b = a + (b - a)
    BY <2>1
  <2>4. Reach(s, k) = Reach(s, k - 1) + Long(s, k)
    BY <2>2, <2>3 DEF a, b
  <2> QED
    BY <2>2, <2>3, <2>4
<1> QED
  BY <1>5, <1>6, <1>7 DEF c

\* What the bytes of a message are, and where.
Reads(f, m) ==
  /\ f[1].value = m.method /\ f[3].value = m.size
  /\ \A k \in 1..chunksOf(m.size) :
       /\ f[4 + At(m.size, k - 1) + 1].value = Long(m.size, k)
       /\ \A j \in 1..Long(m.size, k) :
            f[4 + At(m.size, k - 1) + 2 + j] = pieces(m)[Reach(m.size, k - 1) + j]

Length(m) == 4 + At(m.size, chunksOf(m.size))

\* What _send lays out for a message.
LEMMA Framed ==
  ASSUME ChunkAssumption, NEW m \in Message
  PROVE  framed(m) \in Seq(Unit) /\ Len(framed(m)) = Length(m) /\ Reads(framed(m), m)
<1> DEFINE s == m.size
           c == chunksOf(s)
           data == pieces(m)
           seqs == [k \in 1..c |-> halves(Len(chunk(data, k))) \o chunk(data, k)]
           at == [k \in 0..c |-> At(s, k)]
           head == halves(m.method) \o halves(m.size)
           f == FlattenSeq(seqs)
<1>1. s \in Nat \ {0} /\ m.method \in Nat /\ m.method \in {Light, Heavy}
  BY DEF Message, Light, Heavy
<1>2. data \in Seq(Unit) /\ Len(data) = s
  BY Pieces
<1>3. c \in Nat \ {0}
  BY <1>1, ChunksReach
<1>4. framed(m) = head \o f
  BY DEF framed
<1>5. ASSUME NEW k \in 1..c
      PROVE  /\ seqs[k] \in Seq(Unit) /\ Len(seqs[k]) = 2 + Long(s, k)
             /\ seqs[k][1].value = Long(s, k)
             /\ \A j \in 1..Long(s, k) : seqs[k][2 + j] = data[Reach(s, k - 1) + j]
  <2> DEFINE h == halves(Len(chunk(data, k)))
             d == chunk(data, k)
             l == Long(s, k)
  <2>1. /\ l \in Nat \ {0} /\ d \in Seq(Unit) /\ Len(d) = l
        /\ \A j \in 1..l : d[j] = data[Reach(s, k - 1) + j]
    <3> HIDE DEF data, s
    <3> QED
      BY <1>1, <1>2, Chunks DEF c
  <2>2. h \in Seq(Unit) /\ Len(h) = 2 /\ h[1].value = l
    BY <2>1, Words
  <2>3. seqs[k] = h \o d
    OBVIOUS
  <2> HIDE DEF h, d, l, seqs
  <2>4. /\ h \o d \in Seq(Unit) /\ Len(h \o d) = 2 + l
        /\ \A i \in 1..2 : (h \o d)[i] = h[i]
        /\ \A i \in 1..l : (h \o d)[2 + i] = d[i]
    <3>1. h \in Seq(Unit) /\ d \in Seq(Unit)
      BY <2>1, <2>2
    <3>2. /\ h \o d \in Seq(Unit) /\ Len(h \o d) = Len(h) + Len(d)
          /\ \A i \in 1..Len(h) : (h \o d)[i] = h[i]
          /\ \A i \in 1..Len(d) : (h \o d)[Len(h) + i] = d[i]
      BY <3>1, Concat
    <3>3. Len(h) = 2 /\ Len(d) = l
      BY <2>1, <2>2
    <3> QED
      BY <3>2, <3>3
  <2>5. (h \o d)[1] = h[1]
    <3>1. 1 \in 1..2
      OBVIOUS
    <3> QED
      BY <2>4, <3>1
  <2> QED
    BY <2>1, <2>2, <2>3, <2>4, <2>5 DEF l
<1>6. seqs \in Seq(Seq(Unit)) /\ Len(seqs) = c
  <2>1. \A k \in 1..c : seqs[k] \in Seq(Unit)
    BY <1>5
  <2>2. seqs = [k \in 1..c |-> seqs[k]] /\ seqs \in [1..c -> Seq(Unit)]
    BY <2>1
  <2> HIDE DEF seqs
  <2> QED
    BY <1>3, <2>2
<1> HIDE DEF seqs
<1>7. /\ at \in [0..c -> Nat] /\ at[0] = 0
      /\ \A i \in 1..c : at[i] = at[i - 1] + Len(seqs[i]) /\ at[i - 1] = At(s, i - 1)
      /\ at[c] = At(s, c)
  <2> HIDE DEF s
  <2>1. \A k \in 0..c : At(s, k) \in Nat
    BY <1>1, AtSteps DEF c
  <2>2. \A k \in 1..c : At(s, k) = At(s, k - 1) + 2 + Long(s, k) /\ Long(s, k) \in Nat
    BY <1>1, AtSteps DEF c
  <2>3. At(s, 0) = 0
    BY <1>1, AtSteps
  <2> HIDE DEF c
  <2>4. 0 \in 0..c /\ c \in 0..c /\ \A k \in 1..c : k \in 0..c /\ k - 1 \in 0..c
    BY <1>3
  <2>5. \A i \in 1..c : At(s, i) = At(s, i - 1) + Len(seqs[i])
    BY <1>5, <2>1, <2>2, <2>4
  <2> QED
    BY <2>1, <2>3, <2>4, <2>5
<1> HIDE DEF at
<1>8. /\ f \in Seq(Unit) /\ Len(f) = At(s, c)
      /\ \A i \in 1..c : \A j \in 1..Len(seqs[i]) : f[At(s, i - 1) + j] = seqs[i][j]
  <2> HIDE DEF s, c
  <2>1. at \in [0..Len(seqs) -> Nat] /\ Ends(at, seqs)
    BY <1>6, <1>7 DEF Ends
  <2>2. /\ FlattenSeq(seqs) \in Seq(Unit)
        /\ Len(FlattenSeq(seqs)) = at[Len(seqs)]
        /\ Lays(FlattenSeq(seqs), seqs, at)
    BY <1>6, <2>1, FlattenPositions
  <2> QED
    BY <1>6, <1>7, <2>2 DEF Lays
<1>9. head \in Seq(Unit) /\ Len(head) = 4 /\ head[1].value = m.method /\ head[3].value = m.size
  <2> DEFINE h == halves(m.method)
             g == halves(m.size)
  <2>1. h \in Seq(Unit) /\ Len(h) = 2 /\ h[1].value = m.method
    BY <1>1, Words
  <2>2. g \in Seq(Unit) /\ Len(g) = 2 /\ g[1].value = m.size
    BY <1>1, Words
  <2> HIDE DEF h, g
  <2>3. /\ h \o g \in Seq(Unit) /\ Len(h \o g) = 2 + 2
        /\ \A i \in 1..2 : (h \o g)[i] = h[i]
        /\ \A i \in 1..2 : (h \o g)[2 + i] = g[i]
    BY <2>1, <2>2, Concat
  <2>4. (h \o g)[1] = h[1] /\ (h \o g)[2 + 1] = g[1]
    BY <2>3
  <2>5. 2 + 1 = 3
    OBVIOUS
  <2> QED
    BY <2>1, <2>2, <2>3, <2>4, <2>5 DEF h, g
<1> HIDE DEF f, head
<1>10. /\ head \o f \in Seq(Unit) /\ Len(f) \in Nat /\ Len(head \o f) = 4 + Len(f)
       /\ \A i \in 1..4 : (head \o f)[i] = head[i]
       /\ \A i \in 1..Len(f) : (head \o f)[4 + i] = f[i]
  <2>1. head \in Seq(Unit) /\ f \in Seq(Unit)
    BY <1>8, <1>9
  <2>2. /\ head \o f \in Seq(Unit) /\ Len(f) \in Nat /\ Len(head \o f) = Len(head) + Len(f)
        /\ \A i \in 1..Len(head) : (head \o f)[i] = head[i]
        /\ \A i \in 1..Len(f) : (head \o f)[Len(head) + i] = f[i]
    BY <2>1, Concat
  <2>3. Len(head) = 4
    BY <1>9
  <2> QED
    BY <2>2, <2>3
<1>11. framed(m)[1].value = m.method /\ framed(m)[3].value = m.size
  <2>1. (head \o f)[1] = head[1] /\ (head \o f)[3] = head[3]
    BY <1>10
  <2> QED
    BY <1>4, <1>9, <2>1
<1>12. ASSUME NEW k \in 1..c
       PROVE  \A j \in 1..Len(seqs[k]) : framed(m)[4 + At(s, k - 1) + j] = seqs[k][j]
  <2> TAKE j \in 1..Len(seqs[k])
  <2> DEFINE a == At(s, k - 1)
             b == At(s, k)
             e == At(s, c)
             l == Long(s, k)
  <2>1. a \in Nat /\ b \in Nat /\ b <= e /\ e \in Nat /\ l \in Nat /\ b = a + 2 + l
    <3> HIDE DEF s
    <3>1. k \in 0..c /\ k - 1 \in 0..c /\ c \in 0..c
      BY <1>3
    <3> QED
      BY <1>1, <3>1, AtSteps DEF c
  <2>2. j \in 1..(2 + l)
    BY <1>5
  <2>3. Len(f) = e /\ f[a + j] = seqs[k][j]
    BY <1>8
  <2> HIDE DEF a, b, e, l
  <2>4. a + j \in 1..e /\ 4 + a + j = 4 + (a + j)
    BY <2>1, <2>2
  <2>5. (head \o f)[4 + (a + j)] = f[a + j]
    BY <1>10, <2>3, <2>4
  <2> QED
    BY <1>4, <2>3, <2>4, <2>5 DEF a
<1>13. ASSUME NEW k \in 1..c
       PROVE  /\ framed(m)[4 + At(s, k - 1) + 1].value = Long(s, k)
              /\ \A j \in 1..Long(s, k) :
                   framed(m)[4 + At(s, k - 1) + 2 + j] = data[Reach(s, k - 1) + j]
  <2> DEFINE a == At(s, k - 1)
             l == Long(s, k)
  <2>1. a \in Nat /\ l \in Nat /\ Len(seqs[k]) = 2 + l
    <3> HIDE DEF s
    <3>1. k - 1 \in 0..c
      BY <1>3
    <3> QED
      BY <1>1, <1>5, <3>1, AtSteps DEF c
  <2> HIDE DEF a, l
  <2>2. 1 \in 1..(2 + l) /\ \A j \in 1..l : 2 + j \in 1..(2 + l) /\ 4 + a + (2 + j) = 4 + a + 2 + j
    BY <2>1
  <2>3. framed(m)[4 + a + 1] = seqs[k][1]
    BY <1>12, <2>1, <2>2 DEF a
  <2>4. \A j \in 1..l : framed(m)[4 + a + (2 + j)] = seqs[k][2 + j]
    BY <1>12, <2>1, <2>2 DEF a
  <2>5. seqs[k][1].value = l /\ \A j \in 1..l : seqs[k][2 + j] = data[Reach(s, k - 1) + j]
    BY <1>5 DEF l
  <2> QED
    BY <2>2, <2>3, <2>4, <2>5 DEF a, l
<1> QED
  BY <1>4, <1>8, <1>10, <1>11, <1>13 DEF Reads, Length

---------------------------------------------------------------------------
(* A message read back *)

\* Where the lengths of the chunks are read.
Starts(bytes, count) ==
  LET start[k \in 1..count + 1] ==
        IF k = 1 THEN 5 ELSE start[k - 1] + 2 + word(bytes, start[k - 1])
  IN start

\* What is read as a word is a number, whatever is there.
LEMMA WordRead ==
  ASSUME NEW bytes \in Seq(Unit), NEW i \in Nat \ {0}
  PROVE  word(bytes, i) \in Nat
<1>1. CASE i + 1 <= Len(bytes)
  <2>1. i \in 1..Len(bytes)
    BY <1>1
  <2>2. bytes[i] \in Unit
    BY <2>1
  <2>3. bytes[i].value \in Nat
    BY <2>2 DEF Unit
  <2> QED
    BY <1>1, <2>3 DEF word
<1>2. CASE ~(i + 1 <= Len(bytes))
  BY <1>2 DEF word
<1> QED
  BY <1>1, <1>2

\* The loop over the chunks is defined whatever the lengths it reads.
LEMMA StartsFollow ==
  ASSUME NEW bytes \in Seq(Unit), NEW count \in Nat
  PROVE  /\ Starts(bytes, count) \in [1..(count + 1) -> Nat \ {0}]
         /\ Starts(bytes, count)[1] = 5
         /\ \A k \in 1..count :
              Starts(bytes, count)[k + 1]
                = Starts(bytes, count)[k] + 2 + word(bytes, Starts(bytes, count)[k])
<1> DEFINE start[k \in 1..count + 1] ==
             IF k = 1 THEN 5 ELSE start[k - 1] + 2 + word(bytes, start[k - 1])
           P == Nat \ {0}
           next == [v \in P |-> v + 2 + word(bytes, v)]
           step == [i \in 1..count |-> next]
<1>1. next \in [P -> P]
  <2>1. ASSUME NEW v \in P
        PROVE  v + 2 + word(bytes, v) \in P
    <3>1. word(bytes, v) \in Nat
      BY WordRead
    <3> QED
      BY <3>1
  <2> QED
    BY <2>1
<1>2. step \in [1..count -> [P -> P]] /\ \A i \in 1..count : step[i] = next
  BY <1>1
<1>3. \A v \in P : next[v] = v + 2 + word(bytes, v)
  OBVIOUS
<1> HIDE DEF next
<1>4. 5 \in P
  OBVIOUS
<1>5. PICK f \in [0..count -> P] : Follows(f, count, 5, step)
  <2> HIDE DEF P, step
  <2> QED
    BY <1>2, <1>4, Recursion
<1> HIDE DEF step
<1>6. f[0] = 5 /\ \A i \in 1..count : f[i] = f[i - 1] + 2 + word(bytes, f[i - 1])
  <2>1. \A i \in 1..count : i - 1 \in 0..count /\ f[i - 1] \in P
    OBVIOUS
  <2> QED
    BY <1>2, <1>3, <1>5, <2>1 DEF Follows
<1> DEFINE g == [k \in 1..(count + 1) |-> f[k - 1]]
<1>7. g = [k \in 1..(count + 1) |-> IF k = 1 THEN 5 ELSE g[k - 1] + 2 + word(bytes, g[k - 1])]
  <2> SUFFICES ASSUME NEW k \in 1..(count + 1)
               PROVE  g[k] = IF k = 1 THEN 5 ELSE g[k - 1] + 2 + word(bytes, g[k - 1])
    OBVIOUS
  <2>1. CASE k = 1
    BY <1>6, <2>1
  <2>2. CASE k # 1
    <3>1. k - 1 \in 1..(count + 1) /\ k - 1 \in 1..count
      BY <2>2
    <3>2. g[k - 1] = f[(k - 1) - 1] /\ g[k] = f[k - 1]
      BY <3>1
    <3> QED
      BY <1>6, <2>2, <3>1, <3>2
  <2> QED
    BY <2>1, <2>2
<1>8. start = [k \in 1..(count + 1) |->
                 IF k = 1 THEN 5 ELSE start[k - 1] + 2 + word(bytes, start[k - 1])]
  <2> HIDE DEF g
  <2> QED
    BY <1>7
<1>9. Starts(bytes, count) = start
  BY DEF Starts
<1> HIDE DEF start
<1>10. start[1] = 5
  <2>1. 1 \in 1..(count + 1)
    OBVIOUS
  <2> QED
    BY <1>8, <2>1
<1>11. ASSUME NEW k \in 1..count
       PROVE  start[k + 1] = start[k] + 2 + word(bytes, start[k])
  <2>1. k + 1 \in 1..(count + 1) /\ k + 1 # 1 /\ (k + 1) - 1 = k
    OBVIOUS
  <2> QED
    BY <1>8, <2>1
<1>12. \A k \in 1..(count + 1) : start[k] \in P
  <2> DEFINE S == {k \in Nat : k <= count => start[k + 1] \in P}
  <2>1. 0 \in S
    BY <1>10
  <2>2. ASSUME NEW k \in Nat, k \in S
        PROVE  k + 1 \in S
    <3> SUFFICES ASSUME k + 1 <= count
                 PROVE  start[(k + 1) + 1] \in P
      OBVIOUS
    <3>1. k + 1 \in 1..count /\ k <= count
      OBVIOUS
    <3>2. start[k + 1] \in P
      BY <2>2, <3>1
    <3>3. start[(k + 1) + 1] = start[k + 1] + 2 + word(bytes, start[k + 1])
      BY <1>11, <3>1
    <3>4. word(bytes, start[k + 1]) \in Nat
      BY <3>2, WordRead
    <3> QED
      BY <3>2, <3>3, <3>4
  <2> HIDE DEF S
  <2>3. Nat \subseteq S
    BY <2>1, <2>2, Induction
  <2> TAKE k \in 1..(count + 1)
  <2>4. k - 1 \in Nat /\ k - 1 <= count /\ (k - 1) + 1 = k
    OBVIOUS
  <2> QED
    BY <2>3, <2>4 DEF S
<1>13. start \in [1..(count + 1) -> P]
  BY <1>8, <1>12
<1> QED
  BY <1>9, <1>10, <1>11, <1>13

\* What a round of the loop finds, by where it reads the lengths of the chunks.
LEMMA BatchRead ==
  ASSUME NEW bytes \in Seq(Unit), NEW count \in Nat, NEW start, count = chunksOf(word(bytes, 3)),
         start = Starts(bytes, count)
  PROVE  /\ batch(bytes).complete = (Len(bytes) >= 4 /\ start[count + 1] - 1 <= Len(bytes))
         /\ batch(bytes).complete =>
              /\ batch(bytes).rest = SubSeq(bytes, start[count + 1], Len(bytes))
              /\ batch(bytes).data = FlattenSeq([k \in 1..count |->
                                       SubSeq(bytes, start[k] + 2, start[k + 1] - 1)])
<1>1. start[count + 1] \in Nat
  <2>1. count + 1 \in 1..(count + 1)
    OBVIOUS
  <2> QED
    BY <2>1, StartsFollow
<1>2. (start[count + 1] - 1) + 1 = start[count + 1]
  BY <1>1
<1> DEFINE n == expectedChunks(word(bytes, 3))
           at == Starts(bytes, n)
           end == at[n + 1] - 1
           whole == Len(bytes) >= 4 /\ end <= Len(bytes)
           data == FlattenSeq([k \in 1..n |-> SubSeq(bytes, at[k] + 2, at[k + 1] - 1)])
           left == IF whole THEN SubSeq(bytes, end + 1, Len(bytes)) ELSE bytes
           given == IF whole THEN data ELSE <<>>
<1>3. batch(bytes) =
        [method |-> word(bytes, 1), size |-> word(bytes, 3), complete |-> whole,
         rest |-> left, data |-> given]
  BY DEF batch, Starts
<1>4. n = count
  BY DEF expectedChunks
<1>5. data = FlattenSeq([k \in 1..count |-> SubSeq(bytes, start[k] + 2, start[k + 1] - 1)])
  BY <1>4
<1>6. end = start[count + 1] - 1 /\ end + 1 = start[count + 1]
  BY <1>2, <1>4
<1>7. whole = (Len(bytes) >= 4 /\ start[count + 1] - 1 <= Len(bytes))
  BY <1>6
<1> HIDE DEF n, at, end, data, whole, left, given
<1>8. batch(bytes).complete = whole
  BY <1>3
<1>9. whole => batch(bytes).rest = SubSeq(bytes, end + 1, Len(bytes)) /\ batch(bytes).data = data
  <2> SUFFICES ASSUME whole
               PROVE  batch(bytes).rest = SubSeq(bytes, end + 1, Len(bytes)) /\ batch(bytes).data = data
    OBVIOUS
  <2>1. left = SubSeq(bytes, end + 1, Len(bytes)) /\ given = data
    BY DEF left, given
  <2>2. batch(bytes).rest = left /\ batch(bytes).data = given
    BY <1>3
  <2> QED
    BY <2>1, <2>2
<1> QED
  BY <1>5, <1>6, <1>7, <1>8, <1>9

\* Every piece of a message is in one of its chunks.
LEMMA Covered ==
  ASSUME ChunkAssumption, NEW s \in Nat \ {0}, NEW i \in 1..s
  PROVE  \E k \in 1..chunksOf(s) : \E j \in 1..Long(s, k) : i = Reach(s, k - 1) + j
<1> DEFINE c == chunksOf(s)
           In(x) == \E k \in 1..c : \E j \in 1..Long(s, k) : x = Reach(s, k - 1) + j
           S == {n \in Nat : n <= c => \A x \in 1..Reach(s, n) : In(x)}
<1>1. c \in Nat /\ Reach(s, 0) = 0 /\ Reach(s, c) = s
  BY ChunksReach
<1>2. \A k \in 0..c : Reach(s, k) \in Nat
  BY ChunksReach
<1>3. \A k \in 1..c : Reach(s, k) = Reach(s, k - 1) + Long(s, k) /\ Long(s, k) \in Nat
  BY AtSteps
<1> HIDE DEF c
<1>4. 0 \in S
  BY <1>1
<1> HIDE DEF In
<1>5. ASSUME NEW n \in Nat, n \in S
      PROVE  n + 1 \in S
  <2> SUFFICES ASSUME n + 1 <= c, NEW x \in 1..Reach(s, n + 1)
               PROVE  In(x)
    OBVIOUS
  <2>1. n <= c /\ n + 1 \in 1..c /\ (n + 1) - 1 = n /\ n \in 0..c
    BY <1>1
  <2>2. Reach(s, n + 1) = Reach(s, n) + Long(s, n + 1) /\ Reach(s, n) \in Nat /\ Long(s, n + 1) \in Nat
    BY <1>2, <1>3, <2>1
  <2>3. CASE x <= Reach(s, n)
    <3>1. x \in 1..Reach(s, n)
      BY <2>2, <2>3
    <3> QED
      BY <1>5, <2>1, <3>1
  <2>4. CASE ~(x <= Reach(s, n))
    <3> DEFINE j == x - Reach(s, n)
    <3>1. j \in 1..Long(s, n + 1) /\ x = Reach(s, (n + 1) - 1) + j
      BY <2>1, <2>2, <2>4
    <3> QED
      BY <2>1, <3>1 DEF In
  <2> QED
    BY <2>3, <2>4
<1>6. c \in S
  <2> HIDE DEF S
  <2> QED
    BY <1>1, <1>4, <1>5, Induction
<1>7. In(i)
  BY <1>1, <1>6
<1> QED
  BY <1>7 DEF In, c

\* The size that a header says, once it is there.
LEMMA Header ==
  ASSUME ChunkAssumption, NEW m \in Message, NEW bytes \in Seq(Unit), Len(bytes) >= 4,
         bytes[3] = framed(m)[3]
  PROVE  word(bytes, 3) = m.size
<1>1. framed(m)[3].value = m.size
  BY Framed DEF Reads
<1>2. 3 + 1 <= Len(bytes)
  OBVIOUS
<1> QED
  BY <1>1, <1>2 DEF word

\* The chunks of a message end within its length.
LEMMA LengthReaches ==
  ASSUME ChunkAssumption, NEW m \in Message
  PROVE  /\ Length(m) \in Nat /\ Length(m) > 4
         /\ \A k \in 1..chunksOf(m.size) :
              /\ At(m.size, k - 1) \in Nat /\ Long(m.size, k) \in Nat \ {0}
              /\ 4 + At(m.size, k - 1) + 2 + Long(m.size, k) = 4 + At(m.size, k)
              /\ 4 + At(m.size, k) <= Length(m)
<1> DEFINE s == m.size
           c == chunksOf(s)
<1>1. s \in Nat \ {0}
  BY DEF Message
<1> HIDE DEF s
<1>2. c \in Nat \ {0}
  BY <1>1, ChunksReach
<1>3. /\ \A k \in 0..c : At(s, k) \in Nat /\ At(s, k) <= At(s, c)
      /\ \A k \in 1..c : Long(s, k) \in Nat \ {0} /\ At(s, k) = At(s, k - 1) + 2 + Long(s, k)
  BY <1>1, AtSteps
<1>4. Length(m) = 4 + At(s, c)
  BY DEF Length, s
<1> HIDE DEF c
<1>5. \A k \in 1..c : k \in 0..c /\ k - 1 \in 0..c
  BY <1>2
<1>6. \A k \in 1..c : /\ At(s, k - 1) \in Nat /\ Long(s, k) \in Nat \ {0}
                      /\ 4 + At(s, k - 1) + 2 + Long(s, k) = 4 + At(s, k)
                      /\ 4 + At(s, k) <= Length(m)
  <2> TAKE k \in 1..c
  <2> DEFINE a == At(s, k - 1)
             b == At(s, k)
             e == At(s, c)
             l == Long(s, k)
  <2>1. /\ a \in Nat /\ b \in Nat /\ b <= e /\ l \in Nat \ {0} /\ b = a + 2 + l
        /\ Length(m) = 4 + e /\ e \in Nat
    <3>1. c \in 0..c
      BY <1>2
    <3> QED
      BY <1>3, <1>4, <1>5, <3>1
  <2> HIDE DEF a, b, e, l
  <2>2. 4 + a + 2 + l = 4 + b /\ 4 + b <= Length(m)
    BY <2>1
  <2> QED
    BY <2>1, <2>2 DEF a, b, e, l
<1>7. Length(m) \in Nat /\ Length(m) > 4
  <2> DEFINE e == At(s, c)
             a == At(s, c - 1)
             l == Long(s, c)
  <2>1. c \in 1..c /\ c \in 0..c /\ c - 1 \in 0..c
    BY <1>2
  <2>2. e \in Nat /\ a \in Nat /\ l \in Nat /\ e = a + 2 + l /\ Length(m) = 4 + e
    BY <1>3, <1>4, <2>1
  <2> HIDE DEF e, a, l
  <2> QED
    BY <2>2
<1> QED
  BY <1>6, <1>7 DEF s, c

\* A message that is there in full is read as it was sent, whatever follows.
LEMMA BatchWhole ==
  ASSUME ChunkAssumption, NEW m \in Message, NEW bytes \in Seq(Unit),
         Length(m) <= Len(bytes), \A i \in 1..Length(m) : bytes[i] = framed(m)[i]
  PROVE  /\ batch(bytes).complete
         /\ batch(bytes).rest = SubSeq(bytes, Length(m) + 1, Len(bytes))
         /\ batch(bytes).data = pieces(m)
<1> DEFINE s == m.size
           c == chunksOf(s)
           start == Starts(bytes, c)
           Spot(k) == 4 + At(s, k)
           F == framed(m)
<1>1. s \in Nat \ {0}
  BY DEF Message
<1>2. c \in Nat \ {0}
  BY <1>1, ChunksReach
<1>3. /\ Length(m) \in Nat /\ Length(m) > 4
      /\ \A k \in 1..c : /\ Spot(k - 1) \in Nat /\ Long(s, k) \in Nat \ {0}
                         /\ Spot(k - 1) + 2 + Long(s, k) = Spot(k)
                         /\ Spot(k) <= Length(m)
  BY LengthReaches
<1>4. Spot(0) = 4 /\ Spot(c) = Length(m)
  BY <1>1, AtSteps DEF Length
<1>5. /\ \A k \in 1..c : /\ F[Spot(k - 1) + 1].value = Long(s, k)
                         /\ \A j \in 1..Long(s, k) :
                              F[Spot(k - 1) + 2 + j] = pieces(m)[Reach(s, k - 1) + j]
  BY Framed DEF Reads
<1>6. Len(bytes) \in Nat /\ Len(bytes) >= 4
  BY <1>3
<1>7. word(bytes, 3) = s
  <2>1. bytes[3] = F[3]
    BY <1>3
  <2> QED
    BY <1>6, <2>1, Header
<1>8. /\ start \in [1..(c + 1) -> Nat \ {0}] /\ start[1] = 5
      /\ \A k \in 1..c : start[k + 1] = start[k] + 2 + word(bytes, start[k])
  <2> HIDE DEF c
  <2> QED
    BY <1>2, StartsFollow
<1> HIDE DEF start, c, s, F, Spot
<1>9. ASSUME NEW k \in 1..c
      PROVE  word(bytes, Spot(k - 1) + 1) = Long(s, k)
  <2> DEFINE x == Spot(k - 1)
  <2>1. x \in Nat /\ x + 2 <= Length(m)
    BY <1>3
  <2> HIDE DEF x
  <2>2. x + 1 \in 1..Length(m) /\ (x + 1) + 1 <= Len(bytes)
    BY <1>3, <1>6, <2>1
  <2>3. word(bytes, x + 1) = bytes[x + 1].value
    BY <2>2 DEF word
  <2>4. bytes[x + 1] = F[x + 1]
    BY <2>2 DEF F
  <2> QED
    BY <1>5, <2>3, <2>4 DEF x
<1>10. \A k \in 0..c : start[k + 1] = Spot(k) + 1
  <2> DEFINE S == {k \in Nat : k <= c => start[k + 1] = Spot(k) + 1}
  <2>1. 0 \in S
    BY <1>4, <1>8
  <2>2. ASSUME NEW k \in Nat, k \in S
        PROVE  k + 1 \in S
    <3> SUFFICES ASSUME k + 1 <= c
                 PROVE  start[(k + 1) + 1] = Spot(k + 1) + 1
      OBVIOUS
    <3>1. k + 1 \in 1..c /\ k <= c /\ (k + 1) - 1 = k
      BY <1>2
    <3>2. start[k + 1] = Spot(k) + 1
      BY <2>2, <3>1
    <3>3. start[(k + 1) + 1] = (Spot(k) + 1) + 2 + Long(s, k + 1)
      BY <1>8, <1>9, <3>1, <3>2
    <3>4. Spot(k) \in Nat /\ Long(s, k + 1) \in Nat /\ Spot(k) + 2 + Long(s, k + 1) = Spot(k + 1)
      BY <1>3, <3>1
    <3> DEFINE x == Spot(k)
               y == Spot(k + 1)
               l == Long(s, k + 1)
    <3> HIDE DEF x, y, l
    <3>5. x \in Nat /\ l \in Nat /\ y = x + 2 + l
      BY <3>4 DEF x, y, l
    <3>6. (x + 1) + 2 + l = y + 1
      BY <3>5
    <3> QED
      BY <3>3, <3>6 DEF x, y, l
  <2> HIDE DEF S
  <2>3. Nat \subseteq S
    BY <2>1, <2>2, Induction
  <2> QED
    BY <1>2, <2>3 DEF S
<1> DEFINE seqs == [k \in 1..c |-> SubSeq(bytes, start[k] + 2, start[k + 1] - 1)]
<1>11. /\ batch(bytes).complete = (Len(bytes) >= 4 /\ start[c + 1] - 1 <= Len(bytes))
       /\ batch(bytes).complete =>
            /\ batch(bytes).rest = SubSeq(bytes, start[c + 1], Len(bytes))
            /\ batch(bytes).data = FlattenSeq(seqs)
  <2>1. c = chunksOf(word(bytes, 3)) /\ start = Starts(bytes, c) /\ c \in Nat
    BY <1>2, <1>7 DEF c, start
  <2> QED
    BY <2>1, BatchRead, SMTT(30)
<1>12. start[c + 1] = Length(m) + 1
  <2>1. c \in 0..c
    BY <1>2
  <2> QED
    BY <1>4, <1>10, <2>1
<1>13. batch(bytes).complete
  <2>1. start[c + 1] - 1 <= Len(bytes)
    <3> DEFINE x == start[c + 1]
    <3>1. x = Length(m) + 1
      BY <1>12
    <3> HIDE DEF x
    <3>2. x - 1 <= Len(bytes)
      BY <1>3, <1>6, <3>1
    <3> QED
      BY <3>2 DEF x
  <2>2. batch(bytes).complete = TRUE
    BY <1>6, <1>11, <2>1
  <2> QED
    BY <2>2
<1>14. ASSUME NEW k \in 1..c
       PROVE  /\ seqs[k] \in Seq(Unit) /\ Len(seqs[k]) = Long(s, k)
              /\ \A j \in 1..Long(s, k) : seqs[k][j] = pieces(m)[Reach(s, k - 1) + j]
  <2> DEFINE x == Spot(k - 1)
             y == Spot(k)
             l == Long(s, k)
             a == x + 2
  <2>1. x \in Nat /\ l \in Nat /\ x + 2 + l = y /\ y <= Length(m)
    BY <1>3
  <2>2. start[k] = x + 1 /\ start[k + 1] = y + 1
    <3>1. k - 1 \in 0..c /\ k \in 0..c /\ (k - 1) + 1 = k
      BY <1>2
    <3> QED
      BY <1>10, <3>1
  <2>3. \A j \in 1..l : F[x + 2 + j] = pieces(m)[Reach(s, k - 1) + j]
    BY <1>5
  <2> HIDE DEF x, y, l
  <2>4. /\ a \in Nat /\ y \in Nat /\ a <= y /\ y <= Len(bytes) /\ y - a = l
        /\ (x + 1) + 2 = a + 1 /\ (y + 1) - 1 = y
    <3> DEFINE z == Length(m)
               e == Len(bytes)
    <3>1. z \in Nat /\ e \in Nat /\ z <= e /\ y <= z
      BY <1>3, <1>6, <2>1
    <3> HIDE DEF z, e
    <3>2. y <= e /\ y - (x + 2) = l /\ x + 2 \in Nat /\ y \in Nat /\ x + 2 <= y
          /\ (x + 1) + 2 = (x + 2) + 1 /\ (y + 1) - 1 = y
      BY <2>1, <3>1
    <3> QED
      BY <3>2 DEF e
  <2>5. seqs[k] = SubSeq(bytes, a + 1, y)
    BY <2>2, <2>4
  <2>6. \A j \in 1..l : a + j \in 1..Length(m)
    <3> DEFINE z == Length(m)
    <3>1. z \in Nat /\ y <= z
      BY <1>3, <2>1
    <3> HIDE DEF z
    <3>2. \A j \in 1..l : a + j \in 1..z
      BY <2>1, <3>1
    <3> QED
      BY <3>2 DEF z
  <2> HIDE DEF a, seqs
  <2>7. /\ SubSeq(bytes, a + 1, y) \in Seq(Unit)
        /\ Len(SubSeq(bytes, a + 1, y)) = y - a
        /\ \A j \in 1..(y - a) : SubSeq(bytes, a + 1, y)[j] = bytes[a + j]
    BY <2>4, Slice
  <2>8. \A j \in 1..l : bytes[a + j] = F[a + j]
    BY <2>6 DEF F
  <2>9. \A j \in 1..l : seqs[k][j] = pieces(m)[Reach(s, k - 1) + j]
    BY <2>3, <2>4, <2>5, <2>7, <2>8 DEF a
  <2> QED
    BY <2>4, <2>5, <2>7, <2>9 DEF l
<1>15. seqs \in Seq(Seq(Unit)) /\ Len(seqs) = c
  <2>1. \A k \in 1..c : seqs[k] \in Seq(Unit)
    BY <1>14
  <2>2. seqs = [k \in 1..c |-> seqs[k]] /\ seqs \in [1..c -> Seq(Unit)]
    BY <2>1
  <2> HIDE DEF seqs
  <2> QED
    BY <1>2, <2>2
<1> HIDE DEF seqs
<1> DEFINE at == [k \in 0..c |-> Reach(s, k)]
<1>16. /\ at \in [0..c -> Nat] /\ at[0] = 0 /\ at[c] = s
       /\ \A i \in 1..c : at[i] = at[i - 1] + Len(seqs[i]) /\ at[i - 1] = Reach(s, i - 1)
  <2>1. /\ Reach(s, 0) = 0 /\ Reach(s, c) = s
        /\ \A k \in 0..c : Reach(s, k) \in Nat
    BY <1>1, ChunksReach DEF c
  <2>2. \A k \in 1..c : Reach(s, k) = Reach(s, k - 1) + Long(s, k)
    BY <1>1, AtSteps DEF c
  <2>3. 0 \in 0..c /\ c \in 0..c /\ \A k \in 1..c : k \in 0..c /\ k - 1 \in 0..c
    BY <1>2
  <2>4. \A i \in 1..c : Reach(s, i) = Reach(s, i - 1) + Len(seqs[i])
    BY <1>14, <2>2
  <2> QED
    BY <2>1, <2>3, <2>4
<1> HIDE DEF at
<1>17. /\ FlattenSeq(seqs) \in Seq(Unit)
       /\ Len(FlattenSeq(seqs)) = s
       /\ \A i \in 1..c : \A j \in 1..Len(seqs[i]) :
            FlattenSeq(seqs)[Reach(s, i - 1) + j] = seqs[i][j]
  <2>1. at \in [0..Len(seqs) -> Nat] /\ Ends(at, seqs)
    BY <1>15, <1>16 DEF Ends
  <2>2. /\ FlattenSeq(seqs) \in Seq(Unit)
        /\ Len(FlattenSeq(seqs)) = at[Len(seqs)]
        /\ Lays(FlattenSeq(seqs), seqs, at)
    BY <1>15, <2>1, FlattenPositions
  <2> QED
    BY <1>15, <1>16, <2>2 DEF Lays
<1>18. \A i \in 1..s : FlattenSeq(seqs)[i] = pieces(m)[i]
  <2> TAKE i \in 1..s
  <2>1. PICK k \in 1..c : \E j \in 1..Long(s, k) : i = Reach(s, k - 1) + j
    BY <1>1, Covered DEF c
  <2>2. PICK j \in 1..Long(s, k) : i = Reach(s, k - 1) + j
    BY <2>1
  <2> QED
    BY <1>14, <1>17, <2>2
<1>19. pieces(m) \in Seq(Unit) /\ Len(pieces(m)) = s
  BY Pieces DEF s
<1>20. FlattenSeq(seqs) = pieces(m)
  <2> DEFINE f == FlattenSeq(seqs)
             g == pieces(m)
  <2>1. f \in Seq(Unit) /\ g \in Seq(Unit) /\ Len(f) = Len(g) /\ \A i \in 1..Len(f) : f[i] = g[i]
    BY <1>17, <1>18, <1>19
  <2> HIDE DEF f, g
  <2>2. f = g
    BY <2>1
  <2> QED
    BY <2>2 DEF f, g
<1> QED
  BY <1>11, <1>12, <1>13, <1>20

\* A message of which the end is missing is not read: a length that is missing is read as
\* zero, and its two halves are missing too.
LEMMA BatchPart ==
  ASSUME ChunkAssumption, NEW m \in Message, NEW bytes \in Seq(Unit),
         Len(bytes) < Length(m), \A i \in 1..Len(bytes) : bytes[i] = framed(m)[i]
  PROVE  ~batch(bytes).complete
<1> DEFINE s == m.size
           c == chunksOf(s)
           start == Starts(bytes, c)
           Spot(k) == 4 + At(s, k)
           F == framed(m)
           end == Len(bytes)
<1>1. s \in Nat \ {0}
  BY DEF Message
<1>2. c \in Nat \ {0}
  BY <1>1, ChunksReach
<1>3. /\ Length(m) \in Nat
      /\ \A k \in 1..c : /\ Spot(k - 1) \in Nat /\ Long(s, k) \in Nat \ {0}
                         /\ Spot(k - 1) + 2 + Long(s, k) = Spot(k)
  BY LengthReaches
<1>4. Spot(0) = 4 /\ Spot(c) = Length(m)
  BY <1>1, AtSteps DEF Length
<1>5. \A k \in 1..c : F[Spot(k - 1) + 1].value = Long(s, k)
  BY Framed DEF Reads
<1>6. end \in Nat /\ end < Length(m)
  OBVIOUS
<1>7. CASE end < 4
  <2> DEFINE n == chunksOf(word(bytes, 3))
  <2>1. word(bytes, 3) = 0
    BY <1>6, <1>7 DEF word
  <2>2. n \in Nat
    <3>1. n = (0 + ChunkSize - 1) \div ChunkSize
      BY <2>1 DEF chunksOf
    <3> QED
      BY <3>1 DEF ChunkAssumption
  <2>3. batch(bytes).complete = (Len(bytes) >= 4 /\ Starts(bytes, n)[n + 1] - 1 <= Len(bytes))
    BY <2>2, BatchRead
  <2>4. ~(Len(bytes) >= 4)
    BY <1>6, <1>7
  <2> HIDE DEF n
  <2> QED
    BY <2>3, <2>4
<1>8. CASE end >= 4
  <2>1. word(bytes, 3) = s
    <3>1. bytes[3] = F[3]
      BY <1>6, <1>8
    <3> QED
      BY <1>8, <3>1, Header
  <2>2. /\ start \in [1..(c + 1) -> Nat \ {0}] /\ start[1] = 5
        /\ \A k \in 1..c : start[k + 1] = start[k] + 2 + word(bytes, start[k])
    <3> HIDE DEF c
    <3> QED
      BY <1>2, StartsFollow
  <2>3. batch(bytes).complete = (end >= 4 /\ start[c + 1] - 1 <= end)
    <3>1. c = chunksOf(word(bytes, 3)) /\ start = Starts(bytes, c) /\ c \in Nat
      BY <1>2, <2>1
    <3> HIDE DEF c, start
    <3> QED
      BY <3>1, BatchRead
  <2> HIDE DEF start, c, s, F, Spot, end
  <2> DEFINE S == {k \in Nat : k <= c => start[k + 1] = Spot(k) + 1 \/ start[k + 1] > end + 1}
  <2>4. 0 \in S
    BY <1>4, <2>2
  <2>5. ASSUME NEW k \in Nat, k \in S
        PROVE  k + 1 \in S
    <3> SUFFICES ASSUME k + 1 <= c
                 PROVE  start[(k + 1) + 1] = Spot(k + 1) + 1 \/ start[(k + 1) + 1] > end + 1
      OBVIOUS
    <3> DEFINE x == Spot(k)
               y == Spot(k + 1)
               l == Long(s, k + 1)
               a == start[k + 1]
               b == start[(k + 1) + 1]
               w == word(bytes, a)
    <3>1. k + 1 \in 1..c /\ k + 1 \in 1..(c + 1) /\ k <= c /\ (k + 1) - 1 = k
      BY <1>2
    <3>2. a = x + 1 \/ a > end + 1
      BY <2>5, <3>1
    <3>3. a \in Nat \ {0} /\ b = a + 2 + w
      BY <2>2, <3>1
    <3>4. w \in Nat
      <4> HIDE DEF a
      <4> QED
        BY <3>3, WordRead
    <3>5. x \in Nat /\ l \in Nat /\ x + 2 + l = y
      BY <1>3, <3>1
    <3>6. ASSUME a = x + 1, x + 2 <= end
          PROVE  w = l
      <4>1. F[x + 1].value = l
        BY <1>5, <3>1
      <4> HIDE DEF x, l, a
      <4>2. a \in 1..end /\ a + 1 <= end
        BY <1>6, <3>5, <3>6
      <4>3. bytes[a] = F[x + 1]
        BY <3>6, <4>2 DEF end, F
      <4> QED
        BY <4>1, <4>2, <4>3 DEF word, end
    <3> HIDE DEF x, y, l, a, b, w
    <3>7. b = y + 1 \/ b > end + 1
      BY <1>6, <3>2, <3>3, <3>4, <3>5, <3>6
    <3> QED
      BY <3>7 DEF b, y
  <2>6. c \in S
    <3> HIDE DEF S
    <3> QED
      BY <1>2, <2>4, <2>5, Induction
  <2> DEFINE z == start[c + 1]
  <2>7. z = Length(m) + 1 \/ z > end + 1
    BY <1>4, <2>6
  <2>8. z \in Nat
    <3>1. c + 1 \in 1..(c + 1)
      BY <1>2
    <3> QED
      BY <2>2, <3>1
  <2> HIDE DEF z
  <2>9. ~(z - 1 <= end)
    BY <1>3, <1>6, <2>7, <2>8
  <2> QED
    BY <2>3, <2>9 DEF z
<1> QED
  BY <1>6, <1>7, <1>8

---------------------------------------------------------------------------
(* The stream *)

\* T lays out the messages ms, and pos[i] is where the i-th ends.
Laid(T, pos, ms) ==
  /\ T \in Seq(Unit) /\ pos \in [0..Len(ms) -> Nat]
  /\ pos[0] = 0 /\ Len(T) = pos[Len(ms)]
  /\ \A i \in 1..Len(ms) : pos[i] = pos[i - 1] + Length(ms[i])
  /\ \A i \in 1..Len(ms) : \A j \in 1..Length(ms[i]) : T[pos[i - 1] + j] = framed(ms[i])[j]

\* Messages end within the stream.
LEMMA LaidGrows ==
  ASSUME ChunkAssumption, NEW ms \in Seq(Message), NEW T, NEW pos, Laid(T, pos, ms)
  PROVE  \A i \in 0..Len(ms) : pos[i] \in Nat /\ pos[i] <= Len(T)
<1> DEFINE n == Len(ms)
           S == {k \in Nat : k <= n => \A i \in 0..k : pos[i] <= pos[k]}
<1>1. n \in Nat /\ pos \in [0..n -> Nat] /\ Len(T) = pos[n]
  BY DEF Laid
<1>2. \A i \in 1..n : pos[i] = pos[i - 1] + Length(ms[i]) /\ Length(ms[i]) \in Nat
  <2> TAKE i \in 1..n
  <2>1. ms[i] \in Message
    OBVIOUS
  <2> QED
    BY <2>1, LengthReaches DEF Laid
<1> HIDE DEF n
<1>3. 0 \in S
  BY <1>1
<1>4. ASSUME NEW k \in Nat, k \in S
      PROVE  k + 1 \in S
  <2> SUFFICES ASSUME k + 1 <= n, NEW i \in 0..(k + 1)
               PROVE  pos[i] <= pos[k + 1]
    OBVIOUS
  <2>1. k <= n /\ k + 1 \in 1..n /\ (k + 1) - 1 = k /\ k \in 0..n /\ k + 1 \in 0..n /\ i \in 0..n
    BY <1>1
  <2> DEFINE l == Length(ms[k + 1])
  <2>2. pos[k + 1] = pos[k] + l /\ l \in Nat /\ pos[k] \in Nat /\ pos[i] \in Nat
    BY <1>1, <1>2, <2>1
  <2>3. i = k + 1 \/ i \in 0..k
    OBVIOUS
  <2>4. i \in 0..k => pos[i] <= pos[k]
    BY <1>4, <2>1
  <2> HIDE DEF l
  <2> QED
    BY <2>2, <2>3, <2>4
<1>5. n \in S
  <2> HIDE DEF S
  <2> QED
    BY <1>1, <1>3, <1>4, Induction
<1> QED
  BY <1>1, <1>5 DEF n

\* A message sent is laid out after the others.
LEMMA LaidMore ==
  ASSUME ChunkAssumption, NEW ms \in Seq(Message), NEW T, NEW pos, Laid(T, pos, ms),
         NEW m \in Message
  PROVE  \E p : /\ Laid(T \o framed(m), p, Append(ms, m))
                /\ \A i \in 0..Len(ms) : p[i] = pos[i]
<1> DEFINE n == Len(ms)
           l == Length(m)
           F == framed(m)
           new == Append(ms, m)
           p == [i \in 0..(n + 1) |-> IF i = n + 1 THEN pos[n] + l ELSE pos[i]]
<1>1. /\ n \in Nat /\ T \in Seq(Unit) /\ pos \in [0..n -> Nat] /\ pos[0] = 0 /\ Len(T) = pos[n]
      /\ \A i \in 1..n : pos[i] = pos[i - 1] + Length(ms[i])
      /\ \A i \in 1..n : \A j \in 1..Length(ms[i]) : T[pos[i - 1] + j] = framed(ms[i])[j]
  BY DEF Laid
<1>2. l \in Nat /\ F \in Seq(Unit) /\ Len(F) = l
  BY LengthReaches, Framed
<1>3. /\ new \in Seq(Message) /\ Len(new) = n + 1 /\ new[n + 1] = m
      /\ \A i \in 1..n : new[i] = ms[i] /\ ms[i] \in Message
  OBVIOUS
<1>4. \A i \in 0..n : pos[i] \in Nat /\ pos[i] <= Len(T)
  BY LaidGrows
<1>5. /\ p \in [0..(n + 1) -> Nat] /\ p[n + 1] = pos[n] + l
      /\ \A i \in 0..n : p[i] = pos[i]
  <2>1. n \in 0..n /\ n + 1 \in 0..(n + 1)
    BY <1>1
  <2>2. \A i \in 0..n : i \in 0..(n + 1) /\ i # n + 1
    BY <1>1
  <2>3. pos[n] + l \in Nat
    BY <1>1, <1>2, <2>1
  <2>4. \A i \in 0..(n + 1) : i # n + 1 => i \in 0..n
    BY <1>1
  <2> HIDE DEF n, l
  <2> QED
    BY <1>1, <2>1, <2>2, <2>3, <2>4
<1> HIDE DEF n, l, F, new, p
<1>6. /\ T \o F \in Seq(Unit) /\ Len(T \o F) = Len(T) + Len(F)
      /\ \A i \in 1..Len(T) : (T \o F)[i] = T[i]
      /\ \A i \in 1..Len(F) : (T \o F)[Len(T) + i] = F[i]
  <2>1. T \in Seq(Unit) /\ F \in Seq(Unit)
    BY <1>1, <1>2
  <2> QED
    BY <2>1, Concat
<1>7. \A i \in 1..(n + 1) : i = n + 1 \/ (i \in 1..n /\ i - 1 \in 0..n /\ i \in 0..n)
  BY <1>1
<1>8. 0 \in 0..n /\ n \in 0..n /\ (n + 1) - 1 = n
  BY <1>1
<1>9. ASSUME NEW i \in 1..(n + 1)
      PROVE  /\ p[i] = p[i - 1] + Length(new[i])
             /\ \A j \in 1..Length(new[i]) : (T \o F)[p[i - 1] + j] = framed(new[i])[j]
  <2>1. CASE i = n + 1
    <3>1. new[i] = m /\ p[i - 1] = Len(T) /\ p[i] = Len(T) + l
      BY <1>1, <1>3, <1>5, <1>8, <2>1
    <3> QED
      BY <1>2, <1>6, <3>1 DEF l, F
  <2>2. CASE i # n + 1
    <3>1. i \in 1..n /\ i - 1 \in 0..n /\ i \in 0..n
      BY <1>7, <2>2
    <3>2. new[i] = ms[i] /\ p[i - 1] = pos[i - 1] /\ p[i] = pos[i]
      BY <1>3, <1>5, <3>1
    <3>3. p[i] = p[i - 1] + Length(new[i])
      BY <1>1, <3>1, <3>2
    <3>4. ASSUME NEW j \in 1..Length(new[i])
          PROVE  (T \o F)[p[i - 1] + j] = framed(new[i])[j]
      <4> DEFINE a == pos[i - 1]
                 b == pos[i]
                 x == Length(ms[i])
                 y == Len(T)
      <4>1. a \in Nat /\ b = a + x /\ x \in Nat /\ b <= y /\ y \in Nat /\ j \in 1..x
        <5>1. x \in Nat
          BY <1>3, <3>1, LengthReaches
        <5> QED
          BY <1>1, <1>4, <3>1, <3>2, <5>1
      <4> HIDE DEF a, b, x, y
      <4>2. a + j \in 1..y
        BY <4>1
      <4>3. (T \o F)[a + j] = T[a + j]
        BY <1>6, <4>2 DEF y
      <4>4. T[a + j] = framed(ms[i])[j]
        BY <1>1, <3>1, <4>1 DEF a, x
      <4> QED
        BY <3>2, <4>3, <4>4 DEF a
    <3> QED
      BY <3>3, <3>4
  <2> QED
    BY <2>1, <2>2
<1>10. Laid(T \o F, p, new)
  <2>1. p[0] = 0
    BY <1>1, <1>5, <1>8
  <2>2. Len(T \o F) = p[n + 1]
    BY <1>1, <1>2, <1>5, <1>6
  <2> QED
    BY <1>3, <1>5, <1>6, <1>9, <2>1, <2>2 DEF Laid
<1> QED
  BY <1>5, <1>10 DEF F, new, n

\* r is a reading, after which t more messages than d were told and their bytes consumed.
After(r, t, bytes, pos, ms, d) ==
  /\ r = [bytes |-> r.bytes, complete |-> r.complete, ackHeader |-> r.ackHeader,
          waits |-> r.waits, told |-> r.told, signals |-> r.signals, splits |-> r.splits]
  /\ t \in 0..(Len(ms) - d)
  /\ r.told \in Seq(Seq(Unit)) /\ Len(r.told) = t
  /\ \A i \in 1..t : r.told[i] = pieces(ms[d + i])
  /\ pos[d + t] - pos[d] \in 0..Len(bytes)
  /\ r.bytes = SubSeq(bytes, (pos[d + t] - pos[d]) + 1, Len(bytes))

\* What is read is what is laid out after the d-th message.
ReadsFrom(bytes, T, pos, d) ==
  /\ bytes \in Seq(Unit) /\ pos[d] + Len(bytes) <= Len(T)
  /\ \A i \in 1..Len(bytes) : bytes[i] = T[pos[d] + i]

\* A round of the loop tells the next message if it is there in full, and else nothing.
LEMMA RoundStep ==
  ASSUME ChunkAssumption, NEW ms \in Seq(Message), NEW T, NEW pos, Laid(T, pos, ms),
         NEW d \in 0..Len(ms), NEW bytes, ReadsFrom(bytes, T, pos, d),
         NEW r, NEW t, After(r, t, bytes, pos, ms, d)
  PROVE  \E u : After(processBatch(r), u, bytes, pos, ms, d)
<1>1. CASE r.bytes = <<>> \/ r.waits
  <2>1. processBatch(r) = r
    BY <1>1 DEF processBatch
  <2> QED
    BY <2>1
<1>2. CASE ~(r.bytes = <<>> \/ r.waits)
  <2> DEFINE n == Len(ms)
             L == Len(bytes)
             R == r.bytes
             p == pos[d + t] - pos[d]
             m == ms[d + t + 1]
             l == Length(m)
             q == processBatch(r)
  <2>1. /\ n \in Nat /\ T \in Seq(Unit) /\ pos \in [0..n -> Nat] /\ Len(T) = pos[n]
        /\ \A i \in 1..n : pos[i] = pos[i - 1] + Length(ms[i])
        /\ \A i \in 1..n : \A j \in 1..Length(ms[i]) : T[pos[i - 1] + j] = framed(ms[i])[j]
    BY DEF Laid
  <2>2. /\ bytes \in Seq(Unit) /\ L \in Nat /\ pos[d] + L <= Len(T)
        /\ \A i \in 1..L : bytes[i] = T[pos[d] + i]
    BY DEF ReadsFrom
  <2>3. /\ t \in 0..(n - d) /\ d \in 0..n /\ p \in 0..L /\ R = SubSeq(bytes, p + 1, L)
        /\ r.told \in Seq(Seq(Unit)) /\ Len(r.told) = t
        /\ \A i \in 1..t : r.told[i] = pieces(ms[d + i])
    BY DEF After
  <2>4. r = [bytes |-> r.bytes, complete |-> r.complete, ackHeader |-> r.ackHeader,
             waits |-> r.waits, told |-> r.told, signals |-> r.signals, splits |-> r.splits]
    BY DEF After
  <2> HIDE DEF n, L, p, R, m, l, q
  <2>5. d + t \in 0..n /\ d + t \in Nat /\ t \in Nat /\ d \in Nat
    BY <2>1, <2>3
  <2>6. pos[d] \in Nat /\ pos[d + t] \in Nat /\ pos[d + t] = pos[d] + p /\ p \in Nat
    <3> DEFINE x == pos[d]
               y == pos[d + t]
    <3>1. x \in Nat /\ y \in Nat /\ p = y - x
      BY <2>1, <2>3, <2>5 DEF p
    <3> HIDE DEF x, y
    <3>2. y = x + p
      BY <3>1
    <3> QED
      BY <2>3, <3>1, <3>2 DEF x, y
  <2>7. /\ R \in Seq(Unit) /\ Len(R) = L - p
        /\ \A i \in 1..(L - p) : R[i] = bytes[p + i]
    <3>1. p \in Nat /\ L \in Nat /\ p <= L
      BY <2>2, <2>3
    <3>2. /\ SubSeq(bytes, p + 1, L) \in Seq(Unit)
          /\ Len(SubSeq(bytes, p + 1, L)) = L - p
          /\ \A i \in 1..(L - p) : SubSeq(bytes, p + 1, L)[i] = bytes[p + i]
      BY <2>2, <3>1, Slice DEF L
    <3> QED
      BY <2>3, <3>2
  <2>8. p < L
    <3>1. R # <<>>
      BY <1>2 DEF R
    <3>2. Len(R) # 0
      BY <2>7, <3>1
    <3> QED
      BY <2>2, <2>3, <2>7, <3>2
  <2>9. d + t + 1 \in 1..n /\ (d + t + 1) - 1 = d + t
    <3>1. pos[d + t] < pos[n]
      BY <2>1, <2>2, <2>6, <2>8
    <3>2. d + t # n
      BY <2>6, <3>1
    <3> QED
      BY <2>1, <2>5, <3>2
  <2>10. m \in Message /\ l \in Nat /\ l > 4
    <3>1. m \in Message
      BY <2>9 DEF m, n
    <3> QED
      BY <3>1, LengthReaches DEF l
  <2>11. pos[d + t + 1] = pos[d + t] + l /\ \A j \in 1..l : T[pos[d + t] + j] = framed(m)[j]
    BY <2>1, <2>9 DEF l, m
  <2>12. \A j \in 1..Len(R) : R[j] = T[pos[d + t] + j]
    <3> TAKE j \in 1..Len(R)
    <3>1. j \in 1..(L - p) /\ p + j \in 1..L
      BY <2>2, <2>3, <2>7
    <3>2. R[j] = bytes[p + j] /\ bytes[p + j] = T[pos[d] + (p + j)]
      BY <2>2, <2>7, <3>1
    <3>3. pos[d] + (p + j) = pos[d + t] + j
      BY <2>6, <3>1
    <3> QED
      BY <3>2, <3>3
  <2>13. Len(R) \in Nat
    BY <2>7
  <2>14. CASE l <= Len(R)
    <3>1. \A j \in 1..l : R[j] = framed(m)[j]
      BY <2>10, <2>11, <2>12, <2>13, <2>14
    <3>2. /\ batch(R).complete
          /\ batch(R).rest = SubSeq(R, l + 1, Len(R))
          /\ batch(R).data = pieces(m)
      BY <2>7, <2>10, <2>14, <3>1, BatchWhole DEF l
    <3>3. q.bytes = batch(R).rest /\ q.told = Append(r.told, batch(R).data)
          /\ q = [bytes |-> q.bytes, complete |-> q.complete, ackHeader |-> q.ackHeader,
                  waits |-> q.waits, told |-> q.told, signals |-> q.signals,
                  splits |-> q.splits]
      <4>1. q = [r EXCEPT !.complete = TRUE, !.ackHeader = TRUE, !.bytes = batch(R).rest,
                          !.told = Append(@, batch(R).data),
                          !.signals = @ \o announced(r, batch(R))
                                        \o <<[type |-> "progress"], [type |-> "downloaded"]>>]
        BY <1>2, <3>2 DEF q, R, processBatch
      <4> DEFINE all == r.signals \o announced(r, batch(R))
                          \o <<[type |-> "progress"], [type |-> "downloaded"]>>
      <4> HIDE DEF all
      <4>2. q = [bytes |-> batch(R).rest, complete |-> TRUE, ackHeader |-> TRUE,
                 waits |-> r.waits, told |-> Append(r.told, batch(R).data), signals |-> all,
                 splits |-> r.splits]
        BY <2>4, <4>1 DEF all
      <4> QED
        BY <4>2
    <3>4. q.told \in Seq(Seq(Unit)) /\ Len(q.told) = t + 1
          /\ \A i \in 1..(t + 1) : q.told[i] = pieces(ms[d + i])
      <4>1. pieces(m) \in Seq(Unit)
        BY <2>10, Pieces
      <4>2. q.told = Append(r.told, pieces(m))
        BY <3>2, <3>3
      <4>3. q.told \in Seq(Seq(Unit)) /\ Len(q.told) = t + 1 /\ q.told[t + 1] = pieces(m)
            /\ \A i \in 1..t : q.told[i] = r.told[i]
        BY <2>3, <4>1, <4>2
      <4>4. \A i \in 1..(t + 1) : i = t + 1 \/ i \in 1..t
        BY <2>5
      <4>5. d + (t + 1) = d + t + 1
        BY <2>5
      <4> QED
        BY <2>3, <4>3, <4>4, <4>5 DEF m
    <3>5. t + 1 \in 0..(n - d) /\ d + (t + 1) = d + t + 1
      BY <2>1, <2>3, <2>5, <2>9
    <3>6. pos[d + (t + 1)] - pos[d] = p + l /\ p + l \in 0..L
      <4>1. p + l \in 0..L
        <5>1. L \in Nat /\ p \in 0..L /\ l \in Nat /\ l <= L - p
          BY <2>2, <2>3, <2>7, <2>10, <2>14
        <5> QED
          BY <5>1
      <4>2. pos[d + t + 1] = (pos[d] + p) + l
        BY <2>6, <2>11
      <4> DEFINE x == pos[d]
                 y == pos[d + t + 1]
      <4>3. x \in Nat /\ y = (x + p) + l
        BY <2>6, <4>2
      <4> HIDE DEF x, y
      <4>4. y - x = p + l
        BY <2>6, <2>10, <4>3
      <4> QED
        BY <3>5, <4>1, <4>4 DEF x, y
    <3>7. q.bytes = SubSeq(bytes, (p + l) + 1, L)
      <4>1. q.bytes = SubSeq(R, l + 1, Len(R))
        BY <3>2, <3>3
      <4> DEFINE A == SubSeq(R, l + 1, Len(R))
                 B == SubSeq(bytes, (p + l) + 1, L)
                 k == (L - p) - l
      <4>2. /\ A \in Seq(Unit) /\ Len(A) = Len(R) - l
            /\ \A i \in 1..(Len(R) - l) : A[i] = R[l + i]
        <5>1. R \in Seq(Unit) /\ l \in Nat /\ Len(R) \in Nat /\ l <= Len(R)
          BY <2>7, <2>10, <2>13, <2>14
        <5>2. Len(R) <= Len(R)
          BY <2>13
        <5> QED
          BY <5>1, <5>2, Slice
      <4>3. /\ B \in Seq(Unit) /\ Len(B) = L - (p + l)
            /\ \A i \in 1..(L - (p + l)) : B[i] = bytes[(p + l) + i]
        <5>1. p + l \in Nat /\ L \in Nat /\ p + l <= Len(bytes) /\ p + l <= L /\ L <= Len(bytes)
          BY <2>2, <3>6 DEF L
        <5> QED
          BY <2>2, <5>1, Slice
      <4>4. Len(R) - l = k /\ L - (p + l) = k /\ k \in Nat
        BY <2>2, <2>3, <2>7, <2>10, <2>14
      <4>5. \A i \in 1..k : l + i \in 1..(L - p) /\ p + (l + i) = (p + l) + i
        BY <2>2, <2>3, <2>10
      <4> HIDE DEF A, B, k
      <4>6. \A i \in 1..k : A[i] = B[i]
        BY <2>7, <4>2, <4>3, <4>4, <4>5
      <4>7. A = B
        BY <4>2, <4>3, <4>4, <4>6
      <4> QED
        BY <4>1, <4>7 DEF A, B
    <3>8. After(q, t + 1, bytes, pos, ms, d)
      BY <3>3, <3>4, <3>5, <3>6, <3>7 DEF After, n, L
    <3> QED
      BY <3>8 DEF q
  <2>15. CASE ~(l <= Len(R))
    <3>1. Len(R) < l /\ \A j \in 1..Len(R) : R[j] = framed(m)[j]
      BY <2>10, <2>11, <2>12, <2>13, <2>15
    <3>2. ~batch(R).complete
      BY <2>7, <2>10, <3>1, BatchPart DEF l
    <3>3. q.bytes = r.bytes /\ q.told = r.told
          /\ q = [bytes |-> q.bytes, complete |-> q.complete, ackHeader |-> q.ackHeader,
                  waits |-> q.waits, told |-> q.told, signals |-> q.signals,
                  splits |-> q.splits]
      <4> DEFINE cut == r.splits \/ (~acknowledged(r) /\ Len(r.bytes) < 4)
                 all == r.signals \o announced(r, batch(R)) \o <<[type |-> "progress"]>>
      <4>1. q = [r EXCEPT !.complete = FALSE, !.ackHeader = TRUE, !.waits = TRUE,
                          !.splits = @ \/ (~acknowledged(r) /\ Len(r.bytes) < 4),
                          !.signals = @ \o announced(r, batch(R)) \o <<[type |-> "progress"]>>]
        BY <1>2, <3>2 DEF q, R, processBatch
      <4> HIDE DEF all, cut
      <4>2. q = [bytes |-> r.bytes, complete |-> FALSE, ackHeader |-> TRUE, waits |-> TRUE,
                 told |-> r.told, signals |-> all, splits |-> cut]
        BY <2>4, <4>1 DEF all, cut
      <4> QED
        BY <4>2
    <3>4. After(q, t, bytes, pos, ms, d)
      BY <3>3 DEF After
    <3> QED
      BY <3>4 DEF q
  <2> QED
    BY <2>14, <2>15
<1> QED
  BY <1>1, <1>2

\* f goes through the rounds of the loop.
Runs(f, n, base) == f = [i \in 0..n |-> IF i = 0 THEN base ELSE processBatch(f[i - 1])]

\* The rounds of the loop are defined, as many as there are bytes.
LEMMA RunsExist ==
  ASSUME NEW n \in Nat, NEW base
  PROVE  \E f : Runs(f, n, base)
<1> DEFINE S == {k \in Nat : \E f : Runs(f, k, base)}
<1>1. 0 \in S
  <2> DEFINE f == [i \in 0..0 |-> base]
  <2>1. f = [i \in 0..0 |-> IF i = 0 THEN base ELSE processBatch(f[i - 1])]
    OBVIOUS
  <2>2. Runs(f, 0, base)
    BY <2>1 DEF Runs
  <2> QED
    BY <2>2
<1>2. ASSUME NEW k \in Nat, k \in S
      PROVE  k + 1 \in S
  <2>1. PICK f : Runs(f, k, base)
    BY <1>2
  <2>2. f = [i \in 0..k |-> IF i = 0 THEN base ELSE processBatch(f[i - 1])]
    BY <2>1 DEF Runs
  <2> DEFINE g == [i \in 0..(k + 1) |-> IF i = k + 1 THEN processBatch(f[k]) ELSE f[i]]
  <2>3. ASSUME NEW i \in 0..(k + 1)
        PROVE  g[i] = IF i = 0 THEN base ELSE processBatch(g[i - 1])
    <3>1. CASE i = k + 1
      <4>1. i # 0 /\ i - 1 = k /\ k \in 0..(k + 1) /\ k # k + 1
        BY <3>1
      <4>2. g[k] = f[k] /\ g[i] = processBatch(f[k])
        BY <3>1, <4>1
      <4> HIDE DEF g
      <4> QED
        BY <4>1, <4>2
    <3>2. CASE i # k + 1
      <4>1. i \in 0..k /\ g[i] = f[i]
        BY <3>2
      <4>2. f[i] = IF i = 0 THEN base ELSE processBatch(f[i - 1])
        BY <2>2, <4>1
      <4>3. i # 0 => i - 1 \in 0..(k + 1) /\ i - 1 # k + 1
        BY <4>1
      <4>4. i # 0 => g[i - 1] = f[i - 1]
        BY <4>3
      <4> HIDE DEF g
      <4> QED
        BY <4>1, <4>2, <4>4
    <3> QED
      BY <3>1, <3>2
  <2>4. g = [i \in 0..(k + 1) |-> g[i]]
    OBVIOUS
  <2> HIDE DEF g
  <2>5. Runs(g, k + 1, base)
    BY <2>3, <2>4 DEF Runs
  <2> QED
    BY <2>5
<1> HIDE DEF S
<1>3. Nat \subseteq S
  BY <1>1, <1>2, Induction
<1> QED
  BY <1>3 DEF S

\* What processIncomingData tells is what follows, in whole messages, and it keeps the rest.
LEMMA Reading ==
  ASSUME ChunkAssumption, NEW ms \in Seq(Message), NEW T, NEW pos, Laid(T, pos, ms),
         NEW d \in 0..Len(ms), NEW bytes, ReadsFrom(bytes, T, pos, d)
  PROVE  \E t : After(processIncomingData(bytes), t, bytes, pos, ms, d)
<1> DEFINE n == Len(bytes)
           base == reading(bytes)
           round[k \in 0..n] == IF k = 0 THEN base ELSE processBatch(round[k - 1])
<1>1. n \in Nat
  BY DEF ReadsFrom
<1>2. PICK f : Runs(f, n, base)
  <2> HIDE DEF n, base
  <2> QED
    BY <1>1, RunsExist
<1>3. f = [k \in 0..n |-> IF k = 0 THEN base ELSE processBatch(f[k - 1])]
  BY <1>2 DEF Runs
<1>4. round = [k \in 0..n |-> IF k = 0 THEN base ELSE processBatch(round[k - 1])]
  <2> HIDE DEF base, n
  <2> QED
    BY <1>3
<1>5. processIncomingData(bytes) = round[n]
  BY DEF processIncomingData
<1>6. \E t : After(base, t, bytes, pos, ms, d)
  <2>1. /\ base = [bytes |-> base.bytes, complete |-> base.complete, ackHeader |-> base.ackHeader,
                   waits |-> base.waits, told |-> base.told, signals |-> base.signals,
                   splits |-> base.splits]
        /\ base.told = <<>> /\ base.bytes = bytes
    BY DEF reading
  <2>2. bytes \in Seq(Unit) /\ bytes = SubSeq(bytes, 0 + 1, n)
    BY DEF ReadsFrom
  <2>3. pos[d] \in Nat /\ d + 0 = d /\ 0 \in 0..(Len(ms) - d)
    BY LaidGrows
  <2>4. pos[d + 0] - pos[d] = 0 /\ 0 \in 0..n
    BY <1>1, <2>3
  <2>5. /\ base.told \in Seq(Seq(Unit)) /\ Len(base.told) = 0
        /\ \A i \in 1..0 : base.told[i] = pieces(ms[d + i])
    BY <2>1
  <2> HIDE DEF base
  <2>6. After(base, 0, bytes, pos, ms, d)
    BY <2>1, <2>2, <2>3, <2>4, <2>5 DEF After
  <2> QED
    BY <2>6
<1> HIDE DEF round, base
<1> DEFINE S == {k \in Nat : k <= n => \E t : After(round[k], t, bytes, pos, ms, d)}
<1>7. 0 \in S
  <2>1. round[0] = base
    BY <1>1, <1>4
  <2> QED
    BY <1>6, <2>1
<1>8. ASSUME NEW k \in Nat, k \in S
      PROVE  k + 1 \in S
  <2> SUFFICES ASSUME k + 1 <= n
               PROVE  \E t : After(round[k + 1], t, bytes, pos, ms, d)
    OBVIOUS
  <2>1. k <= n /\ k + 1 \in 0..n /\ k + 1 # 0 /\ (k + 1) - 1 = k
    BY <1>1
  <2>2. PICK t : After(round[k], t, bytes, pos, ms, d)
    BY <1>8, <2>1
  <2>3. round[k + 1] = processBatch(round[k])
    BY <1>4, <2>1
  <2> QED
    BY <2>2, <2>3, RoundStep
<1>9. n \in S
  <2> HIDE DEF S, n
  <2> QED
    BY <1>1, <1>7, <1>8, Induction
<1> QED
  BY <1>1, <1>5, <1>9

---------------------------------------------------------------------------
(* What is left of a sequence *)

Drop(s, k) == SubSeq(s, k + 1, Len(s))

\* Two sequences of the same length and elements are one.
LEMMA Same ==
  ASSUME NEW U, NEW a \in Seq(U), NEW b \in Seq(U), Len(a) = Len(b)
  PROVE  (\A i \in 1..Len(b) : a[i] = b[i]) => a = b
  OBVIOUS

\* Where the elements are of what is left.
LEMMA DropFacts ==
  ASSUME NEW U, NEW s \in Seq(U), NEW k \in Nat, k <= Len(s)
  PROVE  /\ Drop(s, k) \in Seq(U) /\ Len(s) \in Nat
         /\ Len(Drop(s, k)) = Len(s) - k
         /\ \A i \in 1..(Len(s) - k) : Drop(s, k)[i] = s[k + i]
<1>1. Len(s) \in Nat /\ Len(s) <= Len(s)
  OBVIOUS
<1> QED
  BY <1>1, Slice DEF Drop

\* What is left when more has followed.
LEMMA DropCat ==
  ASSUME NEW U, NEW s \in Seq(U), NEW r \in Seq(U), NEW k \in Nat, k <= Len(s)
  PROVE  Drop(s \o r, k) = Drop(s, k) \o r
<1> DEFINE a == Drop(s \o r, k)
           h == Drop(s, k)
           b == h \o r
           x == Len(s)
           y == Len(r)
<1>1. /\ s \o r \in Seq(U) /\ x \in Nat /\ y \in Nat /\ Len(s \o r) = x + y
      /\ \A i \in 1..x : (s \o r)[i] = s[i]
      /\ \A i \in 1..y : (s \o r)[x + i] = r[i]
  BY Concat
<1>2. k <= Len(s \o r)
  BY <1>1
<1>3. /\ a \in Seq(U) /\ Len(a) = Len(s \o r) - k
      /\ \A i \in 1..(Len(s \o r) - k) : a[i] = (s \o r)[k + i]
  <2> DEFINE w == s \o r
  <2>1. w \in Seq(U) /\ k <= Len(w)
    BY <1>1, <1>2
  <2> HIDE DEF w
  <2>2. /\ Drop(w, k) \in Seq(U) /\ Len(Drop(w, k)) = Len(w) - k
        /\ \A i \in 1..(Len(w) - k) : Drop(w, k)[i] = w[k + i]
    BY <2>1, DropFacts
  <2> QED
    BY <2>2 DEF w
<1>4. h \in Seq(U) /\ Len(h) = x - k /\ \A i \in 1..(x - k) : h[i] = s[k + i]
  BY DropFacts
<1> HIDE DEF a, h, x, y
<1>5. /\ b \in Seq(U) /\ Len(b) = Len(h) + Len(r)
      /\ \A i \in 1..Len(h) : b[i] = h[i]
      /\ \A i \in 1..Len(r) : b[Len(h) + i] = r[i]
  <2>1. h \in Seq(U) /\ r \in Seq(U)
    BY <1>4
  <2> QED
    BY <2>1, Concat
<1> HIDE DEF b
<1>6. Len(a) = (x - k) + y /\ Len(b) = (x - k) + y /\ k \in Nat /\ k <= x
  BY <1>1, <1>3, <1>4, <1>5 DEF x, y
<1>7. ASSUME NEW i \in 1..((x - k) + y)
      PROVE  a[i] = b[i]
  <2>1. a[i] = (s \o r)[k + i]
    BY <1>3, <1>6
  <2>2. CASE i <= x - k
    <3>1. i \in 1..(x - k) /\ k + i \in 1..x
      BY <1>1, <1>6, <2>2
    <3> QED
      BY <1>1, <1>4, <1>5, <2>1, <3>1
  <2>3. CASE ~(i <= x - k)
    <3> DEFINE j == i - (x - k)
    <3>1. j \in 1..y /\ k + i = x + j /\ i = (x - k) + j
      BY <1>1, <1>6, <2>3
    <3> HIDE DEF j
    <3>2. (s \o r)[x + j] = r[j] /\ b[(x - k) + j] = r[j]
      BY <1>1, <1>4, <1>5, <3>1 DEF y
    <3> QED
      BY <2>1, <3>1, <3>2
  <2> QED
    BY <2>2, <2>3
<1>8. a = b
  <2>1. a \in Seq(U) /\ b \in Seq(U) /\ Len(a) = Len(b) /\ \A i \in 1..Len(b) : a[i] = b[i]
    BY <1>3, <1>5, <1>6, <1>7
  <2> QED
    BY <2>1, Same
<1> QED
  BY <1>8 DEF a, b, h

\* What is left of what is left.
LEMMA DropDrop ==
  ASSUME NEW U, NEW s \in Seq(U), NEW k \in Nat, NEW j \in Nat, k + j <= Len(s)
  PROVE  Drop(Drop(s, k), j) = Drop(s, k + j)
<1> DEFINE h == Drop(s, k)
           a == Drop(h, j)
           b == Drop(s, k + j)
           x == Len(s)
<1>1. x \in Nat /\ k <= x /\ k + j \in Nat
  OBVIOUS
<1>2. h \in Seq(U) /\ Len(h) = x - k /\ \A i \in 1..(x - k) : h[i] = s[k + i]
  BY <1>1, DropFacts
<1>3. b \in Seq(U) /\ Len(b) = x - (k + j) /\ \A i \in 1..(x - (k + j)) : b[i] = s[(k + j) + i]
  BY <1>1, DropFacts
<1> HIDE DEF h, b
<1>4. j <= Len(h)
  BY <1>1, <1>2
<1>5. a \in Seq(U) /\ Len(a) = Len(h) - j /\ \A i \in 1..(Len(h) - j) : a[i] = h[j + i]
  <2>1. h \in Seq(U) /\ j \in Nat /\ j <= Len(h)
    BY <1>2, <1>4
  <2> QED
    BY <2>1, DropFacts
<1> HIDE DEF a, x
<1>6. Len(a) = Len(b) /\ Len(h) - j = x - (k + j)
  BY <1>1, <1>2, <1>3, <1>5
<1>7. ASSUME NEW i \in 1..Len(b)
      PROVE  a[i] = b[i]
  <2>1. i \in 1..(Len(h) - j) /\ i \in 1..(x - (k + j)) /\ j + i \in 1..(x - k)
        /\ k + (j + i) = (k + j) + i
    BY <1>1, <1>2, <1>3, <1>5, <1>6
  <2> QED
    BY <1>2, <1>3, <1>5, <2>1
<1>8. a = b
  <2>1. a \in Seq(U) /\ b \in Seq(U) /\ Len(a) = Len(b) /\ \A i \in 1..Len(b) : a[i] = b[i]
    BY <1>3, <1>5, <1>6, <1>7
  <2> QED
    BY <2>1, Same
<1> QED
  BY <1>8 DEF a, b, h

\* A sequence is what is taken of it and what is left.
LEMMA TakeDrop ==
  ASSUME NEW U, NEW s \in Seq(U), NEW k \in Nat, k <= Len(s)
  PROVE  /\ SubSeq(s, 1, k) \in Seq(U) /\ Len(SubSeq(s, 1, k)) = k
         /\ \A i \in 1..k : SubSeq(s, 1, k)[i] = s[i]
         /\ s = SubSeq(s, 1, k) \o Drop(s, k)
<1> DEFINE a == SubSeq(s, 1, k)
           h == Drop(s, k)
           b == a \o h
<1>1. a \in Seq(U) /\ Len(a) = k /\ \A i \in 1..k : a[i] = s[i]
  OBVIOUS
<1>2. /\ h \in Seq(U) /\ Len(s) \in Nat /\ Len(h) = Len(s) - k
      /\ \A i \in 1..(Len(s) - k) : h[i] = s[k + i]
  BY DropFacts
<1> HIDE DEF a, h
<1>3. /\ b \in Seq(U) /\ Len(b) = Len(a) + Len(h)
      /\ \A i \in 1..Len(a) : b[i] = a[i]
      /\ \A i \in 1..Len(h) : b[Len(a) + i] = h[i]
  <2>1. a \in Seq(U) /\ h \in Seq(U)
    BY <1>1, <1>2
  <2> QED
    BY <2>1, Concat
<1> HIDE DEF b
<1>4. Len(b) = Len(s)
  BY <1>1, <1>2, <1>3
<1>5. ASSUME NEW i \in 1..Len(b)
      PROVE  s[i] = b[i]
  <2>1. CASE i <= k
    <3>1. i \in 1..k
      BY <2>1
    <3> QED
      BY <1>1, <1>3, <3>1
  <2>2. CASE ~(i <= k)
    <3> DEFINE j == i - k
    <3>1. j \in 1..(Len(s) - k) /\ i = k + j
      BY <1>2, <1>4, <2>2
    <3> HIDE DEF j
    <3> QED
      BY <1>1, <1>2, <1>3, <3>1
  <2> QED
    BY <2>1, <2>2
<1>6. s = b
  BY <1>3, <1>4, <1>5, Same
<1> QED
  BY <1>1, <1>6 DEF a, b, h

---------------------------------------------------------------------------
(* The invariant: what is on its way is what is laid out after what was delivered *)

StreamInv ==
  /\ open \in BOOLEAN
  /\ sent \in Seq(Message)
  /\ delivered \in Seq(Seq(Unit)) /\ Len(delivered) <= Len(sent)
  /\ open =>
       /\ received \in Seq(Unit) /\ wire \in Seq(Unit) /\ buffer \in Seq(Unit)
       /\ \E T, pos : /\ Laid(T, pos, sent)
                      /\ (received \o wire) \o buffer = Drop(T, pos[Len(delivered)])

Queued == IF open THEN contents(SubSeq(sent, Len(delivered) + 1, Len(sent))) ELSE <<>>

\* The queue of the FIFO holds what was sent after the messages delivered.
LEMMA Contents ==
  ASSUME NEW ms \in Seq(Message), NEW d \in Nat, d <= Len(ms)
  PROVE  LET q == contents(SubSeq(ms, d + 1, Len(ms)))
         IN  /\ q \in Seq(Seq(Unit)) /\ Len(q) = Len(ms) - d
             /\ \A i \in 1..(Len(ms) - d) : q[i] = pieces(ms[d + i])
<1> DEFINE r == Drop(ms, d)
           n == Len(ms) - d
           q == contents(r)
<1>1. r \in Seq(Message) /\ Len(r) = n /\ n \in Nat /\ \A i \in 1..n : r[i] = ms[d + i]
  BY DropFacts
<1>2. r = SubSeq(ms, d + 1, Len(ms))
  BY DEF Drop
<1> HIDE DEF r, n
<1>3. \A i \in 1..n : r[i] \in Message /\ DOMAIN r = 1..n
  BY <1>1
<1>4. \A i \in 1..n : pieces(r[i]) \in Seq(Unit)
  BY <1>3, Pieces
<1>5. q = [i \in 1..n |-> pieces(r[i])]
  BY <1>1 DEF contents
<1> HIDE DEF q
<1>6. q \in Seq(Seq(Unit)) /\ Len(q) = n /\ \A i \in 1..n : q[i] = pieces(r[i])
  <2>1. q \in [1..n -> Seq(Unit)]
    BY <1>4, <1>5
  <2> QED
    BY <1>1, <1>5, <2>1
<1>7. \A i \in 1..n : q[i] = pieces(ms[d + i])
  BY <1>1, <1>6
<1> QED
  BY <1>2, <1>6, <1>7 DEF q, n

\* At first nothing is sent, and the FIFO is empty.
LEMMA StreamInit ==
  ASSUME SocketAssumption, Init
  PROVE  StreamInv /\ FIFO!Init
<1>1. /\ open = TRUE /\ sent = <<>> /\ delivered = <<>>
      /\ received = <<>> /\ wire = <<>> /\ buffer = <<>>
  BY DEF Init
<1>2. /\ sent \in Seq(Message) /\ Len(sent) = 0
      /\ delivered \in Seq(Seq(Unit)) /\ Len(delivered) = 0
      /\ received \in Seq(Unit) /\ wire \in Seq(Unit) /\ buffer \in Seq(Unit)
  BY <1>1
<1> DEFINE T == <<>>
           pos == [i \in 0..0 |-> 0]
<1>3. Laid(T, pos, sent)
  BY <1>2 DEF Laid
<1>4. (received \o wire) \o buffer = Drop(T, pos[Len(delivered)])
  BY <1>1, <1>2 DEF Drop
<1>5. StreamInv
  BY <1>1, <1>2, <1>3, <1>4 DEF StreamInv
<1>6. contents(SubSeq(sent, Len(delivered) + 1, Len(sent))) = <<>>
  <2> DEFINE q == contents(SubSeq(sent, Len(delivered) + 1, Len(sent)))
  <2>1. q \in Seq(Seq(Unit)) /\ Len(q) = Len(sent) - Len(delivered)
    <3>1. Len(delivered) \in Nat /\ Len(delivered) <= Len(sent)
      BY <1>2
    <3> QED
      BY <1>2, <3>1, Contents
  <2> HIDE DEF q
  <2>2. Len(q) = 0
    BY <1>2, <2>1
  <2>3. q = <<>>
    BY <2>1, <2>2
  <2> QED
    BY <2>3 DEF q
<1> QED
  BY <1>1, <1>5, <1>6 DEF FIFO!Init

\* A message sent is the last of the FIFO.
LEMMA StreamSend ==
  ASSUME SocketAssumption, StreamInv, Send
  PROVE  StreamInv' /\ FIFO!Send
<1> DEFINE n == Len(sent)
           d == Len(delivered)
<1>1. PICK m0 \in Messages :
        LET m == [m0 EXCEPT !.id = n + 1] IN
        sent' = Append(sent, m) /\ buffer' = buffer \o framed(m)
  BY DEF Send
<1>2. /\ open = TRUE /\ open' = TRUE /\ delivered' = delivered
      /\ received' = received /\ wire' = wire
  BY DEF Send, StreamInv
<1> DEFINE m == [m0 EXCEPT !.id = n + 1]
<1>3. sent \in Seq(Message) /\ n \in Nat /\ d \in Nat /\ d <= n /\ delivered \in Seq(Seq(Unit))
  BY DEF StreamInv
<1>4. m \in Message
  <2>1. m0 \in Message
    BY DEF SocketAssumption, Message
  <2> DEFINE x == n + 1
  <2>2. x \in Nat
    BY <1>3
  <2> HIDE DEF x
  <2>3. [m0 EXCEPT !.id = x] \in [id : Nat, method : {Light, Heavy}, size : Nat \ {0}]
    BY <2>1, <2>2 DEF Message
  <2> QED
    BY <2>3 DEF Message, x
<1>5. /\ received \in Seq(Unit) /\ wire \in Seq(Unit) /\ buffer \in Seq(Unit)
  BY <1>2 DEF StreamInv
<1>6. PICK T, pos : /\ Laid(T, pos, sent)
                    /\ (received \o wire) \o buffer = Drop(T, pos[d])
  BY <1>2 DEF StreamInv
<1> HIDE DEF m
<1>7. sent' = Append(sent, m) /\ buffer' = buffer \o framed(m)
  BY <1>1 DEF m
<1>8. ChunkAssumption
  BY DEF SocketAssumption
<1>9. framed(m) \in Seq(Unit)
  BY <1>4, <1>8, Framed
<1>10. sent' \in Seq(Message) /\ Len(sent') = n + 1 /\ \A i \in 1..n : sent'[i] = sent[i]
  BY <1>3, <1>4, <1>7
<1> HIDE DEF n, d
<1>11. PICK p : /\ Laid(T \o framed(m), p, sent')
                /\ \A i \in 0..n : p[i] = pos[i]
  BY <1>3, <1>4, <1>6, <1>7, <1>8, LaidMore DEF n
<1>12. p[d] = pos[d] /\ pos[d] \in Nat /\ pos[d] <= Len(T) /\ T \in Seq(Unit)
  <2>1. d \in 0..n
    BY <1>3
  <2>2. \A i \in 0..n : pos[i] \in Nat /\ pos[i] <= Len(T)
    BY <1>3, <1>6, <1>8, LaidGrows DEF n
  <2> QED
    BY <1>6, <1>11, <2>1, <2>2 DEF Laid
<1>13. (received' \o wire') \o buffer' = Drop(T \o framed(m), p[d])
  <2>1. Drop(T \o framed(m), pos[d]) = Drop(T, pos[d]) \o framed(m)
    BY <1>9, <1>12, DropCat
  <2>2. received \o wire \in Seq(Unit)
    BY <1>5, Concat
  <2>3. ((received \o wire) \o buffer) \o framed(m) = (received \o wire) \o (buffer \o framed(m))
    <3> DEFINE a == received \o wire
               b == framed(m)
    <3>1. a \in Seq(Unit) /\ buffer \in Seq(Unit) /\ b \in Seq(Unit)
      BY <1>5, <1>9, <2>2
    <3> HIDE DEF a, b
    <3>2. (a \o buffer) \o b = a \o (buffer \o b)
      BY <3>1
    <3> QED
      BY <3>2 DEF a, b
  <2> QED
    BY <1>2, <1>6, <1>7, <1>12, <2>1, <2>3
<1>14. StreamInv'
  <2>1. buffer' \in Seq(Unit)
    BY <1>5, <1>7, <1>9, Concat
  <2>2. Len(delivered') <= Len(sent')
    BY <1>2, <1>3, <1>10 DEF d
  <2>3. received' \in Seq(Unit) /\ wire' \in Seq(Unit)
    BY <1>2, <1>5
  <2>4. \E R, q : /\ Laid(R, q, sent')
                  /\ (received' \o wire') \o buffer' = Drop(R, q[Len(delivered')])
    BY <1>2, <1>11, <1>13 DEF d
  <2> QED
    BY <1>2, <1>3, <1>10, <2>1, <2>2, <2>3, <2>4 DEF StreamInv
<1> DEFINE q == contents(SubSeq(sent, d + 1, n))
           r == contents(SubSeq(sent', d + 1, n + 1))
<1>15. q \in Seq(Seq(Unit)) /\ Len(q) = n - d /\ \A i \in 1..(n - d) : q[i] = pieces(sent[d + i])
  BY <1>3, Contents DEF n
<1>16. /\ r \in Seq(Seq(Unit)) /\ Len(r) = (n + 1) - d
       /\ \A i \in 1..((n + 1) - d) : r[i] = pieces(sent'[d + i])
  <2> DEFINE ms == sent'
  <2>1. ms \in Seq(Message) /\ Len(ms) = n + 1 /\ d \in Nat /\ d <= Len(ms)
    BY <1>3, <1>10
  <2> HIDE DEF ms
  <2>2. LET w == contents(SubSeq(ms, d + 1, Len(ms)))
        IN  /\ w \in Seq(Seq(Unit)) /\ Len(w) = Len(ms) - d
            /\ \A i \in 1..(Len(ms) - d) : w[i] = pieces(ms[d + i])
    BY <2>1, Contents
  <2> QED
    BY <2>1, <2>2 DEF ms
<1> HIDE DEF q, r
<1>17. Len(r) = Len(q) + 1 /\ SubSeq(r, 1, Len(q)) = q
  <2>1. Len(q) \in Nat /\ Len(r) = Len(q) + 1 /\ Len(q) <= Len(r)
    BY <1>3, <1>15, <1>16
  <2> DEFINE w == SubSeq(r, 1, Len(q))
  <2>2. w \in Seq(Seq(Unit)) /\ Len(w) = Len(q) /\ \A i \in 1..Len(q) : w[i] = r[i]
    BY <1>16, <2>1, TakeDrop
  <2> HIDE DEF w
  <2>3. ASSUME NEW i \in 1..Len(q)
        PROVE  w[i] = q[i]
    <3>1. i \in 1..(n - d) /\ i \in 1..((n + 1) - d) /\ d + i \in 1..n
      BY <1>3, <1>15
    <3> QED
      BY <1>10, <1>15, <1>16, <2>2, <3>1
  <2>4. w = q
    BY <1>15, <2>2, <2>3, Same
  <2> QED
    BY <2>1, <2>4 DEF w
<1>18. Queued = q /\ Queued' = r
  <2>1. Len(delivered') = d /\ Len(sent') = n + 1
    BY <1>2, <1>10 DEF d
  <2> QED
    BY <1>2, <2>1 DEF Queued, q, r, n, d
<1> QED
  <2>1. Len(Queued') = Len(Queued) + 1 /\ SubSeq(Queued', 1, Len(Queued)) = Queued
    BY <1>17, <1>18
  <2> QED
    BY <1>2, <1>14, <2>1 DEF FIFO!Send, Queued

\* What only moves bytes along leaves the FIFO alone.
LEMMA StreamKept ==
  ASSUME StreamInv, UNCHANGED <<open, sent, delivered>>,
         open => /\ received' \in Seq(Unit) /\ wire' \in Seq(Unit) /\ buffer' \in Seq(Unit)
                 /\ (received' \o wire') \o buffer' = (received \o wire) \o buffer
  PROVE  StreamInv' /\ UNCHANGED FIFO!fifoVars
<1>1. open' = open /\ sent' = sent /\ delivered' = delivered
  OBVIOUS
<1>2. UNCHANGED FIFO!fifoVars
  <2>1. Queued' = Queued
    BY <1>1 DEF Queued
  <2> QED
    BY <1>1, <2>1 DEF FIFO!fifoVars, Queued
<1>3. StreamInv'
  <2>1. ASSUME open
        PROVE  \E T, pos : /\ Laid(T, pos, sent')
                           /\ (received' \o wire') \o buffer' = Drop(T, pos[Len(delivered')])
    <3>1. PICK T, pos : /\ Laid(T, pos, sent)
                        /\ (received \o wire) \o buffer = Drop(T, pos[Len(delivered)])
      BY <2>1 DEF StreamInv
    <3>2. (received' \o wire') \o buffer' = Drop(T, pos[Len(delivered)])
      BY <2>1, <3>1
    <3> QED
      BY <1>1, <3>1, <3>2
  <2>2. /\ open \in BOOLEAN /\ sent \in Seq(Message) /\ delivered \in Seq(Seq(Unit))
        /\ Len(delivered) <= Len(sent)
    BY DEF StreamInv
  <2>3. /\ open' \in BOOLEAN /\ sent' \in Seq(Message) /\ delivered' \in Seq(Seq(Unit))
        /\ Len(delivered') <= Len(sent')
    BY <1>1, <2>2
  <2>4. open' => /\ received' \in Seq(Unit) /\ wire' \in Seq(Unit) /\ buffer' \in Seq(Unit)
                 /\ \E T, pos : /\ Laid(T, pos, sent')
                                /\ (received' \o wire') \o buffer'
                                     = Drop(T, pos[Len(delivered')])
    <3>1. SUFFICES ASSUME open'
                   PROVE  /\ received' \in Seq(Unit) /\ wire' \in Seq(Unit) /\ buffer' \in Seq(Unit)
                          /\ \E T, pos : /\ Laid(T, pos, sent')
                                         /\ (received' \o wire') \o buffer'
                                              = Drop(T, pos[Len(delivered')])
      OBVIOUS
    <3>2. open
      BY <1>1, <3>1
    <3>3. received' \in Seq(Unit) /\ wire' \in Seq(Unit) /\ buffer' \in Seq(Unit)
      BY <3>2
    <3> QED
      BY <2>1, <3>2, <3>3
  <2> QED
    BY <2>3, <2>4 DEF StreamInv
<1> QED
  BY <1>2, <1>3

\* A write, partial or not, leaves the FIFO alone.
LEMMA StreamWrite ==
  ASSUME SocketAssumption, StreamInv, Write
  PROVE  StreamInv' /\ UNCHANGED FIFO!fifoVars
<1>1. PICK n \in 1..Len(buffer) : /\ wire' = wire \o SubSeq(buffer, 1, n)
                                  /\ buffer' = SubSeq(buffer, n + 1, Len(buffer))
  BY DEF Write
<1>2. open = TRUE /\ UNCHANGED <<open, sent, delivered>> /\ received' = received
  BY DEF Write, StreamInv
<1>3. received \in Seq(Unit) /\ wire \in Seq(Unit) /\ buffer \in Seq(Unit)
  BY <1>2 DEF StreamInv
<1> DEFINE a == SubSeq(buffer, 1, n)
           b == Drop(buffer, n)
           c == received \o wire
<1>4. n \in Nat /\ n <= Len(buffer)
  BY <1>3
<1>5. a \in Seq(Unit) /\ buffer = a \o b
  BY <1>3, <1>4, TakeDrop
<1>6. b \in Seq(Unit)
  BY <1>3, <1>4, DropFacts
<1>7. wire' = wire \o a /\ buffer' = b
  BY <1>1 DEF Drop
<1>8. c \in Seq(Unit)
  BY <1>3, Concat
<1> HIDE DEF a, b
<1>9. received \o (wire \o a) = c \o a
  <2>1. received \in Seq(Unit) /\ wire \in Seq(Unit) /\ a \in Seq(Unit)
    BY <1>3, <1>5
  <2>2. (received \o wire) \o a = received \o (wire \o a)
    BY <2>1
  <2> QED
    BY <2>2 DEF c
<1> HIDE DEF c
<1>10. (c \o a) \o b = c \o (a \o b)
  BY <1>5, <1>6, <1>8
<1>11. (received' \o wire') \o buffer' = (received \o wire) \o buffer
  BY <1>2, <1>5, <1>7, <1>9, <1>10 DEF c
<1>12. wire' \in Seq(Unit)
  BY <1>3, <1>5, <1>7, Concat
<1> QED
  BY <1>2, <1>3, <1>6, <1>7, <1>11, <1>12, StreamKept

\* A connection that closes loses what was not read.
LEMMA StreamClose ==
  ASSUME StreamInv, Close
  PROVE  StreamInv' /\ FIFO!Close
<1>1. open = TRUE /\ open' = FALSE /\ sent' = sent /\ delivered' = delivered
  BY DEF Close, StreamInv
<1>2. StreamInv'
  <2>1. /\ sent \in Seq(Message) /\ delivered \in Seq(Seq(Unit))
        /\ Len(delivered) <= Len(sent)
    BY DEF StreamInv
  <2>2. /\ open' \in BOOLEAN /\ ~open'
        /\ sent' \in Seq(Message) /\ delivered' \in Seq(Seq(Unit))
        /\ Len(delivered') <= Len(sent')
    BY <1>1, <2>1
  <2> QED
    BY <2>2 DEF StreamInv
<1>3. FIFO!Close
  BY <1>1 DEF FIFO!Close
<1> QED
  BY <1>2, <1>3

\* A read delivers the first messages of the FIFO, those that are there in full, or none.
LEMMA StreamReceive ==
  ASSUME SocketAssumption, StreamInv, Receive
  PROVE  StreamInv' /\ (FIFO!Deliver \/ UNCHANGED FIFO!fifoVars)
<1> DEFINE d == Len(delivered)
           N == Len(sent)
<1>1. PICK n \in 1..Len(wire) :
        LET r == processIncomingData(received \o SubSeq(wire, 1, n)) IN
        /\ wire' = SubSeq(wire, n + 1, Len(wire))
        /\ received' = r.bytes /\ delivered' = delivered \o r.told
  BY DEF Receive
<1> DEFINE a == SubSeq(wire, 1, n)
           b == Drop(wire, n)
           bytes == received \o a
           r == processIncomingData(bytes)
<1>2. wire' = b /\ received' = r.bytes /\ delivered' = delivered \o r.told
  BY <1>1 DEF Drop
<1>3. open = TRUE /\ open' = TRUE /\ sent' = sent /\ buffer' = buffer
  BY DEF Receive, StreamInv
<1>4. /\ sent \in Seq(Message) /\ N \in Nat /\ d \in Nat /\ d <= N
      /\ delivered \in Seq(Seq(Unit))
      /\ received \in Seq(Unit) /\ wire \in Seq(Unit) /\ buffer \in Seq(Unit)
  BY <1>3 DEF StreamInv
<1>5. ChunkAssumption
  BY DEF SocketAssumption
<1>6. PICK T, pos : /\ Laid(T, pos, sent)
                    /\ (received \o wire) \o buffer = Drop(T, pos[d])
  BY <1>3 DEF StreamInv
<1>7. T \in Seq(Unit) /\ Len(T) \in Nat /\ \A i \in 0..N : pos[i] \in Nat /\ pos[i] <= Len(T)
  <2>1. T \in Seq(Unit)
    BY <1>6 DEF Laid
  <2>2. \A i \in 0..N : pos[i] \in Nat /\ pos[i] <= Len(T)
    BY <1>4, <1>5, <1>6, LaidGrows
  <2> QED
    BY <2>1, <2>2
<1>8. n \in Nat /\ n <= Len(wire)
  BY <1>4
<1>9. a \in Seq(Unit) /\ b \in Seq(Unit) /\ wire = a \o b
  BY <1>4, <1>8, TakeDrop, DropFacts
<1> HIDE DEF a, b, r, d, N
<1>10. bytes \in Seq(Unit) /\ Len(bytes) \in Nat
  BY <1>4, <1>9, Concat
<1> DEFINE rest == b \o buffer
           X == Drop(T, pos[d])
<1>11. rest \in Seq(Unit)
  BY <1>4, <1>9, Concat
<1>12. X = bytes \o rest
  <2>1. received \o (a \o b) = bytes \o b
    <3>1. received \in Seq(Unit) /\ a \in Seq(Unit) /\ b \in Seq(Unit)
      BY <1>4, <1>9
    <3>2. (received \o a) \o b = received \o (a \o b)
      BY <3>1
    <3> QED
      BY <3>2
  <2>2. (bytes \o b) \o buffer = bytes \o (b \o buffer)
    <3>1. bytes \in Seq(Unit) /\ b \in Seq(Unit) /\ buffer \in Seq(Unit)
      BY <1>4, <1>9, <1>10
    <3> HIDE DEF bytes
    <3> QED
      BY <3>1
  <2> QED
    BY <1>6, <1>9, <2>1, <2>2
<1> HIDE DEF bytes, rest
<1>13. d \in 0..N /\ pos[d] \in Nat /\ pos[d] <= Len(T)
  <2>1. d \in 0..N
    BY <1>4
  <2> QED
    BY <1>7, <2>1
<1>14. /\ X \in Seq(Unit) /\ Len(X) = Len(T) - pos[d]
       /\ \A i \in 1..(Len(T) - pos[d]) : X[i] = T[pos[d] + i]
  BY <1>7, <1>13, DropFacts
<1> HIDE DEF X
<1>15. /\ Len(rest) \in Nat /\ Len(bytes \o rest) = Len(bytes) + Len(rest)
       /\ \A i \in 1..Len(bytes) : (bytes \o rest)[i] = bytes[i]
  BY <1>10, <1>11, Concat
<1>16. ReadsFrom(bytes, T, pos, d)
  <2>1. pos[d] + Len(bytes) <= Len(T)
    BY <1>7, <1>10, <1>12, <1>13, <1>14, <1>15
  <2>2. \A i \in 1..Len(bytes) : i \in 1..(Len(T) - pos[d])
    BY <1>7, <1>10, <1>13, <2>1
  <2> QED
    BY <1>10, <1>12, <1>14, <1>15, <2>1, <2>2 DEF ReadsFrom
<1>17. PICK t : After(r, t, bytes, pos, sent, d)
  BY <1>4, <1>5, <1>6, <1>13, <1>16, Reading DEF r, N
<1> DEFINE p == pos[d + t] - pos[d]
<1>18. /\ t \in 0..(N - d) /\ r.told \in Seq(Seq(Unit)) /\ Len(r.told) = t
       /\ \A i \in 1..t : r.told[i] = pieces(sent[d + i])
       /\ p \in 0..Len(bytes) /\ r.bytes = SubSeq(bytes, p + 1, Len(bytes))
  BY <1>17 DEF After, N
<1>19. d + t \in 0..N /\ d + t \in Nat /\ d + t <= N /\ t \in Nat
  BY <1>4, <1>18
<1>20. pos[d + t] = pos[d] + p /\ p \in Nat /\ p <= Len(bytes) /\ pos[d + t] <= Len(T)
  <2> DEFINE x == pos[d]
             y == pos[d + t]
  <2>1. x \in Nat /\ y \in Nat /\ p = y - x /\ y <= Len(T)
    BY <1>7, <1>13, <1>19
  <2> HIDE DEF x, y, p
  <2>2. y = x + p /\ p \in Nat /\ p <= Len(bytes)
    BY <1>10, <1>18, <2>1
  <2> QED
    BY <2>1, <2>2 DEF x, y
<1> HIDE DEF p
<1>21. received' = Drop(bytes, p) /\ received' \in Seq(Unit)
  <2>1. Drop(bytes, p) \in Seq(Unit)
    BY <1>10, <1>20, DropFacts
  <2> QED
    BY <1>2, <1>18, <2>1 DEF Drop
<1>22. (received' \o wire') \o buffer' = Drop(T, pos[d + t])
  <2>1. Drop(bytes \o rest, p) = Drop(bytes, p) \o rest
    BY <1>10, <1>11, <1>20, DropCat
  <2>2. Drop(X, p) = Drop(T, pos[d] + p)
    BY <1>7, <1>13, <1>20, DropDrop DEF X
  <2>3. (received' \o b) \o buffer = received' \o (b \o buffer)
    <3> DEFINE c == received'
    <3>1. c \in Seq(Unit) /\ b \in Seq(Unit) /\ buffer \in Seq(Unit)
      BY <1>4, <1>9, <1>21
    <3> HIDE DEF c
    <3>2. (c \o b) \o buffer = c \o (b \o buffer)
      BY <3>1
    <3> QED
      BY <3>2 DEF c
  <2> QED
    BY <1>2, <1>3, <1>12, <1>20, <1>21, <2>1, <2>2, <2>3 DEF rest
<1>23. /\ delivered' \in Seq(Seq(Unit)) /\ Len(delivered') = d + t
  <2> DEFINE w == r.told
  <2>1. w \in Seq(Seq(Unit)) /\ Len(w) = t
    BY <1>18
  <2> HIDE DEF w
  <2>2. delivered \o w \in Seq(Seq(Unit)) /\ Len(delivered \o w) = Len(delivered) + Len(w)
    BY <1>4, <2>1, Concat
  <2> QED
    BY <1>2, <2>1, <2>2 DEF w, d
<1>24. StreamInv'
  <2>1. wire' \in Seq(Unit) /\ buffer' \in Seq(Unit)
    BY <1>2, <1>3, <1>4, <1>9
  <2>2. \E R, q : /\ Laid(R, q, sent')
                  /\ (received' \o wire') \o buffer' = Drop(R, q[Len(delivered')])
    BY <1>3, <1>6, <1>22, <1>23
  <2>3. Len(delivered') <= Len(sent')
    BY <1>3, <1>19, <1>23 DEF N
  <2> QED
    BY <1>3, <1>4, <1>21, <1>23, <2>1, <2>2, <2>3 DEF StreamInv
<1> DEFINE q == contents(SubSeq(sent, d + 1, N))
           v == contents(SubSeq(sent, (d + t) + 1, N))
<1>25. q \in Seq(Seq(Unit)) /\ Len(q) = N - d /\ \A i \in 1..(N - d) : q[i] = pieces(sent[d + i])
  BY <1>4, Contents DEF N
<1>26. /\ v \in Seq(Seq(Unit)) /\ Len(v) = N - (d + t)
       /\ \A i \in 1..(N - (d + t)) : v[i] = pieces(sent[(d + t) + i])
  <2> DEFINE e == d + t
  <2>1. e \in Nat /\ e <= N
    BY <1>19
  <2> HIDE DEF e
  <2>2. LET w == contents(SubSeq(sent, e + 1, N))
        IN  /\ w \in Seq(Seq(Unit)) /\ Len(w) = N - e
            /\ \A i \in 1..(N - e) : w[i] = pieces(sent[e + i])
    BY <1>4, <2>1, Contents DEF N
  <2> QED
    BY <2>2 DEF e
<1>27. Queued = q /\ Queued' = v
  BY <1>3, <1>23 DEF Queued, d, N
<1> HIDE DEF q, v
<1>28. t <= Len(q) /\ Len(q) \in Nat
  BY <1>4, <1>18, <1>25
<1>29. r.told = SubSeq(q, 1, t)
  <2> DEFINE w == SubSeq(q, 1, t)
  <2>1. w \in Seq(Seq(Unit)) /\ Len(w) = t /\ \A i \in 1..t : w[i] = q[i]
    BY <1>19, <1>25, <1>28, TakeDrop
  <2> DEFINE g == r.told
  <2>2. g \in Seq(Seq(Unit)) /\ Len(g) = t /\ \A i \in 1..t : g[i] = pieces(sent[d + i])
    BY <1>18
  <2> HIDE DEF w, g
  <2>3. \A i \in 1..t : i \in 1..(N - d)
    BY <1>4, <1>18
  <2>4. \A i \in 1..Len(w) : g[i] = w[i]
    BY <1>25, <2>1, <2>2, <2>3
  <2>5. g = w
    BY <2>1, <2>2, <2>4, Same
  <2> QED
    BY <2>5 DEF g, w
<1>30. v = SubSeq(q, t + 1, Len(q))
  <2> DEFINE w == Drop(q, t)
  <2>1. /\ w \in Seq(Seq(Unit)) /\ Len(w) = Len(q) - t
        /\ \A i \in 1..(Len(q) - t) : w[i] = q[t + i]
    <3>1. q \in Seq(Seq(Unit)) /\ t \in Nat /\ t <= Len(q)
      BY <1>19, <1>25, <1>28
    <3> QED
      BY <3>1, DropFacts
  <2> HIDE DEF w
  <2>2. Len(v) = Len(w) /\ Len(w) = N - (d + t)
    <3>1. N \in Nat /\ d \in Nat /\ t \in Nat
      BY <1>4, <1>19
    <3>2. Len(q) = N - d /\ Len(v) = N - (d + t) /\ Len(w) = Len(q) - t
      BY <1>25, <1>26, <2>1
    <3>3. (N - d) - t = N - (d + t)
      BY <3>1
    <3> QED
      BY <3>2, <3>3
  <2>3. ASSUME NEW i \in 1..Len(w)
        PROVE  v[i] = w[i]
    <3>1. /\ i \in 1..(N - (d + t)) /\ i \in 1..(Len(q) - t) /\ t + i \in 1..(N - d)
          /\ (d + t) + i = d + (t + i)
      BY <1>4, <1>19, <1>25, <1>28, <2>1, <2>2
    <3> QED
      BY <1>25, <1>26, <2>1, <3>1
  <2>4. v = w
    BY <1>26, <2>1, <2>2, <2>3, Same
  <2> QED
    BY <2>4 DEF w, Drop
<1>31. CASE t = 0
  <2>1. delivered' = delivered
    <3> DEFINE w == r.told
    <3>1. w \in Seq(Seq(Unit)) /\ Len(w) = 0
      BY <1>18, <1>31
    <3> HIDE DEF w
    <3>2. w = <<>>
      BY <3>1
    <3>3. delivered \o w = delivered
      BY <1>4, <3>2
    <3> QED
      BY <1>2, <3>3 DEF w
  <2>2. v = q
    <3>1. d + t = d
      BY <1>4, <1>31
    <3> QED
      BY <3>1 DEF q, v
  <2>3. UNCHANGED FIFO!fifoVars
    BY <1>3, <1>27, <2>1, <2>2 DEF FIFO!fifoVars, Queued
  <2> QED
    BY <1>24, <2>3
<1>32. CASE t # 0
  <2>1. t \in 1..Len(q)
    BY <1>19, <1>28, <1>32
  <2>2. FIFO!Deliver
    <3>1. /\ t \in 1..Len(Queued)
          /\ delivered' = delivered \o SubSeq(Queued, 1, t)
          /\ Queued' = SubSeq(Queued, t + 1, Len(Queued))
      BY <1>2, <1>27, <1>29, <1>30, <2>1
    <3> QED
      BY <1>3, <3>1 DEF FIFO!Deliver, Queued
  <2> QED
    BY <1>24, <2>2
<1> QED
  BY <1>31, <1>32

\* Every step of the socket is a step of the FIFO or leaves it alone.
LEMMA StreamStep ==
  ASSUME SocketAssumption, StreamInv, [Next]_socketVars
  PROVE  StreamInv' /\ [FIFO!Send \/ FIFO!Deliver \/ FIFO!Close]_FIFO!fifoVars
<1>1. CASE Send
  BY <1>1, StreamSend
<1>2. CASE Write
  BY <1>2, StreamWrite
<1>3. CASE Receive
  BY <1>3, StreamReceive
<1>4. CASE Close
  BY <1>4, StreamClose
<1>5. ASSUME UNCHANGED <<open, sent, delivered, received, wire, buffer>>
      PROVE  StreamInv' /\ UNCHANGED FIFO!fifoVars
  <2>1. open => received \in Seq(Unit) /\ wire \in Seq(Unit) /\ buffer \in Seq(Unit)
    BY DEF StreamInv
  <2> QED
    BY <1>5, <2>1, StreamKept
<1>6. CASE Hear
  BY <1>5, <1>6 DEF Hear
<1>7. CASE Linger
  BY <1>5, <1>7 DEF Linger
<1>8. CASE UNCHANGED socketVars
  BY <1>5, <1>8 DEF socketVars
<1> QED
  BY <1>1, <1>2, <1>3, <1>4, <1>6, <1>7, <1>8 DEF Next

\* A connection is the FIFO of whole messages that RPZNetwork takes it for, for every size
\* of the chunks of _maxUploadChunkSize, all messages of any number of pieces, and wherever
\* the system splits what is written and what is read: _processIncomingData rolls back what
\* is not there in full, takes all the messages that are, and never reads the end of one
\* for the header of another.
THEOREM ConnectionIsFIFO == SocketAssumption /\ Spec => WireIsFIFO
<1> SUFFICES ASSUME SocketAssumption
             PROVE  Spec => WireIsFIFO
  OBVIOUS
<1>1. Init => StreamInv /\ FIFO!Init
  BY StreamInit
<1>2. StreamInv /\ [Next]_socketVars
        => StreamInv' /\ [FIFO!Send \/ FIFO!Deliver \/ FIFO!Close]_FIFO!fifoVars
  BY StreamStep
<1>3. Spec => []StreamInv
  BY <1>1, <1>2, PTL DEF Spec
<1>4. Spec => FIFO!Spec
  BY <1>1, <1>2, <1>3, PTL DEF Spec, FIFO!Spec
<1> QED
  BY <1>4 DEF WireIsFIFO
=============================================================================
