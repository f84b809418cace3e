--------------------------- MODULE MergeLoopProofs ---------------------------
(***************************************************************************)
(* Proofs that the loops of connection_push leave the list of blocks       *)
(* sorted, and that they do what PushBlock states.                         *)
(***************************************************************************)
EXTENDS MergeLoop, ProofLemmas

\* A block of a list begins before its end.
LEMMA EndOfBlock ==
    ASSUME NEW u \in Block
    PROVE  End(u) \in Nat /\ u.off \in Nat /\ u.off < End(u)
BY DEF Block, End

\* Combining a block with one that begins at or after it gives a block from the
\* start of the first to the end of the second.
LEMMA CombineIsBlock ==
    ASSUME NEW u \in Block, NEW v \in Block, u.off <= v.off
    PROVE  LET x == Combine(u, v)
           IN  x \in Block /\ x.dirty /\ x.off = u.off /\ End(x) = End(v)
BY DEF Block, Combine, End

\* The block of a segment alone.
LEMMA NewBlockIsBlock ==
    ASSUME NEW o \in Nat, NEW n \in Nat \ {0}
    PROVE  LET x == NewBlock(o, n)
           IN  x \in Block /\ x.dirty /\ x.off = o /\ End(x) = o + n
BY DEF Block, NewBlock, End

\* A sequence is what its elements are.
LEMMA SameList ==
    ASSUME NEW S, NEW x \in Seq(S), NEW y \in Seq(S), Len(x) = Len(y),
           \A i \in 1 .. Len(x) : x[i] = y[i]
    PROVE  x = y
OBVIOUS

\* A part of a sequence.
LEMMA PartOf ==
    ASSUME NEW S, NEW x \in Seq(S), NEW m \in 1 .. (Len(x) + 1), NEW n \in 0 .. Len(x),
           m <= n + 1
    PROVE  /\ SubSeq(x, m, n) \in Seq(S) /\ Len(SubSeq(x, m, n)) = n - m + 1
           /\ \A i \in 1 .. (n - m + 1) : SubSeq(x, m, n)[i] = x[m + i - 1]
OBVIOUS

\* A list with a block put in at place k.
LEMMA Insertion ==
    ASSUME NEW x \in Seq(Block), NEW k \in 1 .. (Len(x) + 1), NEW e \in Block,
           NEW y, y = InsertAt(x, k, e)
    PROVE  /\ y \in Seq(Block) /\ Len(y) = Len(x) + 1 /\ y[k] = e
           /\ \A i \in 1 .. (k - 1) : y[i] = x[i]
           /\ \A i \in (k + 1) .. (Len(x) + 1) : y[i] = x[i - 1]
<1>1. PICK p : p = SubSeq(x, 1, k - 1)
  OBVIOUS
<1>2. PICK q : q = SubSeq(x, k, Len(x))
  OBVIOUS
<1>3. PICK n : n = Len(x)
  OBVIOUS
<1>4. n \in Nat /\ k \in 1 .. (n + 1)
  BY <1>3
<1>5. p \in Seq(Block) /\ Len(p) = k - 1 /\ \A i \in 1 .. (k - 1) : p[i] = x[i]
  BY <1>1, <1>3, <1>4, PartOf
<1>6. q \in Seq(Block) /\ Len(q) = n - k + 1 /\ \A i \in 1 .. (n - k + 1) : q[i] = x[k + i - 1]
  BY <1>2, <1>3, <1>4, PartOf
<1>7. <<e>> \in Seq(Block) /\ Len(<<e>>) = 1 /\ <<e>>[1] = e
  OBVIOUS
<1>8. PICK r : r = p \o <<e>>
  OBVIOUS
<1>9. r \in Seq(Block) /\ Len(r) = k /\ r[k] = e /\ \A i \in 1 .. (k - 1) : r[i] = x[i]
  <2>1. /\ r \in Seq(Block) /\ Len(r) = (k - 1) + 1
        /\ \A i \in 1 .. (k - 1) : r[i] = p[i]
        /\ \A i \in 1 .. ((k - 1) + 1) : i > k - 1 => r[i] = <<e>>[i - (k - 1)]
    BY <1>5, <1>7, <1>8, Joined
  <2>2. k - (k - 1) = 1 /\ k > k - 1 /\ k \in 1 .. ((k - 1) + 1) /\ (k - 1) + 1 = k
    BY <1>4
  <2> QED  BY <2>1, <2>2, <1>5, <1>7
<1>10. y = r \o q
  BY <1>1, <1>2, <1>8 DEF InsertAt
<1>11. /\ y \in Seq(Block) /\ Len(y) = n + 1
       /\ \A i \in 1 .. k : y[i] = r[i]
       /\ \A i \in (k + 1) .. (n + 1) : y[i] = q[i - k]
  <2>1. PICK v : v = n - k + 1
    OBVIOUS
  <2>2. v \in Nat /\ k \in Nat /\ k + v = n + 1
    BY <2>1, <1>4
  <2>3. /\ y \in Seq(Block) /\ Len(y) = k + v
        /\ \A i \in 1 .. k : y[i] = r[i]
        /\ \A i \in (k + 1) .. (k + v) : y[i] = q[i - k]
    <3>1. q \in Seq(Block) /\ Len(q) = v /\ r \in Seq(Block) /\ Len(r) = k
      BY <2>1, <1>6, <1>9
    <3>2. /\ r \o q \in Seq(Block) /\ Len(r \o q) = Len(r) + Len(q)
          /\ \A i \in 1 .. Len(r) : (r \o q)[i] = r[i]
          /\ \A i \in 1 .. (Len(r) + Len(q)) : i > Len(r) => (r \o q)[i] = q[i - Len(r)]
      BY <3>1, Joined
    <3>3. /\ r \o q \in Seq(Block) /\ Len(r \o q) = k + v
          /\ \A i \in 1 .. k : (r \o q)[i] = r[i]
          /\ \A i \in 1 .. (k + v) : i > k => (r \o q)[i] = q[i - k]
      BY <3>1, <3>2
    <3>4. \A i \in (k + 1) .. (k + v) : i \in 1 .. (k + v) /\ i > k
      BY <2>2
    <3> QED  BY <3>3, <3>4, <1>10
  <2> QED  BY <2>2, <2>3
<1>12. ASSUME NEW i \in (k + 1) .. (n + 1) PROVE y[i] = x[i - 1]
  <2>1. i - k \in 1 .. (n - k + 1) /\ k + (i - k) - 1 = i - 1
    BY <1>4
  <2> QED  BY <2>1, <1>6, <1>11
<1>13. Len(y) = n + 1 /\ y[k] = e /\ \A i \in 1 .. (k - 1) : y[i] = x[i]
  BY <1>4, <1>9, <1>11
<1> QED  BY <1>3, <1>11, <1>12, <1>13

\* A list without the block at place k.
LEMMA Removal ==
    ASSUME NEW x \in Seq(Block), NEW k \in 1 .. Len(x), NEW y, y = RemoveAt(x, k)
    PROVE  /\ y \in Seq(Block) /\ Len(y) = Len(x) - 1
           /\ \A i \in 1 .. (k - 1) : y[i] = x[i]
           /\ \A i \in k .. (Len(x) - 1) : y[i] = x[i + 1]
<1>1. PICK p : p = SubSeq(x, 1, k - 1)
  OBVIOUS
<1>2. PICK q : q = SubSeq(x, k + 1, Len(x))
  OBVIOUS
<1>3. PICK n : n = Len(x)
  OBVIOUS
<1>4. n \in Nat /\ k \in 1 .. n
  BY <1>3
<1>5. p \in Seq(Block) /\ Len(p) = k - 1 /\ \A i \in 1 .. (k - 1) : p[i] = x[i]
  BY <1>1, <1>3, <1>4, PartOf
<1>6. q \in Seq(Block) /\ Len(q) = n - k /\ \A i \in 1 .. (n - k) : q[i] = x[k + i]
  <2>1. /\ q \in Seq(Block) /\ Len(q) = n - (k + 1) + 1
        /\ \A i \in 1 .. (n - (k + 1) + 1) : q[i] = x[(k + 1) + i - 1]
    BY <1>2, <1>3, <1>4, PartOf
  <2>2. n - (k + 1) + 1 = n - k /\ \A i \in 1 .. (n - k) : (k + 1) + i - 1 = k + i
    BY <1>4
  <2> QED  BY <2>1, <2>2
<1>7. y = p \o q
  BY <1>1, <1>2 DEF RemoveAt
<1>8. /\ y \in Seq(Block) /\ Len(y) = (k - 1) + (n - k)
      /\ \A i \in 1 .. (k - 1) : y[i] = p[i]
      /\ \A i \in 1 .. ((k - 1) + (n - k)) : i > k - 1 => y[i] = q[i - (k - 1)]
  BY <1>5, <1>6, <1>7, Joined
<1>9. ASSUME NEW i \in k .. (n - 1) PROVE y[i] = x[i + 1]
  <2>1. i - (k - 1) \in 1 .. (n - k) /\ k + (i - (k - 1)) = i + 1 /\ i > k - 1
        /\ i \in 1 .. ((k - 1) + (n - k))
    BY <1>4
  <2> QED  BY <2>1, <1>6, <1>8
<1>10. Len(y) = n - 1 /\ \A i \in 1 .. (k - 1) : y[i] = x[i]
  BY <1>4, <1>5, <1>8
<1> QED  BY <1>3, <1>8, <1>9, <1>10

\* A list with another block at place k.
LEMMA Replacement ==
    ASSUME NEW x \in Seq(Block), NEW k \in 1 .. Len(x), NEW e \in Block,
           NEW y, y = [x EXCEPT ![k] = e]
    PROVE  /\ y \in Seq(Block) /\ Len(y) = Len(x) /\ y[k] = e
           /\ \A i \in 1 .. Len(x) : i # k => y[i] = x[i]
OBVIOUS

-----------------------------------------------------------------------------
\* A segment is a block, and so is what its combinations with others give; each
\* combination begins where the first of the two does and ends where the second does.
LEMMA FreshIsBlock ==
    ASSUME seg \in Segment
    PROVE  /\ Fresh \in Block /\ Fresh.off = seg.off /\ End(Fresh) = seg.off + seg.len
           /\ seg.off \in Nat /\ seg.len \in Nat \ {0}
<1>1. seg.off \in Nat /\ seg.len \in Nat \ {0}
  BY MergeLoopAssumption DEF Segment
<1> QED  BY <1>1, NewBlockIsBlock DEF Fresh

\* What the four shapes of the list have in common: the list before the push,
\* one place, and what is known of the blocks around it.
LEMMA Around ==
    ASSUME MergeInv, pc = "combine"
    PROVE  /\ before \in Seq(Block) /\ Apart(before) /\ seg \in Segment
           /\ list \in Seq(Block) /\ b \in Nat \ {0}
           /\ \A i \in 1 .. Len(before) : before[i] \in Block
           /\ \A i \in 1 .. Len(list) : list[i] \in Block
           /\ \A i, j \in 1 .. Len(before) : i < j => End(before[i]) < before[j].off
BY DEF MergeInv, Apart

\* Blocks that are apart from their neighbours are apart.
LEMMA NeighboursApart ==
    ASSUME NEW l \in Seq(Block), \A i \in 1 .. (Len(l) - 1) : End(l[i]) < l[i + 1].off
    PROVE  Apart(l)
<1> SUFFICES ASSUME NEW i \in 1 .. Len(l), NEW j \in 1 .. Len(l), i < j
             PROVE  End(l[i]) < l[j].off
  BY DEF Apart
<1>1. PICK n : n = Len(l)
  OBVIOUS
<1>2. n \in Nat /\ i \in 1 .. n /\ j \in 1 .. n /\ i < j
  BY <1>1
<1>3. \A m \in 1 .. n : End(l[m]) \in Nat /\ l[m].off \in Nat /\ l[m].off < End(l[m])
  <2>1. \A m \in 1 .. n : l[m] \in Block
    BY <1>1
  <2> QED  BY <2>1, EndOfBlock
<1>4. \A m \in 1 .. (n - 1) : End(l[m]) < l[m + 1].off
  BY <1>1
<1> DEFINE S == {d \in Nat : i + 1 + d <= n => End(l[i]) < l[i + 1 + d].off}
<1>5. 0 \in S
  BY <1>2, <1>4
<1>6. ASSUME NEW d \in 0 .. ((n - i - 1) - 1), d \in S PROVE d + 1 \in S
  <2>1. PICK m : m = i + 1 + d
    OBVIOUS
  <2>2. m \in 1 .. (n - 1) /\ m + 1 = i + 1 + (d + 1) /\ m + 1 \in 1 .. n /\ d + 1 \in Nat
    BY <2>1, <1>2
  <2>3. End(l[i]) < l[m].off
    <3>1. i + 1 + d <= n => End(l[i]) < l[i + 1 + d].off
      BY <1>6
    <3>2. m <= n
      BY <2>2, <1>2
    <3> QED  BY <3>1, <3>2, <2>1
  <2>4. End(l[i]) < l[m + 1].off
    <3>1. /\ l[m].off < End(l[m]) /\ End(l[m]) < l[m + 1].off
          /\ End(l[i]) \in Nat /\ l[m].off \in Nat
      BY <2>2, <1>2, <1>3, <1>4
    <3>2. End(l[m]) \in Nat /\ l[m + 1].off \in Nat
      BY <2>2, <1>2, <1>3
    <3> QED  BY <2>3, <3>1, <3>2
  <2> QED  BY <2>2, <2>4
<1> HIDE DEF S
<1>7. 0 .. (n - i - 1) \subseteq S
  <2>1. n - i - 1 \in Nat
    BY <1>2
  <2> QED  BY <2>1, <1>5, <1>6, UpTo
<1>8. j - i - 1 \in S
  BY <1>2, <1>7
<1>9. i + 1 + (j - i - 1) = j
  BY <1>2
<1> QED  BY <1>2, <1>8, <1>9 DEF S

\* What is known of the place of a push.
LEMMA PlaceOfPush ==
    ASSUME MergeInv, pc = "combine", NEW n, n = Len(before),
           NEW k \in 1 .. (n + 1), Place(before, seg.off, k)
    PROVE  /\ n \in Nat
           /\ \A i \in 1 .. n : /\ before[i] \in Block /\ before[i].off \in Nat
                                /\ End(before[i]) \in Nat /\ before[i].off < End(before[i])
           /\ \A i, j \in 1 .. n : i < j => End(before[i]) < before[j].off
           /\ Fresh \in Block /\ Fresh.off = seg.off /\ End(Fresh) = seg.off + seg.len
           /\ seg.off \in Nat /\ seg.len \in Nat \ {0}
           /\ k <= n => seg.off <= before[k].off
           /\ k > 1 => before[k - 1].off < seg.off
           /\ OnLeft(k) <=> k > 1 /\ seg.off <= End(before[k - 1])
           /\ OnRight(k) <=> k <= n /\ before[k].off <= seg.off + seg.len
<1>1. n \in Nat /\ \A i \in 1 .. n : before[i] \in Block
  BY Around
<1>2. \A i, j \in 1 .. n : i < j => End(before[i]) < before[j].off
  BY Around
<1>3. /\ Fresh \in Block /\ Fresh.off = seg.off /\ End(Fresh) = seg.off + seg.len
      /\ seg.off \in Nat /\ seg.len \in Nat \ {0}
  BY Around, FreshIsBlock
<1>4. \A i \in 1 .. n : /\ before[i].off \in Nat
                        /\ End(before[i]) \in Nat /\ before[i].off < End(before[i])
  BY <1>1, EndOfBlock
<1>5. k <= n => seg.off <= before[k].off
  BY DEF Place
<1>6. k > 1 => before[k - 1].off < seg.off
  BY <1>1, <1>3, <1>4 DEF Place
<1>7. OnLeft(k) <=> k > 1 /\ seg.off <= End(before[k - 1])
  BY DEF OnLeft
<1>8. OnRight(k) <=> k <= n /\ before[k].off <= seg.off + seg.len
  BY DEF OnRight
<1> QED  BY <1>1, <1>2, <1>3, <1>4, <1>5, <1>6, <1>7, <1>8

\* The shapes of the list, element by element, and where its blocks touch.
LEMMA InsertedShape ==
    ASSUME MergeInv, pc = "combine", NEW n, n = Len(before),
           NEW k \in 1 .. (n + 1), Place(before, seg.off, k), Inserted(k)
    PROVE  /\ Len(list) = n + 1 /\ list[k] = Fresh
           /\ \A i \in 1 .. (k - 1) : list[i] = before[i]
           /\ \A i \in (k + 1) .. (n + 1) : list[i] = before[i - 1]
           /\ \A i \in 1 .. n : End(list[i]) >= list[i + 1].off
                                    <=> (OnLeft(k) /\ i = k - 1) \/ (OnRight(k) /\ i = k)
<1>1. n \in Nat /\ k \in 1 .. (n + 1)
  BY PlaceOfPush
<1>2. /\ Len(list) = n + 1 /\ list[k] = Fresh
      /\ \A i \in 1 .. (k - 1) : list[i] = before[i]
      /\ \A i \in (k + 1) .. (n + 1) : list[i] = before[i - 1]
  <2>1. before \in Seq(Block) /\ list = InsertAt(before, k, Fresh)
    BY Around DEF Inserted
  <2>2. Fresh \in Block
    BY PlaceOfPush
  <2> HIDE DEF Fresh
  <2>3. k \in 1 .. (Len(before) + 1)
    OBVIOUS
  <2>4. /\ Len(list) = Len(before) + 1 /\ list[k] = Fresh
        /\ \A i \in 1 .. (k - 1) : list[i] = before[i]
        /\ \A i \in (k + 1) .. (Len(before) + 1) : list[i] = before[i - 1]
    <3>1. PICK x, e : x = before /\ e = Fresh
      OBVIOUS
    <3>2. x \in Seq(Block) /\ e \in Block /\ k \in 1 .. (Len(x) + 1) /\ list = InsertAt(x, k, e)
      BY <2>1, <2>2, <2>3, <3>1
    <3>3. /\ Len(list) = Len(x) + 1 /\ list[k] = e
          /\ \A i \in 1 .. (k - 1) : list[i] = x[i]
          /\ \A i \in (k + 1) .. (Len(x) + 1) : list[i] = x[i - 1]
      BY <3>2, Insertion, SMTT(30)
    <3> QED  BY <3>1, <3>3
  <2> QED  BY <2>4
<1>3. \A i \in 1 .. n : End(before[i]) \in Nat /\ before[i].off \in Nat
  BY PlaceOfPush
<1>4. \A i, j \in 1 .. n : i < j => End(before[i]) < before[j].off
  BY PlaceOfPush
<1>5. ASSUME NEW i \in 1 .. n
      PROVE  End(list[i]) >= list[i + 1].off
               <=> (OnLeft(k) /\ i = k - 1) \/ (OnRight(k) /\ i = k)
  <2>1. CASE i < k - 1
    <3>1. list[i] = before[i] /\ list[i + 1] = before[i + 1] /\ i + 1 \in 1 .. n
      BY <2>1, <1>1, <1>2
    <3>2. ~(End(before[i]) >= before[i + 1].off)
      BY <3>1, <1>1, <1>3, <1>4
    <3> QED  BY <3>1, <3>2, <2>1, <1>1
  <2>2. CASE i = k - 1
    <3>1. list[i] = before[k - 1] /\ list[i + 1] = Fresh /\ k > 1
      BY <2>2, <1>1, <1>2
    <3>2. OnLeft(k) <=> seg.off <= End(before[k - 1])
      BY <3>1, PlaceOfPush
    <3>3. Fresh.off = seg.off /\ seg.off \in Nat
      BY PlaceOfPush
    <3> QED  BY <3>1, <3>2, <3>3, <2>2, <1>1, <1>3
  <2>3. CASE i = k
    <3>1. list[i] = Fresh /\ list[i + 1] = before[k] /\ k <= n
      <4>1. k + 1 \in (k + 1) .. (n + 1) /\ (k + 1) - 1 = k
        BY <2>3, <1>1
      <4> QED  BY <4>1, <2>3, <1>2
    <3>2. OnRight(k) <=> before[k].off <= seg.off + seg.len
      BY <3>1, PlaceOfPush
    <3>3. End(Fresh) = seg.off + seg.len /\ seg.off \in Nat /\ seg.len \in Nat
      BY PlaceOfPush
    <3> QED  BY <3>1, <3>2, <3>3, <2>3, <1>1, <1>3
  <2>4. CASE i > k
    <3>1. /\ i \in (k + 1) .. (n + 1) /\ i + 1 \in (k + 1) .. (n + 1)
          /\ i - 1 \in 1 .. n /\ i - 1 < i /\ (i + 1) - 1 = i
      BY <2>4, <1>1
    <3>2. list[i] = before[i - 1] /\ list[i + 1] = before[i]
      BY <3>1, <1>2
    <3>3. ~(End(before[i - 1]) >= before[i].off)
      BY <3>1, <1>3, <1>4
    <3> QED  BY <3>2, <3>3, <2>4, <1>1
  <2> QED  BY <2>1, <2>2, <2>3, <2>4, <1>1
<1> QED  BY <1>2, <1>5

\* The new block combined with its neighbours.
LEMMA JoinedBlocks ==
    ASSUME MergeInv, pc = "combine", NEW n, n = Len(before),
           NEW k \in 1 .. (n + 1), Place(before, seg.off, k)
    PROVE  /\ OnLeft(k) =>
                 LET w == Combine(before[k - 1], Fresh)
                 IN  /\ w \in Block /\ w.off = before[k - 1].off /\ End(w) = seg.off + seg.len
                     /\ k - 1 \in 1 .. n
           /\ OnRight(k) =>
                 LET w == Combine(Fresh, before[k])
                 IN  /\ w \in Block /\ w.off = seg.off /\ End(w) = End(before[k])
                     /\ k \in 1 .. n
           /\ OnLeft(k) /\ OnRight(k) =>
                 LET w == Combine(Combine(before[k - 1], Fresh), before[k])
                 IN  w \in Block /\ w.off = before[k - 1].off /\ End(w) = End(before[k])
<1>1. n \in Nat /\ k \in 1 .. (n + 1) /\ \A i \in 1 .. n : before[i] \in Block
  BY PlaceOfPush
<1>2. /\ Fresh \in Block /\ Fresh.off = seg.off /\ End(Fresh) = seg.off + seg.len
      /\ seg.off \in Nat
  BY PlaceOfPush
<1> HIDE DEF Fresh
<1>3. ASSUME OnLeft(k)
      PROVE  LET w == Combine(before[k - 1], Fresh)
             IN  /\ w \in Block /\ w.off = before[k - 1].off /\ End(w) = seg.off + seg.len
                 /\ k - 1 \in 1 .. n
  <2>1. k > 1 /\ before[k - 1].off < seg.off
    BY <1>3, PlaceOfPush
  <2>2. k - 1 \in 1 .. n
    BY <2>1, <1>1
  <2>3. before[k - 1] \in Block /\ before[k - 1].off <= Fresh.off
    BY <2>1, <2>2, <1>1, <1>2 DEF Block
  <2> QED  BY <2>2, <2>3, <1>2, CombineIsBlock
<1>4. ASSUME OnRight(k)
      PROVE  LET w == Combine(Fresh, before[k])
             IN  /\ w \in Block /\ w.off = seg.off /\ End(w) = End(before[k]) /\ k \in 1 .. n
  <2>1. k <= n /\ seg.off <= before[k].off
    BY <1>4, PlaceOfPush
  <2>2. k \in 1 .. n
    BY <2>1, <1>1
  <2>3. before[k] \in Block /\ Fresh.off <= before[k].off
    BY <2>1, <2>2, <1>1, <1>2
  <2> QED  BY <2>2, <2>3, <1>2, CombineIsBlock
<1>5. ASSUME OnLeft(k), OnRight(k)
      PROVE  LET w == Combine(Combine(before[k - 1], Fresh), before[k])
             IN  w \in Block /\ w.off = before[k - 1].off /\ End(w) = End(before[k])
  <2>1. PICK v : v = Combine(before[k - 1], Fresh)
    OBVIOUS
  <2>2. v \in Block /\ v.off = before[k - 1].off /\ k - 1 \in 1 .. n
    BY <2>1, <1>3, <1>5
  <2>3. k \in 1 .. n /\ before[k] \in Block
    BY <1>1, <1>4, <1>5
  <2>4. End(before[k - 1]) < before[k].off /\ before[k - 1].off < End(before[k - 1])
        /\ before[k - 1].off \in Nat /\ End(before[k - 1]) \in Nat /\ before[k].off \in Nat
    BY <2>2, <2>3, <1>1, PlaceOfPush
  <2>5. v.off <= before[k].off
    BY <2>2, <2>4
  <2> QED  BY <2>1, <2>2, <2>3, <2>5, CombineIsBlock
<1> QED  BY <1>3, <1>4, <1>5

\* The list after the block on the left has taken in the new one ...
LEMMA JoinedLeftShape ==
    ASSUME MergeInv, pc = "combine", NEW n, n = Len(before),
           NEW k \in 1 .. (n + 1), Place(before, seg.off, k), JoinedLeft(k)
    PROVE  /\ Len(list) = n /\ list[k - 1] = Combine(before[k - 1], Fresh)
           /\ \A i \in 1 .. n : i # k - 1 => list[i] = before[i]
           /\ \A i \in 1 .. (n - 1) : End(list[i]) >= list[i + 1].off
                                          <=> OnRight(k) /\ i = k - 1
<1> DEFINE w == Combine(before[k - 1], Fresh)
<1>1. /\ w \in Block /\ w.off = before[k - 1].off /\ End(w) = seg.off + seg.len
      /\ k - 1 \in 1 .. n
  BY JoinedBlocks DEF JoinedLeft
<1>2. before \in Seq(Block) /\ list = [before EXCEPT ![k - 1] = w]
  BY Around DEF JoinedLeft
<1> HIDE DEF w
<1>3. /\ Len(list) = n /\ list[k - 1] = w
      /\ \A i \in 1 .. n : i # k - 1 => list[i] = before[i]
  BY <1>1, <1>2, Replacement
<1>4. n \in Nat /\ k \in 1 .. (n + 1) /\ seg.off \in Nat /\ seg.len \in Nat
  BY PlaceOfPush
<1>5. \A i \in 1 .. n : End(before[i]) \in Nat /\ before[i].off \in Nat
  BY PlaceOfPush
<1>6. \A i, j \in 1 .. n : i < j => End(before[i]) < before[j].off
  BY PlaceOfPush
<1>7. ASSUME NEW i \in 1 .. (n - 1)
      PROVE  End(list[i]) >= list[i + 1].off <=> OnRight(k) /\ i = k - 1
  <2>1. i \in 1 .. n /\ i + 1 \in 1 .. n /\ i < i + 1
    BY <1>4
  <2>2. CASE i = k - 1
    <3>1. list[i] = w /\ list[i + 1] = before[k] /\ k <= n
      BY <2>1, <2>2, <1>3, <1>4
    <3>2. OnRight(k) <=> before[k].off <= seg.off + seg.len
      BY <3>1, PlaceOfPush
    <3> QED  BY <3>1, <3>2, <2>1, <2>2, <1>1, <1>4, <1>5
  <2>3. CASE i # k - 1
    <3>1. list[i] = before[i] /\ list[i + 1].off = before[i + 1].off
      BY <2>1, <2>3, <1>1, <1>3
    <3> QED  BY <3>1, <2>1, <2>3, <1>5, <1>6
  <2> QED  BY <2>2, <2>3
<1> QED  BY <1>3, <1>7 DEF w

\* ... after the new block has taken in the one on its right ...
LEMMA JoinedRightShape ==
    ASSUME MergeInv, pc = "combine", NEW n, n = Len(before),
           NEW k \in 1 .. (n + 1), Place(before, seg.off, k), JoinedRight(k)
    PROVE  /\ Len(list) = n /\ list[k] = Combine(Fresh, before[k])
           /\ \A i \in 1 .. n : i # k => list[i] = before[i]
           /\ \A i \in 1 .. (n - 1) : ~(End(list[i]) >= list[i + 1].off)
<1> DEFINE w == Combine(Fresh, before[k])
<1>1. w \in Block /\ w.off = seg.off /\ End(w) = End(before[k]) /\ k \in 1 .. n
  BY JoinedBlocks DEF JoinedRight
<1>2. before \in Seq(Block) /\ list = [before EXCEPT ![k] = w]
  BY Around DEF JoinedRight
<1> HIDE DEF w
<1>3. Len(list) = n /\ list[k] = w /\ \A i \in 1 .. n : i # k => list[i] = before[i]
  BY <1>1, <1>2, Replacement
<1>4. n \in Nat /\ seg.off \in Nat
  BY PlaceOfPush
<1>5. \A i \in 1 .. n : End(before[i]) \in Nat /\ before[i].off \in Nat
  BY PlaceOfPush
<1>6. \A i, j \in 1 .. n : i < j => End(before[i]) < before[j].off
  BY PlaceOfPush
<1>7. k > 1 => End(before[k - 1]) < seg.off
  <2> SUFFICES ASSUME k > 1 PROVE End(before[k - 1]) < seg.off
    OBVIOUS
  <2>1. ~(seg.off <= End(before[k - 1]))
    BY PlaceOfPush DEF JoinedRight
  <2>2. End(before[k - 1]) \in Nat
    BY <1>1, <1>5
  <2> QED  BY <2>1, <2>2, <1>4
<1>8. ASSUME NEW i \in 1 .. (n - 1) PROVE ~(End(list[i]) >= list[i + 1].off)
  <2>1. i \in 1 .. n /\ i + 1 \in 1 .. n /\ i < i + 1
    BY <1>4
  <2>2. CASE i + 1 = k
    <3>1. list[i] = before[k - 1] /\ list[i + 1] = w /\ k > 1
      BY <2>1, <2>2, <1>3
    <3>2. End(before[k - 1]) \in Nat
      BY <2>1, <2>2, <1>5
    <3> QED  BY <3>1, <3>2, <1>1, <1>4, <1>7
  <2>3. CASE i + 1 # k
    <3>1. End(list[i]) = End(before[i]) /\ list[i + 1] = before[i + 1]
      BY <2>1, <2>3, <1>1, <1>3
    <3> QED  BY <3>1, <2>1, <1>5, <1>6
  <2> QED  BY <2>2, <2>3
<1> QED  BY <1>3, <1>8 DEF w

\* ... and after the first has taken in both.
LEMMA JoinedBothShape ==
    ASSUME MergeInv, pc = "combine", NEW n, n = Len(before),
           NEW k \in 1 .. (n + 1), Place(before, seg.off, k), JoinedBoth(k)
    PROVE  /\ Len(list) = n - 1
           /\ list[k - 1] = Combine(Combine(before[k - 1], Fresh), before[k])
           /\ \A i \in 1 .. (k - 2) : list[i] = before[i]
           /\ \A i \in k .. (n - 1) : list[i] = before[i + 1]
           /\ \A i \in 1 .. (n - 2) : ~(End(list[i]) >= list[i + 1].off)
<1> DEFINE w == Combine(Combine(before[k - 1], Fresh), before[k])
           x == [before EXCEPT ![k - 1] = w]
<1>1. /\ w \in Block /\ w.off = before[k - 1].off /\ End(w) = End(before[k])
      /\ k - 1 \in 1 .. n /\ k \in 1 .. n
  BY JoinedBlocks DEF JoinedBoth
<1>2. before \in Seq(Block) /\ list = RemoveAt(x, k)
  BY Around DEF JoinedBoth
<1> HIDE DEF w
<1>3. /\ x \in Seq(Block) /\ Len(x) = n /\ x[k - 1] = w
      /\ \A i \in 1 .. n : i # k - 1 => x[i] = before[i]
  BY <1>1, <1>2, Replacement
<1> HIDE DEF x
<1>4. n \in Nat /\ k \in 2 .. n
  BY <1>1, PlaceOfPush
<1>5. /\ Len(list) = n - 1 /\ \A i \in 1 .. (k - 1) : list[i] = x[i]
      /\ \A i \in k .. (n - 1) : list[i] = x[i + 1]
  <2>1. /\ Len(list) = Len(x) - 1 /\ \A i \in 1 .. (k - 1) : list[i] = x[i]
        /\ \A i \in k .. (Len(x) - 1) : list[i] = x[i + 1]
    <3>1. k \in 1 .. Len(x) /\ x \in Seq(Block) /\ list = RemoveAt(x, k)
      BY <1>1, <1>2, <1>3
    <3> HIDE <1>1, <1>2, <1>3
    <3> QED  BY <3>1, Removal
  <2> QED  BY <1>3, <2>1
<1>6. /\ list[k - 1] = w /\ \A i \in 1 .. (k - 2) : list[i] = before[i]
      /\ \A i \in k .. (n - 1) : list[i] = before[i + 1]
  BY <1>3, <1>4, <1>5
<1>7. \A i \in 1 .. n : End(before[i]) \in Nat /\ before[i].off \in Nat
  BY PlaceOfPush
<1>8. \A i, j \in 1 .. n : i < j => End(before[i]) < before[j].off
  BY PlaceOfPush
<1>9. ASSUME NEW i \in 1 .. (n - 2) PROVE ~(End(list[i]) >= list[i + 1].off)
  <2>1. CASE i < k - 1
    <3>1. /\ list[i] = before[i] /\ list[i + 1].off = before[i + 1].off
          /\ i \in 1 .. n /\ i + 1 \in 1 .. n
      <4>1. i \in 1 .. (k - 2) /\ (i + 1 \in 1 .. (k - 2) \/ i + 1 = k - 1)
            /\ i \in 1 .. n /\ i + 1 \in 1 .. n
        BY <2>1, <1>4
      <4> QED  BY <4>1, <1>1, <1>6
    <3> QED  BY <3>1, <1>7, <1>8
  <2>2. CASE i >= k - 1
    <3>1. /\ End(list[i]) = End(before[i + 1]) /\ list[i + 1] = before[i + 2]
          /\ i + 1 \in 1 .. n /\ i + 2 \in 1 .. n
      <4>1. /\ i = k - 1 \/ i \in k .. (n - 1)
            /\ i + 1 \in k .. (n - 1) /\ (i + 1) + 1 = i + 2
            /\ i + 1 \in 1 .. n /\ i + 2 \in 1 .. n
        BY <2>2, <1>4
      <4>2. (k - 1) + 1 = k
        BY <1>4
      <4> QED  BY <4>1, <4>2, <1>1, <1>6
    <3>2. i + 1 < i + 2
      OBVIOUS
    <3>3. End(before[i + 1]) < before[i + 2].off
      BY <3>1, <3>2, <1>8
    <3>4. End(before[i + 1]) \in Nat /\ before[i + 2].off \in Nat
      BY <3>1, <1>7
    <3> QED  BY <3>1, <3>3, <3>4
  <2> QED  BY <2>1, <2>2, <1>4
<1> QED  BY <1>5, <1>6, <1>9 DEF w

-----------------------------------------------------------------------------
\* The invariant of a push under way, from what the step leaves and what it sets.
LEMMA PushGoesOn ==
    ASSUME MergeInv, pc = "combine", UNCHANGED <<pc, before, seg>>,
           list' \in Seq(Block), b' \in Nat \ {0}, a' \in BOOLEAN,
           NEW k \in 1 .. (Len(before) + 1), Place(before, seg.off, k),
           Inserted(k)' \/ JoinedLeft(k)' \/ JoinedRight(k)' \/ JoinedBoth(k)'
    PROVE  MergeInv'
<1>1. before' = before /\ seg' = seg /\ pc' = "combine"
  OBVIOUS
<1>2. Pushed(k)'
  BY <1>1 DEF Pushed, Place
<1>3. before \in Seq(Block) /\ Apart(before) /\ seg \in Segment
  BY Around
<1>4. Apart(before)' /\ k \in 1 .. (Len(before') + 1)
  BY <1>1, <1>3 DEF Apart, End
<1> QED  BY <1>1, <1>2, <1>3, <1>4 DEF MergeInv

\* The insertion of connection_push.
LEMMA MergePush ==
    ASSUME MergeInv, NEW s \in Segment, Push(s)
    PROVE  MergeInv'
<1>1. PICK k \in 1 .. (Len(list) + 1) :
          Place(list, s.off, k) /\ list' = InsertAt(list, k, NewBlock(s.off, s.len))
  BY DEF Push
<1>2. /\ pc = "rest" /\ pc' = "combine" /\ b' = 1 /\ a' = FALSE
      /\ before' = list /\ seg' = s
  BY DEF Push
<1>3. list \in Seq(Block) /\ Apart(list)
  BY <1>2 DEF MergeInv
<1>4. NewBlock(s.off, s.len) \in Block
  <2>1. s.off \in Nat /\ s.len \in Nat \ {0}
    BY MergeLoopAssumption DEF Segment
  <2> QED  BY <2>1, NewBlockIsBlock
<1>5. list' \in Seq(Block)
  BY <1>1, <1>3, <1>4, Insertion
<1>6. OnLeft(k)' => k > 1
  BY DEF OnLeft
<1>7. Inserted(k)'
  <2>1. list' = InsertAt(before, k, Fresh)'
    BY <1>1, <1>2 DEF Fresh, NewBlock, InsertAt
  <2>2. k \in Nat /\ k >= 1
    OBVIOUS
  <2> QED  BY <1>2, <1>6, <2>1, <2>2 DEF Inserted
<1>8. Pushed(k)'
  BY <1>1, <1>2, <1>7 DEF Pushed, Place
<1>9. Apart(before)' /\ k \in 1 .. (Len(before') + 1)
  BY <1>2, <1>3 DEF Apart, End
<1>10. b' \in Nat \ {0}
  BY <1>2
<1>13. a' \in BOOLEAN
  BY <1>2
<1>11. before' \in Seq(Block) /\ seg' \in Segment
  BY <1>2, <1>3
<1>12. \E i \in 1 .. (Len(before') + 1) : Pushed(i)'
  BY <1>8, <1>9
<1> QED  BY <1>2, <1>5, <1>9, <1>10, <1>11, <1>12, <1>13 DEF MergeInv

\* A walk combines two blocks: only those the push brought together.
LEMMA MergeCombineTwo ==
    ASSUME MergeInv, CombineTwo
    PROVE  MergeInv'
<1>1. PICK k \in 1 .. (Len(before) + 1) : Pushed(k)
  BY DEF MergeInv, CombineTwo
<1>2. PICK n : n = Len(before)
  OBVIOUS
<1>3. /\ pc = "combine" /\ UNCHANGED <<pc, before, seg>> /\ a' = TRUE /\ b' = b + 1
      /\ b < Len(list) /\ End(list[b]) >= list[b + 1].off
      /\ list' = RemoveAt([list EXCEPT ![b] = Combine(list[b], list[b + 1])], b + 1)
  BY DEF CombineTwo, Touching
<1>4. /\ before \in Seq(Block) /\ list \in Seq(Block) /\ b \in Nat \ {0}
      /\ b' \in Nat \ {0} /\ a' \in BOOLEAN
  BY <1>3, Around
<1>5. k \in 1 .. (n + 1) /\ n \in Nat /\ Place(before, seg.off, k)
  BY <1>1, <1>2, <1>4 DEF Pushed
<1>6. CASE Inserted(k)
  <2>1. /\ Len(list) = n + 1 /\ list[k] = Fresh
        /\ \A i \in 1 .. (k - 1) : list[i] = before[i]
        /\ \A i \in (k + 1) .. (n + 1) : list[i] = before[i - 1]
        /\ (OnLeft(k) /\ b = k - 1) \/ (OnRight(k) /\ b = k)
    <3>1. /\ Len(list) = n + 1 /\ list[k] = Fresh
          /\ \A i \in 1 .. (k - 1) : list[i] = before[i]
          /\ \A i \in (k + 1) .. (n + 1) : list[i] = before[i - 1]
          /\ \A i \in 1 .. n : End(list[i]) >= list[i + 1].off
                                   <=> (OnLeft(k) /\ i = k - 1) \/ (OnRight(k) /\ i = k)
      BY <1>2, <1>3, <1>5, <1>6, InsertedShape
    <3>2. b \in 1 .. n
      BY <3>1, <1>3, <1>4, <1>5
    <3> QED  BY <3>1, <3>2, <1>3
  <2>2. CASE OnLeft(k) /\ b = k - 1
    <3>1. PICK e : e = Combine(before[k - 1], Fresh)
      OBVIOUS
    <3>2. e \in Block /\ k - 1 \in 1 .. n
      BY <1>2, <1>3, <1>5, <2>2, <3>1, JoinedBlocks
    <3>3. PICK x : x = [list EXCEPT ![k - 1] = e]
      OBVIOUS
    <3>10. list' = RemoveAt(x, k)
      <4>1. b + 1 = k /\ list[b] = before[k - 1] /\ list[b + 1] = Fresh
        BY <1>5, <2>1, <2>2, <3>2
      <4> QED  BY <1>3, <2>2, <3>1, <3>3, <4>1
    <3>11. /\ x \in Seq(Block) /\ Len(x) = n + 1 /\ x[k - 1] = e
           /\ \A i \in 1 .. (n + 1) : i # k - 1 => x[i] = list[i]
      <4>1. k - 1 \in 1 .. Len(list)
        BY <1>5, <2>1, <3>2
      <4> QED  BY <1>4, <2>1, <3>2, <3>3, <4>1, Replacement
    <3>4. /\ list' \in Seq(Block) /\ Len(list') = n /\ list'[k - 1] = e
          /\ \A i \in 1 .. (k - 2) : list'[i] = list[i]
          /\ \A i \in k .. n : list'[i] = list[i + 1]
      <4>1. k \in 1 .. Len(x)
        BY <1>5, <3>11
      <4>2. /\ list' \in Seq(Block) /\ Len(list') = Len(x) - 1
            /\ \A i \in 1 .. (k - 1) : list'[i] = x[i]
            /\ \A i \in k .. (Len(x) - 1) : list'[i] = x[i + 1]
        BY <3>10, <3>11, <4>1, Removal
      <4>3. k - 1 \in 1 .. (k - 1) /\ (n + 1) - 1 = n
        BY <1>5, <3>2
      <4>4. \A i \in 1 .. (k - 2) : i \in 1 .. (k - 1) /\ i \in 1 .. (n + 1) /\ i # k - 1
        BY <1>5
      <4>5. \A i \in k .. n : i + 1 \in 1 .. (n + 1) /\ i + 1 # k - 1
        BY <1>5
      <4> QED  BY <3>11, <4>2, <4>3, <4>4, <4>5
    <3>5. PICK z : z = [before EXCEPT ![k - 1] = e]
      OBVIOUS
    <3>6. /\ z \in Seq(Block) /\ Len(z) = n /\ z[k - 1] = e
          /\ \A i \in 1 .. n : i # k - 1 => z[i] = before[i]
      BY <1>2, <1>4, <3>2, <3>5, Replacement
    <3>7. ASSUME NEW i \in 1 .. n PROVE list'[i] = z[i]
      <4>1. CASE i < k - 1
        <5>1. i \in 1 .. (k - 2) /\ i \in 1 .. (k - 1) /\ i # k - 1
          BY <4>1, <1>5
        <5> QED  BY <5>1, <2>1, <3>4, <3>6
      <4>2. CASE i = k - 1
        BY <4>2, <3>4, <3>6
      <4>3. CASE i > k - 1
        <5>1. i \in k .. n /\ i + 1 \in (k + 1) .. (n + 1) /\ (i + 1) - 1 = i /\ i # k - 1
          BY <4>3, <1>5
        <5> QED  BY <5>1, <2>1, <3>4, <3>6
      <4> QED  BY <4>1, <4>2, <4>3, <1>5
    <3>8. list' = z
      BY <3>4, <3>6, <3>7, SameList
    <3>9. JoinedLeft(k)'
      <4>1. list' = [before EXCEPT ![k - 1] = Combine(before[k - 1], Fresh)]
        BY <3>1, <3>5, <3>8
      <4> QED  BY <4>1, <1>3, <2>2 DEF JoinedLeft, OnLeft, Fresh, End, NewBlock, Combine
    <3> QED  BY <1>3, <1>4, <1>5, <3>4, <3>9, PushGoesOn
  <2>3. CASE OnRight(k) /\ b = k
    <3>1. PICK e : e = Combine(Fresh, before[k])
      OBVIOUS
    <3>2. e \in Block /\ k \in 1 .. n
      BY <1>2, <1>3, <1>5, <2>3, <3>1, JoinedBlocks
    <3>3. PICK x : x = [list EXCEPT ![k] = e]
      OBVIOUS
    <3>11. PICK m \in Nat : m = k + 1
      BY <1>5
    <3>12. list' = RemoveAt(x, m)
      <4>1. m \in (k + 1) .. (n + 1) /\ m - 1 = k
        BY <1>5, <3>2, <3>11
      <4>2. list[b] = Fresh /\ list[b + 1] = before[k]
        BY <4>1, <2>1, <2>3, <3>11
      <4> QED  BY <1>3, <2>3, <3>1, <3>3, <3>11, <4>2
    <3>13. /\ x \in Seq(Block) /\ Len(x) = n + 1 /\ x[k] = e
           /\ \A i \in 1 .. (n + 1) : i # k => x[i] = list[i]
      <4>1. k \in 1 .. Len(list)
        BY <1>5, <2>1
      <4> QED  BY <1>4, <2>1, <3>2, <3>3, <4>1, Replacement
    <3>4. /\ list' \in Seq(Block) /\ Len(list') = n /\ list'[k] = e
          /\ \A i \in 1 .. (k - 1) : list'[i] = list[i]
          /\ \A i \in (k + 1) .. n : list'[i] = list[i + 1]
      <4>1. m \in 1 .. Len(x)
        BY <1>5, <3>2, <3>11, <3>13
      <4>2. /\ list' \in Seq(Block) /\ Len(list') = Len(x) - 1
            /\ \A i \in 1 .. (m - 1) : list'[i] = x[i]
            /\ \A i \in m .. (Len(x) - 1) : list'[i] = x[i + 1]
        BY <3>12, <3>13, <4>1, Removal
      <4>3. k \in 1 .. (m - 1) /\ (n + 1) - 1 = n
        BY <1>5, <3>2, <3>11
      <4>4. \A i \in 1 .. (k - 1) : i \in 1 .. (m - 1) /\ i \in 1 .. (n + 1) /\ i # k
        BY <1>5, <3>11
      <4>5. \A i \in (k + 1) .. n : i + 1 \in 1 .. (n + 1) /\ i + 1 # k
        BY <1>5
      <4> QED  BY <3>11, <3>13, <4>2, <4>3, <4>4, <4>5
    <3>5. PICK z : z = [before EXCEPT ![k] = e]
      OBVIOUS
    <3>6. /\ z \in Seq(Block) /\ Len(z) = n /\ z[k] = e
          /\ \A i \in 1 .. n : i # k => z[i] = before[i]
      BY <1>2, <1>4, <3>2, <3>5, Replacement
    <3>7. ASSUME NEW i \in 1 .. n PROVE list'[i] = z[i]
      <4>1. CASE i < k
        <5>1. i \in 1 .. (k - 1) /\ i # k
          BY <4>1, <1>5
        <5> QED  BY <5>1, <2>1, <3>4, <3>6
      <4>2. CASE i = k
        BY <4>2, <3>4, <3>6
      <4>3. CASE i > k
        <5>1. i \in (k + 1) .. n /\ i + 1 \in (k + 1) .. (n + 1) /\ (i + 1) - 1 = i /\ i # k
          BY <4>3, <1>5
        <5> QED  BY <5>1, <2>1, <3>4, <3>6
      <4> QED  BY <4>1, <4>2, <4>3, <1>5
    <3>8. list' = z
      BY <3>4, <3>6, <3>7, SameList
    <3>9. ~OnLeft(k)
      <4>1. OnLeft(k) => b <= k - 1
        BY <1>6 DEF Inserted
      <4>2. ~(b <= k - 1)
        BY <1>5, <2>3
      <4> QED  BY <4>1, <4>2
    <3>10. JoinedRight(k)'
      <4>1. list' = [before EXCEPT ![k] = Combine(Fresh, before[k])]
        BY <3>1, <3>5, <3>8
      <4>2. OnRight(k)' /\ ~OnLeft(k)'
        BY <1>3, <2>3, <3>9 DEF OnLeft, OnRight, End
      <4> QED  BY <4>1, <4>2, <1>3 DEF JoinedRight, Fresh, End, NewBlock, Combine
    <3> QED  BY <1>3, <1>4, <1>5, <3>4, <3>10, PushGoesOn
  <2> QED  BY <2>1, <2>2, <2>3
<1>7. CASE JoinedLeft(k)
  <2>1. /\ Len(list) = n /\ list[k - 1] = Combine(before[k - 1], Fresh)
        /\ \A i \in 1 .. n : i # k - 1 => list[i] = before[i]
        /\ OnRight(k) /\ b = k - 1
    <3>1. b \in 1 .. (n - 1) \/ Len(list) # n
      BY <1>3, <1>4, <1>5
    <3> QED  BY <3>1, <1>2, <1>3, <1>5, <1>7, JoinedLeftShape
  <2>2. PICK e : e = Combine(Combine(before[k - 1], Fresh), before[k])
    OBVIOUS
  <2>3. e \in Block /\ k - 1 \in 1 .. n /\ k \in 1 .. n
    BY <1>2, <1>3, <1>5, <1>7, <2>1, <2>2, JoinedBlocks DEF JoinedLeft
  <2>4. PICK x : x = [list EXCEPT ![k - 1] = e]
    OBVIOUS
  <2>5. PICK z : z = [before EXCEPT ![k - 1] = e]
    OBVIOUS
  <2>6. list' = RemoveAt(x, k)
    <3>1. b + 1 = k /\ list[b + 1] = before[k] /\ list[b] = Combine(before[k - 1], Fresh)
      BY <1>5, <2>1, <2>3
    <3> QED  BY <1>3, <2>1, <2>2, <2>4, <3>1
  <2>7. /\ x \in Seq(Block) /\ Len(x) = n /\ x[k - 1] = e
        /\ \A i \in 1 .. n : i # k - 1 => x[i] = list[i]
    BY <1>4, <2>1, <2>3, <2>4, Replacement
  <2>8. /\ z \in Seq(Block) /\ Len(z) = n /\ z[k - 1] = e
        /\ \A i \in 1 .. n : i # k - 1 => z[i] = before[i]
    BY <1>2, <1>4, <2>3, <2>5, Replacement
  <2>9. \A i \in 1 .. n : x[i] = z[i]
    BY <2>1, <2>7, <2>8
  <2>10. x = z
    BY <2>7, <2>8, <2>9, SameList
  <2>11. list' \in Seq(Block)
    BY <2>3, <2>6, <2>7, Removal
  <2>12. JoinedBoth(k)'
    <3>1. list' = RemoveAt([before EXCEPT ![k - 1] =
                               Combine(Combine(before[k - 1], Fresh), before[k])], k)
      BY <2>2, <2>5, <2>6, <2>10
    <3>2. OnRight(k)' /\ OnLeft(k)'
      BY <1>3, <1>7, <2>1 DEF OnLeft, OnRight, End, JoinedLeft
    <3> QED  BY <3>1, <3>2, <1>3 DEF JoinedBoth, Fresh, End, NewBlock, Combine, RemoveAt
  <2> QED  BY <1>3, <1>4, <1>5, <2>11, <2>12, PushGoesOn
<1>8. CASE JoinedRight(k)
  <2>1. b \in 1 .. (n - 1) \/ Len(list) # n
    BY <1>3, <1>4, <1>5
  <2> QED  BY <2>1, <1>2, <1>3, <1>5, <1>8, JoinedRightShape
<1>9. CASE JoinedBoth(k)
  <2>1. b \in 1 .. (n - 2) \/ Len(list) # n - 1
    BY <1>3, <1>4, <1>5
  <2> QED  BY <2>1, <1>2, <1>3, <1>5, <1>9, JoinedBothShape
<1> QED  BY <1>1, <1>6, <1>7, <1>8, <1>9 DEF Pushed

\* A walk that is past the last block and has combined nothing leaves nothing to
\* combine: the new block stays alone only when it touches no neighbour.
LEMMA WalkedThrough ==
    ASSUME MergeInv, pc = "combine", b > Len(list), ~a, NEW n, n = Len(before),
           NEW k \in 1 .. (n + 1), Place(before, seg.off, k),
           Inserted(k) \/ JoinedLeft(k) \/ JoinedRight(k) \/ JoinedBoth(k)
    PROVE  /\ Inserted(k) => ~OnLeft(k) /\ ~OnRight(k)
           /\ JoinedLeft(k) => ~OnRight(k)
           /\ Apart(list)
<1>1. n \in Nat /\ k \in 1 .. (n + 1) /\ list \in Seq(Block) /\ b \in Nat
  BY Around, PlaceOfPush
<1>2. ASSUME Inserted(k)
      PROVE  ~OnLeft(k) /\ ~OnRight(k) /\ \A i \in 1 .. (Len(list) - 1) : ~(End(list[i]) >= list[i + 1].off)
  <2>1. Len(list) = n + 1
    BY <1>2, InsertedShape
  <2>2. ~(b <= k - 1) /\ ~(b <= k)
    BY <2>1, <1>1
  <2>3. ~OnLeft(k) /\ ~OnRight(k)
    BY <2>2, <1>2 DEF Inserted
  <2>4. \A i \in 1 .. n : End(list[i]) >= list[i + 1].off
                              <=> (OnLeft(k) /\ i = k - 1) \/ (OnRight(k) /\ i = k)
    BY <1>2, InsertedShape
  <2>5. Len(list) - 1 = n
    BY <2>1, <1>1
  <2> QED  BY <2>3, <2>4, <2>5
<1>3. ASSUME JoinedLeft(k)
      PROVE  ~OnRight(k) /\ \A i \in 1 .. (Len(list) - 1) : ~(End(list[i]) >= list[i + 1].off)
  <2>1. Len(list) = n
    BY <1>3, JoinedLeftShape
  <2>2. ~(b <= k - 1)
    BY <2>1, <1>1
  <2>3. ~OnRight(k)
    BY <2>2, <1>3 DEF JoinedLeft
  <2>4. \A i \in 1 .. (n - 1) : End(list[i]) >= list[i + 1].off <=> OnRight(k) /\ i = k - 1
    BY <1>3, JoinedLeftShape
  <2> QED  BY <2>1, <2>3, <2>4
<1>4. ASSUME JoinedRight(k)
      PROVE  \A i \in 1 .. (Len(list) - 1) : ~(End(list[i]) >= list[i + 1].off)
  BY <1>4, JoinedRightShape
<1>5. ASSUME JoinedBoth(k)
      PROVE  \A i \in 1 .. (Len(list) - 1) : ~(End(list[i]) >= list[i + 1].off)
  <2>1. Len(list) = n - 1 /\ \A i \in 1 .. (n - 2) : ~(End(list[i]) >= list[i + 1].off)
    BY <1>5, JoinedBothShape
  <2>2. Len(list) - 1 = n - 2
    BY <2>1, <1>1
  <2> QED  BY <2>1, <2>2
<1>6. \A i \in 1 .. (Len(list) - 1) : End(list[i]) < list[i + 1].off
  <2> SUFFICES ASSUME NEW i \in 1 .. (Len(list) - 1) PROVE End(list[i]) < list[i + 1].off
    OBVIOUS
  <2>1. ~(End(list[i]) >= list[i + 1].off)
    BY <1>2, <1>3, <1>4, <1>5
  <2>2. PICK m : m = Len(list)
    OBVIOUS
  <2>3. m \in Nat /\ i \in 1 .. (m - 1)
    BY <1>1, <2>2
  <2>4. i \in 1 .. Len(list) /\ i + 1 \in 1 .. Len(list)
    BY <2>2, <2>3
  <2>5. list[i] \in Block /\ list[i + 1] \in Block
    BY <1>1, <2>4
  <2>6. End(list[i]) \in Nat /\ list[i + 1].off \in Nat
    BY <2>5, EndOfBlock
  <2> QED  BY <2>1, <2>6
<1>7. Apart(list)
  BY <1>1, <1>6, NeighboursApart
<1> QED  BY <1>2, <1>3, <1>7

\* A walk passes a block that does not touch the next.
LEMMA MergeNextBlock ==
    ASSUME MergeInv, NextBlock
    PROVE  MergeInv'
<1>1. PICK k \in 1 .. (Len(before) + 1) : Pushed(k)
  BY DEF MergeInv, NextBlock
<1>2. PICK n : n = Len(before)
  OBVIOUS
<1>3. /\ pc = "combine" /\ UNCHANGED <<list, pc, a, before, seg>> /\ b' = b + 1
      /\ ~(b < Len(list) /\ End(list[b]) >= list[b + 1].off)
  BY DEF NextBlock, Touching
<1>4. /\ list \in Seq(Block) /\ b \in Nat \ {0} /\ b' \in Nat \ {0} /\ a' \in BOOLEAN
      /\ list' \in Seq(Block)
  BY <1>3, Around DEF MergeInv
<1>5. k \in 1 .. (n + 1) /\ n \in Nat /\ Place(before, seg.off, k)
  BY <1>1, <1>2, Around DEF Pushed
<1>6. (OnLeft(k)' <=> OnLeft(k)) /\ (OnRight(k)' <=> OnRight(k)) /\ Fresh' = Fresh
  BY <1>3 DEF OnLeft, OnRight, End, Fresh, NewBlock
<1>7. ASSUME Inserted(k) PROVE Inserted(k)'
  <2>1. /\ Len(list) = n + 1
        /\ \A i \in 1 .. n : End(list[i]) >= list[i + 1].off
                                 <=> (OnLeft(k) /\ i = k - 1) \/ (OnRight(k) /\ i = k)
    BY <1>2, <1>3, <1>5, <1>7, InsertedShape
  <2>2. OnLeft(k) => b <= k - 1
    BY <1>7 DEF Inserted
  <2>3. OnRight(k) /\ ~OnLeft(k) => b <= k
    BY <1>7 DEF Inserted
  <2>4. OnLeft(k) => b # k - 1
    <3> SUFFICES ASSUME OnLeft(k), b = k - 1 PROVE FALSE
      OBVIOUS
    <3>1. b \in 1 .. n /\ b < Len(list)
      BY <1>4, <1>5, <2>1
    <3> QED  BY <3>1, <2>1, <1>3
  <2>5. OnRight(k) => b # k
    <3> SUFFICES ASSUME OnRight(k), b = k PROVE FALSE
      OBVIOUS
    <3>1. k <= n
      BY <1>2 DEF OnRight
    <3>2. b \in 1 .. n /\ b < Len(list)
      BY <1>4, <1>5, <2>1, <3>1
    <3> QED  BY <3>2, <2>1, <1>3
  <2>6. OnLeft(k) => b' <= k - 1
    BY <1>3, <1>4, <1>5, <2>2, <2>4
  <2>7. OnRight(k) /\ ~OnLeft(k) => b' <= k
    BY <1>3, <1>4, <1>5, <2>3, <2>5
  <2>8. list' = InsertAt(before', k, Fresh') /\ ~a'
    BY <1>3, <1>6, <1>7 DEF Inserted
  <2> QED  BY <1>6, <2>6, <2>7, <2>8 DEF Inserted
<1>8. ASSUME JoinedLeft(k) PROVE JoinedLeft(k)'
  <2>1. /\ Len(list) = n
        /\ \A i \in 1 .. (n - 1) : End(list[i]) >= list[i + 1].off <=> OnRight(k) /\ i = k - 1
    BY <1>2, <1>3, <1>5, <1>8, JoinedLeftShape
  <2>2. OnRight(k) => b # k - 1
    <3> SUFFICES ASSUME OnRight(k), b = k - 1 PROVE FALSE
      OBVIOUS
    <3>1. k <= n
      BY <1>2 DEF OnRight
    <3>2. b \in 1 .. (n - 1) /\ b < Len(list)
      BY <1>4, <1>5, <2>1, <3>1
    <3> QED  BY <3>2, <2>1, <1>3
  <2>3. OnRight(k) => a \/ b <= k - 1
    BY <1>8 DEF JoinedLeft
  <2>4. ASSUME OnRight(k)' PROVE a' \/ b' <= k - 1
    <3>1. CASE a
      BY <3>1, <1>3
    <3>2. CASE ~a
      <4>1. b <= k - 1 /\ b # k - 1
        BY <3>2, <2>2, <2>3, <2>4, <1>6
      <4> QED  BY <4>1, <1>3, <1>4, <1>5
    <3> QED  BY <3>1, <3>2
  <2>5. OnLeft(k)' /\ list' = [before' EXCEPT ![k - 1] = Combine(@, Fresh')]
    <3>1. OnLeft(k) /\ list = [before EXCEPT ![k - 1] = Combine(@, Fresh)]
      BY <1>8 DEF JoinedLeft
    <3> QED  BY <3>1, <1>3, <1>6
  <2> QED  BY <2>4, <2>5 DEF JoinedLeft
<1>9. ASSUME JoinedRight(k) PROVE JoinedRight(k)'
  BY <1>3, <1>6, <1>9 DEF JoinedRight
<1>10. ASSUME JoinedBoth(k) PROVE JoinedBoth(k)'
  BY <1>3, <1>6, <1>10 DEF JoinedBoth
<1>11. Inserted(k)' \/ JoinedLeft(k)' \/ JoinedRight(k)' \/ JoinedBoth(k)'
  BY <1>1, <1>7, <1>8, <1>9, <1>10 DEF Pushed
<1> QED  BY <1>2, <1>3, <1>4, <1>5, <1>11, PushGoesOn

\* A walk that has combined blocks is followed by another.
LEMMA MergeWalkAgain ==
    ASSUME MergeInv, WalkAgain
    PROVE  MergeInv'
<1>1. PICK k \in 1 .. (Len(before) + 1) : Pushed(k)
  BY DEF MergeInv, WalkAgain
<1>2. /\ pc = "combine" /\ UNCHANGED <<list, pc, before, seg>> /\ b' = 1 /\ a' = FALSE /\ a
  BY DEF WalkAgain
<1>3. list' \in Seq(Block) /\ b' \in Nat \ {0} /\ a' \in BOOLEAN /\ Place(before, seg.off, k)
  <2>1. list' \in Seq(Block)
    BY <1>2, Around
  <2>2. b' \in Nat \ {0}
    BY <1>2
  <2>3. a' \in BOOLEAN
    BY <1>2
  <2> QED  BY <1>1, <2>1, <2>2, <2>3 DEF Pushed
<1>4. (OnLeft(k)' <=> OnLeft(k)) /\ (OnRight(k)' <=> OnRight(k)) /\ Fresh' = Fresh
  BY <1>2 DEF OnLeft, OnRight, End, Fresh, NewBlock
<1>5. ~Inserted(k)
  BY <1>2 DEF Inserted
<1>6. ASSUME JoinedLeft(k) PROVE JoinedLeft(k)'
  <2>1. OnLeft(k) /\ list = [before EXCEPT ![k - 1] = Combine(@, Fresh)]
    BY <1>6 DEF JoinedLeft
  <2>2. OnLeft(k)' /\ list' = [before' EXCEPT ![k - 1] = Combine(@, Fresh')]
    BY <2>1, <1>2, <1>4
  <2>3. b' <= k - 1
    <3>1. k > 1
      BY <2>1 DEF OnLeft
    <3>2. k \in Nat
      OBVIOUS
    <3> QED  BY <3>1, <3>2, <1>2
  <2> QED  BY <2>2, <2>3 DEF JoinedLeft
<1>7. ASSUME JoinedRight(k) PROVE JoinedRight(k)'
  BY <1>2, <1>4, <1>7 DEF JoinedRight
<1>8. ASSUME JoinedBoth(k) PROVE JoinedBoth(k)'
  BY <1>2, <1>4, <1>8 DEF JoinedBoth
<1>9. JoinedLeft(k)' \/ JoinedRight(k)' \/ JoinedBoth(k)'
  BY <1>1, <1>5, <1>6, <1>7, <1>8 DEF Pushed
<1> QED  BY <1>2, <1>3, <1>9, PushGoesOn

\* The last walk leaves the blocks apart.
LEMMA MergeWalkDone ==
    ASSUME MergeInv, WalkDone
    PROVE  MergeInv'
<1>1. PICK k \in 1 .. (Len(before) + 1) : Pushed(k)
  BY DEF MergeInv, WalkDone
<1>2. pc = "combine" /\ b > Len(list) /\ ~a
  BY DEF WalkDone
<1>3. Apart(list) /\ list \in Seq(Block)
  BY <1>1, <1>2, Around, WalkedThrough DEF Pushed
<1>4. list' = list /\ pc' = "rest" /\ b' = 1 /\ a' = FALSE
  BY DEF WalkDone, AtRest
<1>5. Apart(list)'
  BY <1>3, <1>4 DEF Apart, End
<1>6. list' \in Seq(Block) /\ b' \in Nat \ {0}
  BY <1>3, <1>4
<1>7. a' \in BOOLEAN /\ pc' # "combine" /\ pc' \in {"rest", "combine"}
  BY <1>4
<1> QED  BY <1>5, <1>6, <1>7 DEF MergeInv

\* extract_media moves no block.
LEMMA MergeSearch ==
    ASSUME MergeInv, Search
    PROVE  MergeInv'
<1>1. PICK upto \in [DOMAIN list -> 0 .. MaxEnd] :
          list' = [i \in DOMAIN list |-> IF list[i].dirty THEN Searched(list[i], upto[i])
                                         ELSE list[i]]
  BY DEF Search
<1>2. pc = "rest" /\ UNCHANGED <<pc, b, a, before, seg>>
  BY DEF Search
<1>3. list \in Seq(Block) /\ Apart(list)
  BY <1>2 DEF MergeInv
<1>4. PICK n \in Nat : n = Len(list) /\ DOMAIN list = 1 .. n
  BY <1>3
<1>5. ASSUME NEW i \in 1 .. n
      PROVE  list'[i] \in Block /\ list'[i].off = list[i].off /\ End(list'[i]) = End(list[i])
  <2>1. list[i] \in Block /\ upto[i] \in Nat
    BY <1>3, <1>4, MergeLoopAssumption
  <2>2. list'[i] = list[i] \/ list'[i] = Searched(list[i], upto[i])
    BY <1>1, <1>4
  <2>3. CASE list'[i] = list[i]
    BY <2>1, <2>3 DEF End
  <2>4. CASE list'[i] = Searched(list[i], upto[i])
    <3>1. PICK y, u : y = list[i] /\ u = upto[i]
      OBVIOUS
    <3>2. y \in Block /\ u \in Nat
      BY <2>1, <3>1
    <3>3. Searched(y, u) \in Block
      BY <3>2 DEF Searched, Block
    <3>4. Searched(y, u).off = y.off /\ Searched(y, u).len = y.len
      BY DEF Searched
    <3> QED  BY <2>4, <3>1, <3>3, <3>4 DEF End
  <2> QED  BY <2>2, <2>3, <2>4
<1>6. list' = [i \in 1 .. n |-> list'[i]]
  BY <1>1, <1>4
<1>7. list' \in Seq(Block) /\ Len(list') = n
  BY <1>4, <1>5, <1>6, ListOf
<1>8. Apart(list)'
  <2>1. \A i, j \in 1 .. n : i < j => End(list[i]) < list[j].off
    BY <1>3, <1>4 DEF Apart
  <2>2. \A i, j \in 1 .. n : i < j => End(list'[i]) < list'[j].off
    BY <2>1, <1>5
  <2>3. DOMAIN list' = 1 .. n
    BY <1>6
  <2> QED  BY <2>2, <2>3 DEF Apart, End
<1> QED  BY <1>2, <1>7, <1>8 DEF MergeInv

-----------------------------------------------------------------------------
\* The shapes of a push under way, in every state of a run.
LEMMA MergeInvariance == Spec => []MergeInv
<1>1. Init => MergeInv
  <2> SUFFICES ASSUME Init PROVE MergeInv
    OBVIOUS
  <2>1. list = <<>> /\ pc = "rest" /\ b = 1 /\ a = FALSE
    BY DEF Init
  <2>2. list \in Seq(Block) /\ Apart(list)
    BY <2>1 DEF Apart
  <2>3. b \in Nat \ {0}
    BY <2>1
  <2>4. a \in BOOLEAN /\ pc \in {"rest", "combine"} /\ pc # "combine"
    BY <2>1
  <2> QED  BY <2>2, <2>3, <2>4 DEF MergeInv
<1>2. MergeInv /\ [Next]_vars => MergeInv'
  <2> SUFFICES ASSUME MergeInv, [Next]_vars PROVE MergeInv'
    OBVIOUS
  <2>1. CASE Next
    BY <2>1, MergePush, MergeCombineTwo, MergeNextBlock, MergeWalkAgain, MergeWalkDone,
       MergeSearch DEF Next
  <2>2. CASE UNCHANGED vars
    <3>1. UNCHANGED <<list, pc, b, a, before, seg>>
      BY <2>2 DEF vars
    <3>2. Apart(list)' <=> Apart(list)
      BY <3>1 DEF Apart, End
    <3>3. CASE pc = "rest"
      BY <3>1, <3>2, <3>3 DEF MergeInv
    <3>4. CASE pc = "combine"
      <4>1. PICK k \in 1 .. (Len(before) + 1) : Pushed(k)
        BY <3>4 DEF MergeInv
      <4>2. (OnLeft(k)' <=> OnLeft(k)) /\ (OnRight(k)' <=> OnRight(k)) /\ Fresh' = Fresh
        BY <3>1 DEF OnLeft, OnRight, End, Fresh, NewBlock
      <4>3. ASSUME Inserted(k) PROVE Inserted(k)'
        BY <3>1, <4>2, <4>3 DEF Inserted
      <4>4. ASSUME JoinedLeft(k) PROVE JoinedLeft(k)'
        BY <3>1, <4>2, <4>4 DEF JoinedLeft
      <4>5. ASSUME JoinedRight(k) PROVE JoinedRight(k)'
        BY <3>1, <4>2, <4>5 DEF JoinedRight
      <4>6. ASSUME JoinedBoth(k) PROVE JoinedBoth(k)'
        BY <3>1, <4>2, <4>6 DEF JoinedBoth
      <4>7. /\ Place(before, seg.off, k)
            /\ Inserted(k)' \/ JoinedLeft(k)' \/ JoinedRight(k)' \/ JoinedBoth(k)'
        BY <4>1, <4>3, <4>4, <4>5, <4>6 DEF Pushed
      <4>8. list' \in Seq(Block) /\ b' \in Nat \ {0} /\ a' \in BOOLEAN
        BY <3>1 DEF MergeInv
      <4> QED  BY <3>1, <3>4, <4>7, <4>8, PushGoesOn
    <3> QED  BY <3>3, <3>4 DEF MergeInv
  <2> QED  BY <2>1, <2>2
<1> QED  BY <1>1, <1>2, PTL DEF Spec

\* Between two pushes the blocks lie in the order of their offsets and leave a gap
\* between each and the next, whatever came in whatever order.
THEOREM ListStaysSorted == Spec => []ListSorted
<1>1. MergeInv => ListSorted
  <2> SUFFICES ASSUME MergeInv, pc = "rest", NEW i \in 1 .. (Len(list) - 1)
               PROVE  End(list[i]) < list[i + 1].off
    BY DEF ListSorted
  <2>1. list \in Seq(Block) /\ Apart(list)
    BY DEF MergeInv
  <2>2. PICK n \in Nat : n = Len(list) /\ DOMAIN list = 1 .. n
    BY <2>1
  <2>3. i \in DOMAIN list /\ i + 1 \in DOMAIN list /\ i < i + 1
    BY <2>2
  <2> QED  BY <2>1, <2>3 DEF Apart
<1> QED  BY <1>1, MergeInvariance, PTL

-----------------------------------------------------------------------------
\* The blocks of a list whose elements are those of another, but for a few.
LEMMA SetOf ==
    ASSUME NEW x \in Seq(Block), NEW n \in Nat, n = Len(x)
    PROVE  ToSet(x) = {x[i] : i \in 1 .. n} /\ ToSet(x) \in SUBSET Block
BY DEF ToSet

\* Of the blocks before the push, the one left of its place is the only one that
\* PushBlock may combine the new block with on the left ...
LEMMA LeftNeighbour ==
    ASSUME MergeInv, pc = "combine", NEW n, n = Len(before),
           NEW k \in 1 .. (n + 1), Place(before, seg.off, k)
    PROVE  Absorber(ToSet(before), seg.off) = IF OnLeft(k) THEN {before[k - 1]} ELSE {}
<1>1. n \in Nat /\ k \in 1 .. (n + 1) /\ seg.off \in Nat
  BY PlaceOfPush
<1>2. \A i \in 1 .. n : End(before[i]) \in Nat /\ before[i].off \in Nat
  BY PlaceOfPush
<1>3. \A i, j \in 1 .. n : i < j => End(before[i]) < before[j].off
  BY PlaceOfPush
<1>4. (k <= n => seg.off <= before[k].off) /\ (k > 1 => before[k - 1].off < seg.off)
  BY PlaceOfPush
<1>5. OnLeft(k) <=> k > 1 /\ seg.off <= End(before[k - 1])
  BY DEF OnLeft
<1>6. ToSet(before) = {before[i] : i \in 1 .. n}
  BY <1>1, SetOf, Around
<1>7. ASSUME NEW i \in 1 .. n
      PROVE  before[i].off < seg.off /\ seg.off <= End(before[i]) <=> OnLeft(k) /\ i = k - 1
  <2>1. CASE i < k - 1
    <3>1. k > 1 /\ k - 1 \in 1 .. n
      BY <2>1, <1>1
    <3>2. End(before[i]) < before[k - 1].off /\ before[k - 1].off < seg.off
      BY <2>1, <3>1, <1>3, <1>4
    <3>3. End(before[i]) \in Nat /\ before[k - 1].off \in Nat
      BY <3>1, <1>2
    <3>4. ~(seg.off <= End(before[i])) /\ i # k - 1
      BY <3>2, <3>3, <1>1, <2>1
    <3> QED  BY <3>4
  <2>2. CASE i = k - 1
    <3>1. k > 1
      BY <2>2, <1>1
    <3> QED  BY <3>1, <2>2, <1>4, <1>5
  <2>3. CASE i >= k
    <3>1. k \in 1 .. n /\ i # k - 1
      BY <2>3, <1>1
    <3>2. seg.off <= before[i].off
      <4>1. CASE i = k
        BY <4>1, <3>1, <1>4
      <4>2. CASE i > k
        <5>1. End(before[k]) < before[i].off /\ before[k].off < End(before[k])
          BY <4>2, <3>1, <1>3, PlaceOfPush
        <5>2. seg.off <= before[k].off
          BY <3>1, <1>4
        <5>3. End(before[k]) \in Nat /\ before[k].off \in Nat /\ before[i].off \in Nat
          BY <3>1, <1>2
        <5> QED  BY <5>1, <5>2, <5>3, <1>1
      <4> QED  BY <4>1, <4>2, <2>3, <1>1
    <3>3. before[i].off \in Nat
      BY <1>2
    <3>4. ~(before[i].off < seg.off)
      BY <3>2, <3>3, <1>1
    <3> QED  BY <3>1, <3>4
  <2> QED  BY <2>1, <2>2, <2>3, <1>1
<1>8. OnLeft(k) => k - 1 \in 1 .. n
  BY <1>1, <1>5
<1> QED  BY <1>6, <1>7, <1>8 DEF Absorber

\* ... and the one at its place the only one on the right.
LEMMA RightNeighbour ==
    ASSUME MergeInv, pc = "combine", NEW n, n = Len(before),
           NEW k \in 1 .. (n + 1), Place(before, seg.off, k)
    PROVE  Absorbed(ToSet(before), seg.off, seg.len) = IF OnRight(k) THEN {before[k]} ELSE {}
<1>1. n \in Nat /\ k \in 1 .. (n + 1) /\ seg.off \in Nat /\ seg.len \in Nat
  BY PlaceOfPush
<1>2. \A i \in 1 .. n : End(before[i]) \in Nat /\ before[i].off \in Nat
  BY PlaceOfPush
<1>3. \A i, j \in 1 .. n : i < j => before[i].off < before[j].off
  <2> SUFFICES ASSUME NEW i \in 1 .. n, NEW j \in 1 .. n, i < j
               PROVE  before[i].off < before[j].off
    OBVIOUS
  <2>1. before[i].off < End(before[i]) /\ End(before[i]) < before[j].off
    BY PlaceOfPush
  <2> QED  BY <2>1, <1>2
<1>4. (k <= n => seg.off <= before[k].off) /\ (k > 1 => before[k - 1].off < seg.off)
  BY PlaceOfPush
<1>5. OnRight(k) <=> k <= n /\ before[k].off <= seg.off + seg.len
  BY PlaceOfPush
<1>6. ToSet(before) = {before[i] : i \in 1 .. n}
  BY <1>1, SetOf, Around
<1>7. \A i \in 1 .. n : seg.off <= before[i].off <=> i >= k
  <2> SUFFICES ASSUME NEW i \in 1 .. n PROVE seg.off <= before[i].off <=> i >= k
    OBVIOUS
  <2>1. CASE i < k
    <3>1. k > 1 /\ k - 1 \in 1 .. n /\ (i = k - 1 \/ i < k - 1)
      BY <2>1, <1>1
    <3>2. before[i].off <= before[k - 1].off
      <4>1. CASE i = k - 1
        BY <4>1, <1>2
      <4>2. CASE i < k - 1
        BY <4>2, <3>1, <1>2, <1>3
      <4> QED  BY <3>1, <4>1, <4>2
    <3>3. before[k - 1].off < seg.off
      BY <3>1, <1>4
    <3>4. ~(seg.off <= before[i].off)
      BY <3>1, <3>2, <3>3, <1>1, <1>2
    <3> QED  BY <3>4, <2>1, <1>1
  <2>2. CASE i >= k
    <3>1. k \in 1 .. n /\ (i = k \/ k < i)
      BY <2>2, <1>1
    <3>2. before[k].off <= before[i].off
      <4>1. CASE i = k
        BY <4>1, <1>2
      <4>2. CASE k < i
        BY <4>2, <3>1, <1>2, <1>3
      <4> QED  BY <3>1, <4>1, <4>2
    <3>3. seg.off <= before[k].off
      BY <3>1, <1>4
    <3>4. seg.off <= before[i].off
      BY <3>1, <3>2, <3>3, <1>1, <1>2
    <3> QED  BY <3>4, <2>2
  <2> QED  BY <2>1, <2>2, <1>1
<1>8. ASSUME NEW i \in 1 .. n
      PROVE  (/\ seg.off <= before[i].off /\ before[i].off <= seg.off + seg.len
              /\ \A x \in ToSet(before) : seg.off <= x.off => before[i].off <= x.off)
                <=> OnRight(k) /\ i = k
  <2>1. CASE i < k
    <3>1. ~(seg.off <= before[i].off) /\ i # k
      BY <2>1, <1>1, <1>7
    <3> QED  BY <3>1
  <2>2. CASE i = k
    <3>1. k <= n /\ seg.off <= before[k].off
      BY <2>2, <1>1, <1>4
    <3>2. \A j \in 1 .. n : seg.off <= before[j].off => before[k].off <= before[j].off
      <4> SUFFICES ASSUME NEW j \in 1 .. n, seg.off <= before[j].off
                   PROVE  before[k].off <= before[j].off
        OBVIOUS
      <4>1. j = k \/ k < j
        BY <1>1, <1>7
      <4> QED  BY <4>1, <2>2, <1>2, <1>3
    <3>3. \A x \in ToSet(before) : seg.off <= x.off => before[k].off <= x.off
      BY <3>2, <1>6
    <3> QED  BY <2>2, <3>1, <3>3, <1>5
  <2>3. CASE i > k
    <3>1. k \in 1 .. n /\ i # k
      BY <2>3, <1>1
    <3>2. seg.off <= before[k].off /\ before[k] \in ToSet(before) /\ before[k].off < before[i].off
      BY <2>3, <3>1, <1>3, <1>4, <1>6
    <3>3. ~(before[i].off <= before[k].off)
      BY <3>1, <3>2, <1>2
    <3> QED  BY <3>1, <3>2, <3>3
  <2> QED  BY <2>1, <2>2, <2>3, <1>1
<1>9. OnRight(k) => k \in 1 .. n
  BY <1>1, <1>5
<1> QED  BY <1>6, <1>8, <1>9 DEF Absorbed

\* What PushBlock makes of the list before the push, in its four cases.
LEMMA PushedSet ==
    ASSUME MergeInv, pc = "combine", NEW n, n = Len(before),
           NEW k \in 1 .. (n + 1), Place(before, seg.off, k),
           NEW S, S = {before[i] : i \in 1 .. n}
    PROVE  PushBlock(ToSet(before), seg.off, seg.len) =
              IF OnLeft(k)
              THEN IF OnRight(k)
                   THEN (S \ {before[k - 1], before[k]})
                           \cup {Combine(Combine(before[k - 1], Fresh), before[k])}
                   ELSE (S \ {before[k - 1]}) \cup {Combine(before[k - 1], Fresh)}
              ELSE IF OnRight(k)
                   THEN (S \ {before[k]}) \cup {Combine(Fresh, before[k])}
                   ELSE S \cup {Fresh}
<1>1. ToSet(before) = S
  BY SetOf, Around, PlaceOfPush
<1>2. Absorber(S, seg.off) = IF OnLeft(k) THEN {before[k - 1]} ELSE {}
  BY <1>1, LeftNeighbour
<1>3. Absorbed(S, seg.off, seg.len) = IF OnRight(k) THEN {before[k]} ELSE {}
  BY <1>1, RightNeighbour
<1>4. \A x : (CHOOSE y \in {x} : TRUE) = x /\ {x} # {}
  OBVIOUS
<1>5. CASE OnLeft(k) /\ OnRight(k)
  <2>1. Absorber(S, seg.off) = {before[k - 1]} /\ Absorbed(S, seg.off, seg.len) = {before[k]}
    BY <1>2, <1>3, <1>5
  <2>2. PushBlock(S, seg.off, seg.len) =
          (S \ ({before[k - 1]} \cup {before[k]}))
             \cup {Combine(Combine(before[k - 1], Fresh), before[k])}
    BY <2>1, <1>4 DEF PushBlock, Fresh
  <2> QED  BY <1>1, <1>5, <2>2
<1>6. CASE OnLeft(k) /\ ~OnRight(k)
  <2>1. Absorber(S, seg.off) = {before[k - 1]} /\ Absorbed(S, seg.off, seg.len) = {}
    BY <1>2, <1>3, <1>6
  <2>2. PushBlock(S, seg.off, seg.len) =
          (S \ ({before[k - 1]} \cup {})) \cup {Combine(before[k - 1], Fresh)}
    BY <2>1, <1>4 DEF PushBlock, Fresh
  <2> QED  BY <1>1, <1>6, <2>2
<1>7. CASE ~OnLeft(k) /\ OnRight(k)
  <2>1. Absorber(S, seg.off) = {} /\ Absorbed(S, seg.off, seg.len) = {before[k]}
    BY <1>2, <1>3, <1>7
  <2>2. PushBlock(S, seg.off, seg.len) =
          (S \ ({} \cup {before[k]})) \cup {Combine(Fresh, before[k])}
    BY <2>1, <1>4 DEF PushBlock, Fresh
  <2> QED  BY <1>1, <1>7, <2>2
<1>8. CASE ~OnLeft(k) /\ ~OnRight(k)
  <2>1. Absorber(S, seg.off) = {} /\ Absorbed(S, seg.off, seg.len) = {}
    BY <1>2, <1>3, <1>8
  <2>2. PushBlock(S, seg.off, seg.len) = (S \ ({} \cup {})) \cup {Fresh}
    BY <2>1 DEF PushBlock, Fresh
  <2> QED  BY <1>1, <1>8, <2>2
<1> QED  BY <1>5, <1>6, <1>7, <1>8

\* Once a walk has combined nothing the list holds what PushBlock states: the loops of
\* connection_push compute it for every list they can find and every segment.
THEOREM LoopsPushTheBlock == Spec => []LoopIsPushBlock
<1>1. MergeInv => LoopIsPushBlock
  <2> SUFFICES ASSUME MergeInv, pc = "combine", b > Len(list), ~a
               PROVE  ToSet(list) = PushBlock(ToSet(before), seg.off, seg.len)
    BY DEF LoopIsPushBlock
  <2>1. PICK k \in 1 .. (Len(before) + 1) : Pushed(k)
    BY DEF MergeInv
  <2>2. PICK n : n = Len(before)
    OBVIOUS
  <2>3. PICK S : S = {before[i] : i \in 1 .. n}
    OBVIOUS
  <2>4. k \in 1 .. (n + 1) /\ Place(before, seg.off, k) /\ n \in Nat /\ list \in Seq(Block)
    BY <2>1, <2>2, Around DEF Pushed
  <2>5. PushBlock(ToSet(before), seg.off, seg.len) =
          IF OnLeft(k)
          THEN IF OnRight(k)
               THEN (S \ {before[k - 1], before[k]})
                       \cup {Combine(Combine(before[k - 1], Fresh), before[k])}
               ELSE (S \ {before[k - 1]}) \cup {Combine(before[k - 1], Fresh)}
          ELSE IF OnRight(k)
               THEN (S \ {before[k]}) \cup {Combine(Fresh, before[k])}
               ELSE S \cup {Fresh}
    BY <2>2, <2>3, <2>4, PushedSet
  <2>6. \A i, j \in 1 .. n : before[i] = before[j] => i = j
    <3>1. \A i, j \in 1 .. n : i < j => End(before[i]) < before[j].off
      BY <2>2, <2>4, PlaceOfPush
    <3>2. \A i \in 1 .. n : /\ before[i].off \in Nat /\ End(before[i]) \in Nat
                            /\ before[i].off < End(before[i])
      BY <2>2, <2>4, PlaceOfPush
    <3> QED  BY <3>1, <3>2
  <2>7. CASE Inserted(k)
    <3>1. ~OnLeft(k) /\ ~OnRight(k)
      BY <2>2, <2>4, <2>7, WalkedThrough
    <3>2. /\ Len(list) = n + 1 /\ list[k] = Fresh
          /\ \A i \in 1 .. (k - 1) : list[i] = before[i]
          /\ \A i \in (k + 1) .. (n + 1) : list[i] = before[i - 1]
      BY <2>2, <2>4, <2>7, InsertedShape
    <3>3. ToSet(list) = {list[i] : i \in 1 .. (n + 1)}
      BY <2>4, <3>2, SetOf
    <3>4. \A i \in 1 .. (n + 1) : list[i] \in S \cup {Fresh}
      <4> SUFFICES ASSUME NEW i \in 1 .. (n + 1) PROVE list[i] \in S \cup {Fresh}
        OBVIOUS
      <4>1. \/ i \in 1 .. (k - 1) /\ i \in 1 .. n
            \/ i = k
            \/ i \in (k + 1) .. (n + 1) /\ i - 1 \in 1 .. n
        BY <2>4
      <4> QED  BY <4>1, <2>3, <3>2
    <3>5. \A i \in 1 .. n : before[i] \in ToSet(list)
      <4> SUFFICES ASSUME NEW i \in 1 .. n PROVE before[i] \in ToSet(list)
        OBVIOUS
      <4>1. \/ i \in 1 .. (k - 1) /\ i \in 1 .. (n + 1)
            \/ i + 1 \in (k + 1) .. (n + 1) /\ (i + 1) - 1 = i /\ i + 1 \in 1 .. (n + 1)
        BY <2>4
      <4>2. \/ before[i] = list[i] /\ i \in 1 .. (n + 1)
            \/ before[i] = list[i + 1] /\ i + 1 \in 1 .. (n + 1)
        BY <4>1, <3>2
      <4> QED  BY <4>2, <3>3
    <3>6. Fresh \in ToSet(list)
      BY <2>4, <3>2, <3>3
    <3>7. ToSet(list) = S \cup {Fresh}
      BY <2>3, <3>3, <3>4, <3>5, <3>6
    <3> QED  BY <3>1, <3>7, <2>5
  <2>8. CASE JoinedLeft(k)
    <3>1. OnLeft(k) /\ ~OnRight(k)
      BY <2>2, <2>4, <2>8, WalkedThrough DEF JoinedLeft
    <3>2. /\ Len(list) = n /\ list[k - 1] = Combine(before[k - 1], Fresh)
          /\ \A i \in 1 .. n : i # k - 1 => list[i] = before[i]
      BY <2>2, <2>4, <2>8, JoinedLeftShape
    <3>3. ToSet(list) = {list[i] : i \in 1 .. n}
      BY <2>4, <3>2, SetOf
    <3>4. k - 1 \in 1 .. n
      BY <2>4, <3>1 DEF OnLeft
    <3>5. ToSet(list) = (S \ {before[k - 1]}) \cup {Combine(before[k - 1], Fresh)}
      <4>1. \A i \in 1 .. n :
               list[i] \in (S \ {before[k - 1]}) \cup {Combine(before[k - 1], Fresh)}
        BY <2>3, <2>6, <3>2, <3>4
      <4>2. \A x \in S \ {before[k - 1]} : x \in ToSet(list)
        BY <2>3, <3>2, <3>3
      <4>3. Combine(before[k - 1], Fresh) \in ToSet(list)
        BY <3>2, <3>3, <3>4
      <4> QED  BY <3>3, <4>1, <4>2, <4>3
    <3> QED  BY <3>1, <3>5, <2>5
  <2>9. CASE JoinedRight(k)
    <3>1. ~OnLeft(k) /\ OnRight(k)
      BY <2>9 DEF JoinedRight
    <3>2. /\ Len(list) = n /\ list[k] = Combine(Fresh, before[k])
          /\ \A i \in 1 .. n : i # k => list[i] = before[i]
      BY <2>2, <2>4, <2>9, JoinedRightShape
    <3>3. ToSet(list) = {list[i] : i \in 1 .. n}
      BY <2>4, <3>2, SetOf
    <3>4. k \in 1 .. n
      BY <2>2, <2>4, <3>1 DEF OnRight
    <3>5. ToSet(list) = (S \ {before[k]}) \cup {Combine(Fresh, before[k])}
      <4>1. \A i \in 1 .. n : list[i] \in (S \ {before[k]}) \cup {Combine(Fresh, before[k])}
        BY <2>3, <2>6, <3>2, <3>4
      <4>2. \A x \in S \ {before[k]} : x \in ToSet(list)
        BY <2>3, <3>2, <3>3
      <4>3. Combine(Fresh, before[k]) \in ToSet(list)
        BY <3>2, <3>3, <3>4
      <4> QED  BY <3>3, <4>1, <4>2, <4>3
    <3> QED  BY <3>1, <3>5, <2>5
  <2>10. CASE JoinedBoth(k)
    <3>1. OnLeft(k) /\ OnRight(k)
      BY <2>10 DEF JoinedBoth
    <3>2. PICK w : w = Combine(Combine(before[k - 1], Fresh), before[k])
      OBVIOUS
    <3>3. /\ Len(list) = n - 1 /\ list[k - 1] = w
          /\ \A i \in 1 .. (k - 2) : list[i] = before[i]
          /\ \A i \in k .. (n - 1) : list[i] = before[i + 1]
      BY <2>2, <2>4, <2>10, <3>2, JoinedBothShape
    <3>4. k - 1 \in 1 .. n /\ k \in 1 .. n /\ k - 1 \in 1 .. (n - 1) /\ n - 1 \in Nat
      BY <2>2, <2>4, <3>1 DEF OnLeft, OnRight
    <3>5. ToSet(list) = {list[i] : i \in 1 .. (n - 1)}
      BY <2>4, <3>3, <3>4, SetOf
    <3>6. ToSet(list) = (S \ {before[k - 1], before[k]}) \cup {w}
      <4>1. ASSUME NEW i \in 1 .. (n - 1)
            PROVE  list[i] \in (S \ {before[k - 1], before[k]}) \cup {w}
        <5>1. \/ i \in 1 .. (k - 2) /\ i \in 1 .. n /\ i # k - 1 /\ i # k
              \/ i = k - 1
              \/ i \in k .. (n - 1) /\ i + 1 \in 1 .. n /\ i + 1 # k - 1 /\ i + 1 # k
          BY <2>4, <3>4
        <5> QED  BY <5>1, <2>3, <2>6, <3>3, <3>4
      <4>2. ASSUME NEW i \in 1 .. n, i # k - 1, i # k
            PROVE  before[i] \in ToSet(list)
        <5>1. \/ i \in 1 .. (k - 2) /\ i \in 1 .. (n - 1)
              \/ i - 1 \in k .. (n - 1) /\ (i - 1) + 1 = i /\ i - 1 \in 1 .. (n - 1)
          BY <2>4, <3>4, <4>2
        <5>2. \/ before[i] = list[i] /\ i \in 1 .. (n - 1)
              \/ before[i] = list[i - 1] /\ i - 1 \in 1 .. (n - 1)
          BY <5>1, <3>3
        <5> QED  BY <5>2, <3>5
      <4>3. \A x \in S \ {before[k - 1], before[k]} : x \in ToSet(list)
        BY <2>3, <4>2
      <4>4. w \in ToSet(list)
        BY <3>3, <3>4, <3>5
      <4> QED  BY <3>5, <4>1, <4>3, <4>4
    <3> QED  BY <3>1, <3>2, <3>6, <2>5
  <2> QED  BY <2>1, <2>7, <2>8, <2>9, <2>10 DEF Pushed
<1> QED  BY <1>1, MergeInvariance, PTL
=============================================================================
