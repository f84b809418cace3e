---------------------------- MODULE ArrivalProofs ----------------------------
(***************************************************************************)
(* Proofs about the search for media.  First the finders: what each does   *)
(* with any bytes at all, right or wrong - its loops end, where the search *)
(* resumes and what it found lie within the data (as far as they do).      *)
(* Then the headers: without extensions, data are read where they are.     *)
(* Then the search: whatever arrives, in whatever segments and frames, it  *)
(* goes forward and what it dispatches is there, each file behind the one  *)
(* before.  And in streams of PNGs, of JPEGs or of WebPs (Pictures), every *)
(* call of the finder is right and every file is found, whole and once,    *)
(* however the stream is cut into segments.                                *)
(***************************************************************************)
EXTENDS Arrival, ProofLemmas

-----------------------------------------------------------------------------
(* The finders. *)

\* The places of a walk over numbers are these numbers.
Place == [x \in Nat |-> x]

\* A byte is a number below 256, and 0 behind the data.
LEMMA AtIsByte ==
    ASSUME NEW m \in Seq(Byte), NEW i \in Nat
    PROVE  At(m, i) \in Nat /\ At(m, i) < 256 /\ (At(m, i) # 0 => i < Len(m))
<1>1. i < Len(m) => m[i + 1] \in Byte
  OBVIOUS
<1>2. \A x \in Byte : x \in Nat /\ x < 256
  BY DEF Byte
<1>3. Len(m) \in Nat
  OBVIOUS
<1> QED  BY <1>1, <1>2, <1>3 DEF At

\* A number of four bytes.
LEMMA Uint32IsNat ==
    ASSUME NEW m \in Seq(Byte), NEW i \in Nat
    PROVE  Uint32(m, i) \in Nat /\ Uint32LE(m, i) \in Nat
<1>1. i + 1 \in Nat /\ i + 2 \in Nat /\ i + 3 \in Nat
  OBVIOUS
<1>2. /\ At(m, i) \in Nat /\ At(m, i + 1) \in Nat /\ At(m, i + 2) \in Nat
      /\ At(m, i + 3) \in Nat
  BY <1>1, AtIsByte
<1>3. ASSUME NEW a \in Nat, NEW b \in Nat, NEW c \in Nat, NEW d \in Nat
      PROVE  ((a * 256 + b) * 256 + c) * 256 + d \in Nat
  OBVIOUS
<1>4. Uint32(m, i) \in Nat
  BY <1>2, <1>3, SMTT(30) DEF Uint32
<1>5. Uint32LE(m, i) \in Nat
  BY <1>2, <1>3, SMTT(30) DEF Uint32LE
<1> QED  BY <1>4, <1>5

\* memstr finds the first occurrence, within the part it is given.
LEMMA MemstrFinds ==
    ASSUME NEW m, NEW from \in Nat, NEW to \in Nat, NEW s, Len(s) \in Nat
    PROVE  LET p == Memstr(m, from, to, s)
           IN  \/ p = NONE_AT /\ \A i \in from .. to - Len(s) : ~Occurs(m, i, s)
               \/ /\ p \in from .. to - Len(s) /\ Occurs(m, p, s)
                  /\ \A i \in from .. p - 1 : ~Occurs(m, i, s)
<1> DEFINE hits == {i \in from .. to - Len(s) : Occurs(m, i, s)}
           p == Memstr(m, from, to, s)
<1>1. p = IF hits = {} THEN NONE_AT ELSE Min(hits)
  BY DEF Memstr
<1>2. CASE hits = {}
  BY <1>1, <1>2
<1>3. CASE hits # {}
  <2>1. hits \in SUBSET Nat
    OBVIOUS
  <2>2. \E x \in hits : \A y \in hits : x <= y
    <3> HIDE DEF hits
    <3> QED  BY <1>3, <2>1, SmallestExists
  <2>3. Min(hits) \in hits /\ \A y \in hits : Min(hits) <= y
    BY <2>2 DEF Min
  <2>4. p \in hits /\ \A y \in hits : p <= y
    BY <1>1, <1>3, <2>3
  <2>5. p \in from .. to - Len(s) /\ Occurs(m, p, s)
    BY <2>4
  <2>6. \A i \in from .. p - 1 : ~Occurs(m, i, s)
    <3> SUFFICES ASSUME NEW i \in from .. p - 1, Occurs(m, i, s) PROVE FALSE
      OBVIOUS
    <3>1. i \in hits
      BY <2>5
    <3> QED  BY <2>4, <2>5, <3>1
  <2> QED  BY <2>5, <2>6
<1> QED  BY <1>2, <1>3

\* What memstr finds lies within the data it was given.
LEMMA MemstrWithin ==
    ASSUME NEW m, NEW from \in Nat, NEW to \in Nat, NEW s, Len(s) \in Nat
    PROVE  \/ Memstr(m, from, to, s) = NONE_AT
           \/ Memstr(m, from, to, s) \in from .. to - Len(s)
BY MemstrFinds

\* The end find_png_eoi finds lies within the data, behind the first chunk.
LEMMA PngEndWithin ==
    ASSUME NEW m \in Seq(Byte), NEW h \in Nat
    PROVE  PngEnd(m, h) = NONE_AT \/ PngEnd(m, h) \in (h + 20) .. Len(m)
<1> DEFINE len == Len(m) - h
           stop == {d \in Nat : \/ d > len - 12
                                \/ SubSeq(m, h + d + 5, h + d + 8) \in IEND
                                \/ Uint32(m, h + d) > len - d}
           val == [d \in Nat |-> IF d > len - 12 \/ SubSeq(m, h + d + 5, h + d + 8) \notin IEND
                                 THEN NONE_AT ELSE h + d + 12]
           nxt == [d \in Nat |-> d + 12 + Uint32(m, h + d)]
           I == {d \in Nat : d >= 8}
<1>1. \A d \in Nat : Uint32(m, h + d) \in Nat
  <2>1. \A d \in Nat : h + d \in Nat
    OBVIOUS
  <2> QED  BY <2>1, Uint32IsNat
<1>2. len \in Int /\ Len(m) \in Nat
  OBVIOUS
<1>3. Walk(Nat, Place, Len(m), stop, nxt)
  <2>1. nxt \in [Nat -> Nat] /\ stop \in SUBSET Nat
    BY <1>1
  <2>2. ASSUME NEW d \in Nat, d \notin stop PROVE d < nxt[d] /\ d < Len(m)
    BY <1>1, <1>2, <2>2
  <2> QED  BY <1>2, <2>1, <2>2 DEF Walk, Place
<1>4. \A f : \A d \in Nat : PngChunk(m, h, f, d) = IF d \in stop THEN val[d] ELSE f[nxt[d]]
  BY DEF PngChunk
<1>5. StaysIn(I, Nat, stop, nxt) /\ 8 \in I
  <2>1. ASSUME NEW d \in I PROVE nxt[d] \in I
    <3>1. Uint32(m, h + d) \in Nat /\ d \in Nat /\ d >= 8
      BY <1>1
    <3>2. d + 12 + Uint32(m, h + d) \in I
      BY <3>1
    <3> QED  BY <3>1, <3>2
  <2>2. I \in SUBSET Nat /\ 8 \in I
    OBVIOUS
  <2> QED  BY <2>1, <2>2 DEF StaysIn
<1>6. \A d \in I : val[d] = NONE_AT \/ val[d] \in (h + 20) .. Len(m)
  BY <1>2
<1> HIDE DEF stop, val, nxt, I
<1>7. \E g : g = [d \in Nat |-> PngChunk(m, h, g, d)]
  <2>1. PICK g : Follows(g, Nat, stop, val, nxt)
    BY <1>3, WalkExists
  <2> QED  BY <1>4, <2>1 DEF Follows
<1>8. PICK f : f = [d \in Nat |-> PngChunk(m, h, f, d)] /\ PngEnd(m, h) = f[8]
  BY <1>7 DEF PngEnd
<1>9. Follows(f, Nat, stop, val, nxt)
  BY <1>4, <1>8 DEF Follows
<1>10. PICK d \in I : f[8] = val[d]
  <2>1. WalksFrom(8, Nat, Place, Len(m), stop, val, nxt, f, I)
    BY <1>3, <1>5, <1>9 DEF WalksFrom
  <2>2. EndsIn(8, stop, val, f, I)
    BY <2>1, WalkEnds
  <2> QED  BY <2>2 DEF EndsIn
<1> QED  BY <1>6, <1>8, <1>10

-----------------------------------------------------------------------------
\* A segment's length is a number of bytes.
LEMMA SegmentLenIsNat ==
    ASSUME NEW m \in Seq(Byte), NEW b \in Nat
    PROVE  SegmentLen(m, b) \in Nat
<1>1. At(m, b + 2) \in Nat /\ At(m, b + 3) \in Nat
  <2>1. b + 2 \in Nat /\ b + 3 \in Nat
    OBVIOUS
  <2> QED  BY <2>1, AtIsByte
<1>2. 256 * At(m, b + 2) + At(m, b + 3) + 2 \in Nat
  BY <1>1
<1>3. SegmentLen(m, b) \in {0, 4, 8, 256 * At(m, b + 2) + At(m, b + 3) + 2}
  BY DEF SegmentLen
<1> QED  BY <1>2, <1>3

\* The loop over segments finds nothing, or an image that begins at the marker
\* and ends within the data.
LEMMA JpegSegmentsWithin ==
    ASSUME NEW m \in Seq(Byte), NEW h \in Nat
    PROVE  \/ JpegSegments(m, h) = Nothing(h)
           \/ \E e \in (h + 4) .. Len(m) : JpegSegments(m, h) = Got(h, e)
<1> DEFINE n == Len(m)
           end(c) == Memstr(m, c, n, EOI)
           stop == {c \in Nat : n < c \/ At(m, c + 1) = SOS \/ SegmentLen(m, c) = 0}
           val == [c \in Nat |-> IF ~(n < c) /\ At(m, c + 1) = SOS /\ end(c) # NONE_AT
                                 THEN Got(h, end(c) + 2) ELSE Nothing(h)]
           nxt == [c \in Nat |-> c + SegmentLen(m, c)]
           I == {c \in Nat : c >= h + 2}
<1>1. n \in Nat /\ \A c \in Nat : SegmentLen(m, c) \in Nat
  BY SegmentLenIsNat
<1>2. Walk(Nat, Place, n + 1, stop, nxt)
  <2>1. nxt \in [Nat -> Nat] /\ stop \in SUBSET Nat
    BY <1>1, SMTT(30)
  <2>2. ASSUME NEW c \in Nat, c \notin stop PROVE c < nxt[c] /\ c < n + 1
    <3>1. SegmentLen(m, c) \in Nat /\ SegmentLen(m, c) # 0 /\ ~(n < c)
      BY <1>1, <2>2
    <3>2. c < c + SegmentLen(m, c) /\ c < n + 1
      BY <1>1, <3>1, SMTT(30)
    <3> QED  BY <3>2
  <2>3. n + 1 \in Nat
    BY <1>1
  <2> HIDE DEF n, stop, nxt
  <2> QED  BY <2>1, <2>2, <2>3 DEF Walk, Place
<1>3. \A f : \A c \in Nat : JpegSegment(m, h, f, c) = IF c \in stop THEN val[c] ELSE f[nxt[c]]
  BY DEF JpegSegment
<1>4. StaysIn(I, Nat, stop, nxt) /\ h + 2 \in I
  <2>1. ASSUME NEW c \in I PROVE nxt[c] \in I
    <3>1. SegmentLen(m, c) \in Nat /\ c \in Nat /\ c >= h + 2
      BY <1>1
    <3>2. c + SegmentLen(m, c) \in I
      BY <3>1
    <3> QED  BY <3>1, <3>2
  <2>2. I \in SUBSET Nat /\ h + 2 \in I
    OBVIOUS
  <2> QED  BY <2>1, <2>2 DEF StaysIn
<1>5. ASSUME NEW c \in I
      PROVE  val[c] = Nothing(h) \/ \E e \in (h + 4) .. Len(m) : val[c] = Got(h, e)
  <2>1. c \in Nat /\ c >= h + 2
    OBVIOUS
  <2>2. end(c) = NONE_AT \/ end(c) \in c .. n - 2
    <3>1. Len(EOI) = 2
      BY DEF EOI
    <3> HIDE DEF n
    <3>2. \/ Memstr(m, c, n, EOI) = NONE_AT
          \/ Memstr(m, c, n, EOI) \in c .. n - Len(EOI)
      <4>1. Len(EOI) \in Nat
        BY <3>1
      <4> QED  BY <1>1, <2>1, <4>1, MemstrWithin
    <3> QED  BY <3>1, <3>2
  <2> HIDE DEF end
  <2>3. CASE val[c] = Nothing(h)
    BY <2>3
  <2>4. CASE val[c] = Got(h, end(c) + 2) /\ end(c) # NONE_AT
    <3>0. end(c) \in c .. n - 2
      BY <2>2, <2>4
    <3>1. end(c) + 2 \in (h + 4) .. Len(m)
      <4>1. PICK e : e = end(c)
        OBVIOUS
      <4>2. e \in c .. n - 2
        BY <3>0, <4>1
      <4>3. e + 2 \in (h + 4) .. Len(m)
        BY <1>1, <2>1, <4>2
      <4> QED  BY <4>1, <4>3
    <3> QED  BY <2>4, <3>1
  <2> QED  BY <2>1, <2>3, <2>4
<1> HIDE DEF stop, val, nxt, I
<1>6. \E g : g = [c \in Nat |-> JpegSegment(m, h, g, c)]
  <2>1. PICK g : Follows(g, Nat, stop, val, nxt)
    BY <1>2, WalkExists
  <2> QED  BY <1>3, <2>1 DEF Follows
<1>7. PICK f : f = [c \in Nat |-> JpegSegment(m, h, f, c)] /\ JpegSegments(m, h) = f[h + 2]
  BY <1>6 DEF JpegSegments
<1>8. Follows(f, Nat, stop, val, nxt)
  BY <1>3, <1>7 DEF Follows
<1>9. PICK c \in I : f[h + 2] = val[c]
  <2>1. WalksFrom(h + 2, Nat, Place, n + 1, stop, val, nxt, f, I)
    BY <1>2, <1>4, <1>8 DEF WalksFrom
  <2>2. EndsIn(h + 2, stop, val, f, I)
    BY <2>1, WalkEnds
  <2> QED  BY <2>2 DEF EndsIn
<1> QED  BY <1>5, <1>7, <1>9

-----------------------------------------------------------------------------
\* A colour table has a length.
LEMMA TableLenIsNat == ASSUME NEW b \in Nat PROVE TableLen(b) \in Nat
<1>1. PICK j \in 1 .. 8 : j = (b % 8) + 1
  OBVIOUS
<1>2. /\ 2 ^ 1 \in Nat /\ 2 ^ 2 \in Nat /\ 2 ^ 3 \in Nat /\ 2 ^ 4 \in Nat
      /\ 2 ^ 5 \in Nat /\ 2 ^ 6 \in Nat /\ 2 ^ 7 \in Nat /\ 2 ^ 8 \in Nat
  OBVIOUS
<1>3. j = 1 \/ j = 2 \/ j = 3 \/ j = 4 \/ j = 5 \/ j = 6 \/ j = 7 \/ j = 8
  OBVIOUS
<1>4. 2 ^ j \in Nat
  BY <1>2, <1>3, Zenon
<1>5. TableLen(b) = 3 * 2 ^ j
  BY <1>1 DEF TableLen
<1> QED  BY <1>4, <1>5

\* The data sub-blocks end behind where they begin, within the data.
LEMMA SubBlocksWithin ==
    ASSUME NEW m \in Seq(Byte), NEW from \in Nat
    PROVE  SubBlocks(m, from) = NONE_AT \/ SubBlocks(m, from) \in (from + 1) .. Len(m) - 1
<1> DEFINE n == Len(m)
           nxt == [b \in Nat |-> b + At(m, b) + 1]
           stop == {b \in Nat : b >= n \/ nxt[b] >= n \/ At(m, nxt[b]) = 0}
           val == [b \in Nat |-> IF b >= n \/ nxt[b] >= n \/ nxt[b] + 1 >= n
                                 THEN NONE_AT ELSE nxt[b] + 1]
           I == {b \in Nat : b >= from}
<1>1. n \in Nat /\ \A b \in Nat : At(m, b) \in Nat /\ nxt[b] \in Nat /\ b < nxt[b]
  <2>1. ASSUME NEW b \in Nat PROVE At(m, b) \in Nat
    BY AtIsByte
  <2>2. ASSUME NEW b \in Nat PROVE nxt[b] \in Nat /\ b < nxt[b]
    <3>1. nxt[b] = b + At(m, b) + 1
      OBVIOUS
    <3> HIDE DEF nxt
    <3>2. At(m, b) \in Nat
      BY <2>1
    <3> QED  BY <3>1, <3>2
  <2>3. n \in Nat
    OBVIOUS
  <2> HIDE DEF nxt
  <2> QED  BY <2>1, <2>2, <2>3
<1>2. nxt \in [Nat -> Nat]
  BY <1>1
<1>3. \A f : \A b \in Nat : SubBlock(m, f, b) = IF b \in stop THEN val[b] ELSE f[nxt[b]]
  BY DEF SubBlock
<1> HIDE DEF nxt
<1>4. Walk(Nat, Place, Len(m), stop, nxt)
  <2>1. ASSUME NEW b \in Nat, b \notin stop PROVE b < nxt[b] /\ b < n
    BY <1>1, <2>1, SMTT(30)
  <2> QED  BY <1>1, <1>2, <2>1 DEF Walk, Place
<1>5. StaysIn(I, Nat, stop, nxt) /\ from \in I
  <2>1. ASSUME NEW b \in I PROVE nxt[b] \in I
    <3>1. nxt[b] \in Nat /\ b \in Nat /\ b >= from /\ b < nxt[b]
      BY <1>1
    <3> QED  BY <3>1
  <2>2. I \in SUBSET Nat /\ from \in I
    OBVIOUS
  <2> QED  BY <2>1, <2>2 DEF StaysIn
<1>6. ASSUME NEW b \in I PROVE val[b] = NONE_AT \/ val[b] \in (from + 1) .. Len(m) - 1
  <2>1. nxt[b] \in Nat /\ b \in Nat /\ b >= from /\ b < nxt[b] /\ n \in Nat
    BY <1>1
  <2> QED  BY <2>1
<1> HIDE DEF stop, val, I
<1>7. \E g : g = [b \in Nat |-> SubBlock(m, g, b)]
  <2>1. PICK g : Follows(g, Nat, stop, val, nxt)
    BY <1>4, WalkExists
  <2> QED  BY <1>3, <2>1 DEF Follows
<1>8. PICK f : f = [b \in Nat |-> SubBlock(m, f, b)] /\ SubBlocks(m, from) = f[from]
  BY <1>7 DEF SubBlocks
<1>9. Follows(f, Nat, stop, val, nxt)
  BY <1>3, <1>8 DEF Follows
<1>10. PICK b \in I : f[from] = val[b]
  <2>1. WalksFrom(from, Nat, Place, Len(m), stop, val, nxt, f, I)
    BY <1>4, <1>5, <1>9 DEF WalksFrom
  <2>2. EndsIn(from, stop, val, f, I)
    BY <2>1, WalkEnds
  <2> QED  BY <2>2 DEF EndsIn
<1> QED  BY <1>6, <1>8, <1>10

\* What a turn of GIF's do loop comes to, whatever the further turns give: it
\* goes on at a place c behind b and within the data, or it ends with r.
GifGoes(m, h, b, c) ==
    c \in Nat /\ b < c /\ c < Len(m) /\ \A f : GifBlock(m, h, f, b) = f[c]
GifStops(m, h, b, r) ==
    /\ r = Nothing(h) \/ r = Nothing(h + 6) \/ (r = Got(h, b + 1) /\ b < Len(m))
    /\ \A f : GifBlock(m, h, f, b) = r
Ahead(b, c) == c = NONE_AT \/ (c \in Nat /\ b < c)
GifThen(m, h, b, c) ==
    \A f : GifBlock(m, h, f, b) = IF c = NONE_AT \/ c >= Len(m) THEN Nothing(h) ELSE f[c]

\* Every turn does one of the two.
LEMMA GifTurn ==
    ASSUME NEW m \in Seq(Byte), NEW h \in Nat, NEW b \in Nat
    PROVE  (\E c : GifGoes(m, h, b, c)) \/ (\E r : GifStops(m, h, b, r))
<1> DEFINE n == Len(m)
           Goal == (\E c : GifGoes(m, h, b, c)) \/ (\E r : GifStops(m, h, b, r))
<1>1. n \in Nat /\ \A i \in Nat : At(m, i) \in Nat
  BY AtIsByte
<1>2. ASSUME NEW c, GifThen(m, h, b, c), Ahead(b, c) PROVE Goal
  <2>1. CASE c = NONE_AT \/ c >= n
    <3>1. \A f : GifBlock(m, h, f, b) = Nothing(h)
      BY <1>2, <2>1 DEF GifThen
    <3>2. GifStops(m, h, b, Nothing(h))
      BY <3>1 DEF GifStops
    <3> QED  BY <3>2
  <2>2. CASE ~(c = NONE_AT \/ c >= n)
    <3>1. \A f : GifBlock(m, h, f, b) = f[c]
      BY <1>2, <2>2 DEF GifThen
    <3>2. c \in Nat /\ b < c /\ c < Len(m)
      BY <1>1, <1>2, <2>2 DEF Ahead
    <3>3. GifGoes(m, h, b, c)
      BY <3>1, <3>2 DEF GifGoes
    <3> QED  BY <3>3
  <2> QED  BY <2>1, <2>2
<1>3. ASSUME NEW r, GifStops(m, h, b, r) PROVE Goal
  BY <1>3
<1>4. ASSUME NEW x \in Nat, b <= x PROVE Ahead(b, SubBlocks(m, x))
  <2>1. PICK e : e = SubBlocks(m, x)
    OBVIOUS
  <2>2. e = NONE_AT \/ e \in (x + 1) .. Len(m) - 1
    BY <2>1, SubBlocksWithin
  <2>3. Ahead(b, e)
    <3>1. CASE e \in (x + 1) .. Len(m) - 1
      <4>1. e \in Int /\ x + 1 <= e
        BY <3>1
      <4>2. e \in Nat /\ b < e
        BY <1>4, <4>1
      <4> QED  BY <4>2 DEF Ahead
    <3>2. CASE e = NONE_AT
      BY <3>2 DEF Ahead
    <3> QED  BY <2>2, <3>1, <3>2
  <2> QED  BY <2>1, <2>3
<1> HIDE DEF n
<1>5. CASE At(m, b) = 44
  <2> DEFINE c == IF At(m, b + 9) < 128 THEN b ELSE b + TableLen(At(m, h + 9))
  <2>1. c \in Nat /\ b <= c
    <3>1. At(m, h + 9) \in Nat
      BY <1>1
    <3>2. TableLen(At(m, h + 9)) \in Nat
      BY <3>1, TableLenIsNat
    <3> QED  BY <3>2
  <2>2. CASE b + 9 > n \/ c >= n
    <3>1. GifStops(m, h, b, Nothing(h))
      BY <1>5, <2>2 DEF GifBlock, n, GifStops
    <3> QED  BY <1>3, <3>1
  <2>3. CASE ~(b + 9 > n \/ c >= n)
    <3>1. GifThen(m, h, b, SubBlocks(m, c + 11))
      BY <1>5, <2>3 DEF GifBlock, n, GifThen
    <3> HIDE DEF c
    <3>2. c + 11 \in Nat /\ b <= c + 11
      BY <2>1
    <3>3. Ahead(b, SubBlocks(m, c + 11))
      BY <1>4, <3>2
    <3> QED  BY <1>2, <3>1, <3>3
  <2> QED  BY <2>2, <2>3
<1>6. CASE At(m, b) = 33
  <2> DEFINE t == At(m, b + 1)
  <2>1. CASE b + 1 >= n \/ (t \in {249, 1, 255} /\ b + 2 >= n)
    <3>1. GifStops(m, h, b, Nothing(h))
      BY <1>6, <2>1 DEF GifBlock, n, GifStops
    <3> QED  BY <1>3, <3>1
  <2>2. CASE ~(b + 1 >= n) /\ ~(t \in {249, 1, 255} /\ b + 2 >= n)
    <3>1. CASE t = 249
      <4>1. GifThen(m, h, b, b + 2 + At(m, b + 2) + 2)
        BY <1>6, <2>2, <3>1 DEF GifBlock, n, GifThen
      <4>2. Ahead(b, b + 2 + At(m, b + 2) + 2)
        <5>1. At(m, b + 2) \in Nat
          BY <1>1
        <5> QED  BY <5>1 DEF Ahead
      <4> QED  BY <1>2, <4>1, <4>2
    <3>2. CASE t = 254
      <4>1. GifThen(m, h, b, SubBlocks(m, b + 2))
        BY <1>6, <2>2, <3>2 DEF GifBlock, n, GifThen
      <4>2. Ahead(b, SubBlocks(m, b + 2))
        <5>1. b + 2 \in Nat /\ b <= b + 2
          OBVIOUS
        <5> QED  BY <1>4, <5>1
      <4> QED  BY <1>2, <4>1, <4>2
    <3>3. CASE t = 1 /\ At(m, b + 2) = 12
      <4>1. GifThen(m, h, b, SubBlocks(m, b + 15))
        BY <1>6, <2>2, <3>3 DEF GifBlock, n, GifThen
      <4>2. Ahead(b, SubBlocks(m, b + 15))
        <5>1. b + 15 \in Nat /\ b <= b + 15
          OBVIOUS
        <5> QED  BY <1>4, <5>1
      <4> QED  BY <1>2, <4>1, <4>2
    <3>4. CASE t = 255 /\ At(m, b + 2) = 11
      <4>1. GifThen(m, h, b, SubBlocks(m, b + 14))
        BY <1>6, <2>2, <3>4 DEF GifBlock, n, GifThen
      <4>2. Ahead(b, SubBlocks(m, b + 14))
        <5>1. b + 14 \in Nat /\ b <= b + 14
          OBVIOUS
        <5> QED  BY <1>4, <5>1
      <4> QED  BY <1>2, <4>1, <4>2
    <3>5. CASE /\ t # 249 /\ t # 254
               /\ ~(t = 1 /\ At(m, b + 2) = 12) /\ ~(t = 255 /\ At(m, b + 2) = 11)
      <4>1. GifStops(m, h, b, Nothing(h + 6))
        BY <1>6, <2>2, <3>5 DEF GifBlock, n, GifStops
      <4> QED  BY <1>3, <4>1
    <3> QED  BY <3>1, <3>2, <3>3, <3>4, <3>5
  <2> QED  BY <2>1, <2>2
<1>7. CASE At(m, b) = 59
  <2>1. \A f : GifBlock(m, h, f, b) = Got(h, b + 1)
    BY <1>7 DEF GifBlock
  <2>2. b < Len(m)
    BY <1>7, AtIsByte
  <2> QED  BY <1>3, <2>1, <2>2 DEF GifStops
<1>8. CASE At(m, b) \notin {44, 33, 59}
  <2>1. GifStops(m, h, b, Nothing(h + 6))
    BY <1>8 DEF GifBlock, GifStops
  <2> QED  BY <1>3, <2>1
<1> QED  BY <1>5, <1>6, <1>7, <1>8 DEF Goal

\* The do loop over blocks finds nothing, or an image that ends with a trailer
\* within the data.
LEMMA GifBlocksWithin ==
    ASSUME NEW m \in Seq(Byte), NEW h \in Nat, NEW from \in Nat
    PROVE  \/ GifBlocks(m, h, from) \in {Nothing(h), Nothing(h + 6)}
           \/ \E b \in Nat : /\ from <= b /\ b < Len(m)
                             /\ GifBlocks(m, h, from) = Got(h, b + 1)
<1> DEFINE stop == {b \in Nat : \A c : ~GifGoes(m, h, b, c)}
           val == [b \in Nat |-> GifBlock(m, h, <<>>, b)]
           nxt == [b \in Nat |-> IF b \in stop THEN 0 ELSE CHOOSE c : GifGoes(m, h, b, c)]
           I == {b \in Nat : from <= b}
<1>1. ASSUME NEW b \in Nat, b \notin stop PROVE GifGoes(m, h, b, nxt[b])
  <2>1. PICK c : GifGoes(m, h, b, c)
    BY <1>1
  <2>2. nxt[b] = CHOOSE x : GifGoes(m, h, b, x)
    BY <1>1
  <2> HIDE DEF nxt
  <2> QED  BY <2>1, <2>2
<1>2. ASSUME NEW b \in stop
      PROVE  /\ \A f : GifBlock(m, h, f, b) = val[b]
             /\ \/ val[b] \in {Nothing(h), Nothing(h + 6)}
                \/ val[b] = Got(h, b + 1) /\ b < Len(m)
  <2>1. PICK r : GifStops(m, h, b, r)
    BY <1>2, GifTurn
  <2>2. \A f : GifBlock(m, h, f, b) = r
    BY <2>1 DEF GifStops
  <2>3. val[b] = GifBlock(m, h, <<>>, b)
    OBVIOUS
  <2>4. val[b] = r
    BY <2>2, <2>3
  <2> HIDE DEF val, stop
  <2> QED  BY <2>1, <2>2, <2>4 DEF GifStops
<1>3. nxt \in [Nat -> Nat]
  <2>1. \A b \in Nat : nxt[b] \in Nat
    <3>1. \A b \in stop : nxt[b] = 0
      OBVIOUS
    <3> HIDE DEF nxt, stop
    <3> QED  BY <1>1, <3>1 DEF GifGoes
  <2> QED  BY <2>1
<1> HIDE DEF nxt, val
<1>4. Walk(Nat, Place, Len(m), stop, nxt)
  <2>1. \A b \in Nat \ stop : b < nxt[b] /\ b < Len(m)
    <3>1. ASSUME NEW b \in Nat, b \notin stop PROVE b < nxt[b] /\ b < Len(m)
      <4>1. PICK c \in Nat : c = nxt[b] /\ b < c /\ c < Len(m)
        BY <1>1, <3>1 DEF GifGoes
      <4> QED  BY <4>1
    <3> QED  BY <3>1
  <2>2. Len(m) \in Nat /\ stop \in SUBSET Nat
    OBVIOUS
  <2> HIDE DEF stop
  <2> QED  BY <1>3, <2>1, <2>2 DEF Walk, Place
<1>5. StaysIn(I, Nat, stop, nxt) /\ from \in I
  <2>1. ASSUME NEW b \in I, b \notin stop PROVE nxt[b] \in I
    <3>1. PICK c \in Nat : c = nxt[b] /\ b < c
      BY <1>1, <2>1 DEF GifGoes
    <3> QED  BY <3>1
  <2>2. I \in SUBSET Nat /\ from \in I
    OBVIOUS
  <2> HIDE DEF stop, I
  <2> QED  BY <2>1, <2>2 DEF StaysIn
<1>6. \A f : \A b \in Nat : GifBlock(m, h, f, b) = IF b \in stop THEN val[b] ELSE f[nxt[b]]
  <2>1. ASSUME NEW f, NEW b \in Nat, b \notin stop PROVE GifBlock(m, h, f, b) = f[nxt[b]]
    BY <1>1, <2>1 DEF GifGoes
  <2> HIDE DEF stop
  <2> QED  BY <1>2, <2>1
<1>7. \A b \in I : b \in Nat /\ from <= b
  OBVIOUS
<1> HIDE DEF stop, I
<1>8. \E g : g = [b \in Nat |-> GifBlock(m, h, g, b)]
  <2>1. PICK g : Follows(g, Nat, stop, val, nxt)
    BY <1>4, WalkExists
  <2> QED  BY <1>6, <2>1 DEF Follows
<1>9. PICK f : f = [b \in Nat |-> GifBlock(m, h, f, b)] /\ GifBlocks(m, h, from) = f[from]
  BY <1>8 DEF GifBlocks
<1>10. Follows(f, Nat, stop, val, nxt)
  BY <1>6, <1>9 DEF Follows
<1>11. PICK b \in I : b \in stop /\ f[from] = val[b]
  <2>1. WalksFrom(from, Nat, Place, Len(m), stop, val, nxt, f, I)
    BY <1>4, <1>5, <1>10 DEF WalksFrom
  <2>2. EndsIn(from, stop, val, f, I)
    BY <2>1, WalkEnds
  <2> QED  BY <2>2 DEF EndsIn
<1> QED  BY <1>2, <1>7, <1>9, <1>11

-----------------------------------------------------------------------------
\* A result that lies within n bytes: the search resumes there, and what was
\* found ends before the place where it resumes.
Within(r, n) ==
    /\ r.next \in 0 .. n /\ r.at \in Nat /\ r.size \in Nat
    /\ r.size # 0 => r.at + r.size <= r.next

\* A result without a file is within the data if its place is.
LEMMA NothingWithin ==
    ASSUME NEW n \in Nat, NEW p \in 0 .. n PROVE Within(Nothing(p), n)
<1>0. PICK r : r = Nothing(p)
  OBVIOUS
<1>1. r.next = p /\ r.at = 0 /\ r.size = 0
  BY <1>0 DEF Nothing
<1>2. Within(r, n)
  BY <1>1 DEF Within
<1> QED  BY <1>0, <1>2

\* So is one with a file, if the file is.
LEMMA GotWithin ==
    ASSUME NEW n \in Nat, NEW h \in Nat, NEW e \in Nat, h <= e, e <= n
    PROVE  Within(Got(h, e), n)
<1>0. PICK r : r = Got(h, e)
  OBVIOUS
<1>1. r.next = e /\ r.at = h /\ r.size = e - h
  BY <1>0 DEF Got
<1>2. Within(r, n)
  BY <1>1 DEF Within
<1> QED  BY <1>0, <1>2

\* find_png_image stays within what it is given.
LEMMA PngWithin ==
    ASSUME NEW m \in Seq(Byte) PROVE Within(FindPng(m), Len(m))
<1> DEFINE n == Len(m)
           h == Memstr(m, 0, n, PNG)
<1>1. n \in Nat
  OBVIOUS
<1>2. Len(PNG) = 8 /\ Len(PNG) \in Nat
  BY DEF PNG
<1>3. h = NONE_AT \/ h \in 0 .. n - 8
  <2> HIDE DEF n
  <2>1. h = NONE_AT \/ h \in 0 .. n - Len(PNG)
    BY <1>1, <1>2, MemstrWithin
  <2> QED  BY <1>2, <2>1
<1>4. CASE n < 8
  <2>1. FindPng(m) = Nothing(0)
    BY <1>4 DEF FindPng
  <2> QED  BY <1>1, <2>1, NothingWithin
<1>5. CASE ~(n < 8) /\ h = NONE_AT
  <2>1. FindPng(m) = Nothing(n - 8)
    BY <1>5 DEF FindPng
  <2>2. n - 8 \in 0 .. n
    BY <1>1, <1>5
  <2> HIDE DEF n
  <2>3. Within(Nothing(n - 8), n)
    BY <1>1, <2>2, NothingWithin
  <2> QED  BY <2>1, <2>3 DEF n
<1>6. CASE ~(n < 8) /\ h \in 0 .. n - 8
  <2>1. FindPng(m) = IF PngEnd(m, h) = NONE_AT THEN Nothing(h) ELSE Got(h, PngEnd(m, h))
    <3>1. h # NONE_AT
      BY <1>6 DEF NONE_AT
    <3> QED  BY <1>6, <3>1 DEF FindPng
  <2>2. PICK k : k = h
    OBVIOUS
  <2>3. k \in Nat /\ k <= Len(m)
    BY <1>1, <1>6, <2>2
  <2>4. PICK e : e = PngEnd(m, k)
    OBVIOUS
  <2>5. e = NONE_AT \/ e \in (k + 20) .. Len(m)
    BY <2>3, <2>4, PngEndWithin
  <2>6. CASE e = NONE_AT
    <3>1. Within(Nothing(k), Len(m))
      BY <1>1, <2>3, NothingWithin
    <3> HIDE DEF h
    <3> QED  BY <2>1, <2>2, <2>4, <2>6, <3>1
  <2>7. CASE e \in (k + 20) .. Len(m)
    <3>1. e \in Nat /\ k <= e /\ e <= Len(m) /\ e # NONE_AT
      BY <1>1, <2>3, <2>7 DEF NONE_AT
    <3>2. Within(Got(k, e), Len(m))
      BY <1>1, <2>3, <3>1, GotWithin
    <3> HIDE DEF h
    <3> QED  BY <2>1, <2>2, <2>4, <3>1, <3>2
  <2> QED  BY <2>5, <2>6, <2>7
<1> QED  BY <1>3, <1>4, <1>5, <1>6

\* So does find_jpeg_image, when there is a byte.
LEMMA JpegWithin ==
    ASSUME NEW m \in Seq(Byte), Len(m) > 0 PROVE Within(FindJpeg(m), Len(m))
<1> DEFINE n == Len(m)
           h == Memstr(m, 0, n, SOI)
<1>1. n \in Nat /\ n > 0
  OBVIOUS
<1>2. Len(SOI) = 2
  BY DEF SOI
<1>3. h = NONE_AT \/ h \in 0 .. n - 2
  <2> HIDE DEF n
  <2>1. h = NONE_AT \/ h \in 0 .. n - Len(SOI)
    <3>1. Len(SOI) \in Nat
      BY <1>2
    <3> QED  BY <1>1, <3>1, MemstrWithin
  <2> QED  BY <1>2, <2>1
<1>4. CASE h = NONE_AT
  <2>1. FindJpeg(m) = Nothing(n - 1)
    BY <1>4 DEF FindJpeg
  <2>2. n - 1 \in 0 .. n
    BY <1>1
  <2> HIDE DEF n
  <2>3. Within(Nothing(n - 1), n)
    BY <1>1, <2>2, NothingWithin
  <2> QED  BY <2>1, <2>3 DEF n
<1>5. CASE h \in 0 .. n - 2
  <2>1. FindJpeg(m) = JpegSegments(m, h)
    <3>1. h # NONE_AT
      BY <1>5 DEF NONE_AT
    <3> QED  BY <3>1 DEF FindJpeg
  <2>2. PICK k : k = h
    OBVIOUS
  <2>3. k \in Nat /\ k <= Len(m)
    BY <1>1, <1>5, <2>2
  <2>4. \/ JpegSegments(m, k) = Nothing(k)
        \/ \E e \in (k + 4) .. Len(m) : JpegSegments(m, k) = Got(k, e)
    BY <2>3, JpegSegmentsWithin
  <2>5. Within(Nothing(k), Len(m))
    BY <1>1, <2>3, NothingWithin
  <2>6. ASSUME NEW e \in (k + 4) .. Len(m) PROVE Within(Got(k, e), Len(m))
    <3>1. e \in Nat /\ k <= e /\ e <= Len(m)
      BY <1>1, <2>3
    <3> QED  BY <1>1, <2>3, <3>1, GotWithin
  <2> HIDE DEF h
  <2> QED  BY <2>1, <2>2, <2>4, <2>5, <2>6
<1> QED  BY <1>3, <1>4, <1>5

\* So does find_gif_image.
LEMMA GifWithin ==
    ASSUME NEW m \in Seq(Byte) PROVE Within(FindGif(m), Len(m))
<1> DEFINE n == Len(m)
           new == Memstr(m, 0, n, GIF89a)
           h == IF new # NONE_AT THEN new ELSE Memstr(m, 0, n, GIF87a)
           block == h + 13 + IF At(m, h + 10) < 128 THEN 0 ELSE TableLen(At(m, h + 10))
<1>1. n \in Nat
  OBVIOUS
<1>2. /\ Len(GIF89a) = 6 /\ Len(GIF89a) \in Nat
      /\ Len(GIF87a) = 6 /\ Len(GIF87a) \in Nat
  BY DEF GIF89a, GIF87a
<1>3. h = NONE_AT \/ h \in 0 .. n - 6
  <2> HIDE DEF n
  <2>1. new = NONE_AT \/ new \in 0 .. n - Len(GIF89a)
    BY <1>1, <1>2, MemstrWithin
  <2>2. \/ Memstr(m, 0, n, GIF87a) = NONE_AT
        \/ Memstr(m, 0, n, GIF87a) \in 0 .. n - Len(GIF87a)
    BY <1>1, <1>2, MemstrWithin
  <2> QED  BY <1>2, <2>1, <2>2
<1>4. FindGif(m) = IF n < 6 THEN Nothing(0)
                   ELSE IF h = NONE_AT THEN Nothing(n - 6)
                   ELSE IF n - h < 14 \/ block >= n THEN Nothing(h)
                   ELSE GifBlocks(m, h, block)
  BY DEF FindGif
<1> HIDE DEF block, h, new
<1>5. CASE n < 6
  <2>1. FindGif(m) = Nothing(0)
    BY <1>4, <1>5
  <2> QED  BY <1>1, <2>1, NothingWithin
<1>6. CASE ~(n < 6) /\ h = NONE_AT
  <2>1. FindGif(m) = Nothing(n - 6)
    BY <1>4, <1>6
  <2>2. n - 6 \in 0 .. n
    BY <1>1, <1>6
  <2> HIDE DEF n
  <2>3. Within(Nothing(n - 6), n)
    BY <1>1, <2>2, NothingWithin
  <2> QED  BY <2>1, <2>3 DEF n
<1>7. CASE ~(n < 6) /\ h \in 0 .. n - 6
  <2>1. h \in Nat /\ h + 6 \in 0 .. n /\ h \in 0 .. n /\ h # NONE_AT
    BY <1>1, <1>7 DEF NONE_AT
  <2>2. Within(Nothing(h), Len(m)) /\ Within(Nothing(h + 6), Len(m))
    BY <1>1, <2>1, NothingWithin
  <2>3. CASE n - h < 14 \/ block >= n
    <3>1. FindGif(m) = Nothing(h)
      BY <1>4, <1>7, <2>1, <2>3
    <3> QED  BY <2>2, <3>1
  <2>4. CASE ~(n - h < 14 \/ block >= n)
    <3>1. FindGif(m) = GifBlocks(m, h, block)
      BY <1>4, <1>7, <2>1, <2>4
    <3>2. block \in Nat /\ h <= block
      <4>1. At(m, h + 10) \in Nat
        <5>1. h + 10 \in Nat
          BY <2>1
        <5> QED  BY <5>1, AtIsByte
      <4>2. TableLen(At(m, h + 10)) \in Nat
        BY <4>1, TableLenIsNat
      <4> QED  BY <2>1, <4>2 DEF block
    <3>3. \/ GifBlocks(m, h, block) \in {Nothing(h), Nothing(h + 6)}
          \/ \E b \in Nat : /\ block <= b /\ b < Len(m)
                            /\ GifBlocks(m, h, block) = Got(h, b + 1)
      BY <2>1, <3>2, GifBlocksWithin
    <3>4. ASSUME NEW b \in Nat, block <= b, b < Len(m) PROVE Within(Got(h, b + 1), Len(m))
      <4>1. b + 1 \in Nat /\ h <= b + 1 /\ b + 1 <= Len(m)
        BY <1>1, <2>1, <3>2, <3>4
      <4> QED  BY <1>1, <2>1, <4>1, GotWithin
    <3> QED  BY <2>2, <3>1, <3>3, <3>4
  <2> QED  BY <2>3, <2>4
<1> QED  BY <1>3, <1>5, <1>6, <1>7

\* So does find_http_req, whatever a request is made of.
LEMMA HttpWithin ==
    ASSUME NEW m, Len(m) \in Nat, MAXREQ \in Nat PROVE Within(FindHttp(m), Len(m))
<1> DEFINE n == Len(m)
           get == Memstr(m, 0, n, GET)
           req == IF get # NONE_AT THEN get ELSE Memstr(m, 0, n, POST)
           le  == Memstr(m, req + 4, n, CRLF)
           blank == Memstr(m, le + 2, n, CRLF \o CRLF)
<1>1. /\ Len(GET) = 4 /\ Len(GET) \in Nat
      /\ Len(POST) = 5 /\ Len(POST) \in Nat
      /\ Len(CRLF) = 2 /\ Len(CRLF) \in Nat
  BY DEF GET, POST, CRLF
<1>2. Len(CRLF \o CRLF) = 4 /\ Len(CRLF \o CRLF) \in Nat
  <2>1. ASSUME NEW a, NEW b PROVE Len(<<a, b>> \o <<a, b>>) = 4
    <3>1. <<a, b>> \in Seq({a, b}) /\ Len(<<a, b>>) = 2
      OBVIOUS
    <3> QED  BY <3>1
  <2>2. Len(CRLF \o CRLF) = 4
    BY <2>1 DEF CRLF
  <2> QED  BY <2>2
<1>3. n \in Nat
  OBVIOUS
<1>4. req = NONE_AT \/ req \in 0 .. n - 4
  <2> HIDE DEF n
  <2>1. get = NONE_AT \/ get \in 0 .. n - Len(GET)
    BY <1>1, <1>3, MemstrWithin
  <2>2. \/ Memstr(m, 0, n, POST) = NONE_AT
        \/ Memstr(m, 0, n, POST) \in 0 .. n - Len(POST)
    BY <1>1, <1>3, MemstrWithin
  <2> HIDE DEF get
  <2>3. CASE get # NONE_AT
    BY <1>1, <2>1, <2>3
  <2>4. CASE get = NONE_AT
    BY <1>1, <1>3, <2>2, <2>4
  <2> QED  BY <2>3, <2>4
<1>5. ASSUME req # NONE_AT
      PROVE  req \in Nat /\ req + 4 <= n /\ (le = NONE_AT \/ le \in (req + 4) .. n - 2)
  <2>1. req \in Nat /\ req + 4 <= n /\ req + 4 \in Nat
    BY <1>3, <1>4, <1>5
  <2> HIDE DEF n, req
  <2>2. le = NONE_AT \/ le \in (req + 4) .. n - Len(CRLF)
    BY <1>1, <1>3, <2>1, MemstrWithin
  <2> QED  BY <1>1, <2>1, <2>2
<1>6. ASSUME req # NONE_AT, le # NONE_AT
      PROVE  /\ le \in Nat /\ req + 4 <= le /\ le + 2 <= n
             /\ blank = NONE_AT \/ blank \in (le + 2) .. n - 4
  <2>1. le \in Nat /\ req + 4 <= le /\ le + 2 <= n /\ le + 2 \in Nat
    <3> HIDE DEF le, req
    <3> QED  BY <1>3, <1>5, <1>6
  <2> HIDE DEF n, req, le
  <2>2. blank = NONE_AT \/ blank \in (le + 2) .. n - Len(CRLF \o CRLF)
    BY <1>2, <1>3, <2>1, MemstrWithin
  <2> QED  BY <1>2, <2>1, <2>2
<1>7. \/ n < 40 /\ FindHttp(m) = Nothing(0)
      \/ n >= 40 /\ req = NONE_AT /\ FindHttp(m) = Nothing(n - 4)
      \/ req # NONE_AT /\ le = NONE_AT /\ FindHttp(m) \in {Nothing(req + 4), Nothing(req)}
      \/ /\ n >= 40 /\ req # NONE_AT /\ le # NONE_AT
         /\ FindHttp(m) \in {Nothing(le + 2), Nothing(n - 4), Nothing(req)}
      \/ /\ n >= 40 /\ req # NONE_AT /\ le # NONE_AT /\ blank # NONE_AT
         /\ FindHttp(m) \in {Nothing(blank + 4),
                             [next |-> blank + 4, at |-> req, size |-> blank - req]}
  <2> DEFINE wrong == le < req + 5 \/ ~Reads(m, le - 9, HTTP1) \/ m[le] \notin {"0", "1", NUL}
             shown == \/ Reads(m, req + 4, Scheme) \/ Reads(m, req + 5, Scheme)
                      \/ Memstr(m, le, blank + 2, Host) # NONE_AT
  <2>1. FindHttp(m) =
          IF n < 40 THEN Nothing(0)
          ELSE IF req = NONE_AT THEN Nothing(n - 4)
          ELSE IF le = NONE_AT
               THEN Nothing(IF n - (req + 4) > MAXREQ THEN req + 4 ELSE req)
          ELSE IF wrong THEN Nothing(le + 2)
          ELSE IF blank = NONE_AT
               THEN Nothing(IF n - (le + 2) > MAXREQ THEN n - 4 ELSE req)
          ELSE IF shown
               THEN [next |-> blank + 4, at |-> req, size |-> blank - req]
          ELSE Nothing(blank + 4)
    BY DEF FindHttp
  <2> HIDE DEF n, get, req, le, blank, wrong, shown
  <2>2. n >= 40 \/ n < 40
    BY <1>3
  <2> QED  BY <2>1, <2>2
<1> HIDE DEF n, get, req, le, blank
<1>8. n = Len(m)
  BY DEF n
<1>9. ASSUME NEW p, p \in 0 .. n PROVE Within(Nothing(p), Len(m))
  BY <1>3, <1>8, <1>9, NothingWithin
<1>10. CASE n < 40 /\ FindHttp(m) = Nothing(0)
  BY <1>3, <1>9, <1>10
<1>11. CASE n >= 40 /\ req = NONE_AT /\ FindHttp(m) = Nothing(n - 4)
  <2>1. n - 4 \in 0 .. n
    BY <1>3, <1>11
  <2> QED  BY <1>9, <1>11, <2>1
<1>12. CASE req # NONE_AT /\ le = NONE_AT /\ FindHttp(m) \in {Nothing(req + 4), Nothing(req)}
  <2>1. req \in 0 .. n /\ req + 4 \in 0 .. n
    BY <1>3, <1>5, <1>12
  <2> QED  BY <1>9, <1>12, <2>1
<1>13. CASE /\ n >= 40 /\ req # NONE_AT /\ le # NONE_AT
            /\ FindHttp(m) \in {Nothing(le + 2), Nothing(n - 4), Nothing(req)}
  <2>1. req \in 0 .. n /\ n - 4 \in 0 .. n /\ le + 2 \in 0 .. n
    BY <1>3, <1>5, <1>6, <1>13
  <2> QED  BY <1>9, <1>13, <2>1
<1>14. CASE /\ n >= 40 /\ req # NONE_AT /\ le # NONE_AT /\ blank # NONE_AT
            /\ FindHttp(m) \in {Nothing(blank + 4),
                                [next |-> blank + 4, at |-> req, size |-> blank - req]}
  <2>1. /\ req \in Nat /\ blank \in Nat /\ req <= blank
        /\ blank + 4 \in 0 .. n
    <3>1. req \in Nat /\ le \in Nat /\ req + 4 <= le /\ blank \in (le + 2) .. n - 4
      BY <1>5, <1>6, <1>14
    <3> QED  BY <1>3, <3>1
  <2>2. CASE FindHttp(m) = Nothing(blank + 4)
    BY <1>9, <2>1, <2>2
  <2>3. CASE FindHttp(m) = [next |-> blank + 4, at |-> req, size |-> blank - req]
    <3>1. PICK r : r = FindHttp(m)
      OBVIOUS
    <3>2. r.next = blank + 4 /\ r.at = req /\ r.size = blank - req
      BY <2>3, <3>1
    <3>3. /\ r.next \in 0 .. n /\ r.at \in Nat /\ r.size \in Nat
          /\ r.at + r.size <= r.next
      BY <1>3, <2>1, <3>2
    <3>4. Within(r, Len(m))
      BY <1>8, <3>3 DEF Within
    <3> QED  BY <3>1, <3>4
  <2> QED  BY <1>14, <2>2, <2>3
<1> QED  BY <1>7, <1>10, <1>11, <1>12, <1>13, <1>14

-----------------------------------------------------------------------------
\* Numbers and table entries of a header, each by itself.
LEMMA FourHighBits == ASSUME NEW c \in Nat, c < 256 PROVE (c \div 16) + 1 \in 1 .. 16
OBVIOUS
\* An entry of a row of the table of bit rates.
LEMMA RowEntry ==
    ASSUME NEW R, NEW row \in Seq(R), NEW j \in 1 .. Len(row) PROVE row[j] \in R
OBVIOUS
\* The divisors of the sample rate.
LEMMA SmallPower ==
    ASSUME NEW w, w = 0 \/ w = 1 \/ w = 2 PROVE 2 ^ w = 1 \/ 2 ^ w = 2 \/ 2 ^ w = 4
<1>1. 2 ^ 0 = 1 /\ 2 ^ 1 = 2 /\ 2 ^ 2 = 4
  OBVIOUS
<1>2. CASE w = 0
  BY <1>1, <1>2, Zenon
<1>3. CASE w = 1
  BY <1>1, <1>3, Zenon
<1>4. CASE w = 2
  BY <1>1, <1>4, Zenon
<1> QED  BY <1>2, <1>3, <1>4, Zenon

\* The fields of a header that has passed mpeg_hdr_parse: a layer, a version, a
\* bitrate that is a number, and a sample rate that is one.
LEMMA HeaderFields ==
    ASSUME NEW m \in Seq(Byte), NEW p \in Nat, IsHeader(m, p)
    PROVE  BitrateOf(m, p) \in Nat /\ SamplerateOf(m, p) \in Nat /\ SamplerateOf(m, p) > 0
<1>1. PICK a \in Nat : a = At(m, p + 1)
  <2>1. p + 1 \in Nat
    OBVIOUS
  <2> QED  BY <2>1, AtIsByte
<1>2. PICK c \in Nat : c = At(m, p + 2) /\ c < 256
  <2>1. p + 2 \in Nat
    OBVIOUS
  <2> QED  BY <2>1, AtIsByte
<1>3. PICK v \in {1, 2, 3} : v = Version(m, p)
  <2>1. PICK i \in 0 .. 3 : i = (a \div 8) % 4
    OBVIOUS
  <2>2. Version(m, p) = <<3, 0, 2, 1>>[i + 1]
    BY <1>1, <2>1 DEF Version
  <2>3. i = 0 \/ i = 1 \/ i = 2 \/ i = 3
    BY <2>1
  <2>4. Version(m, p) \in {0, 1, 2, 3}
    BY <2>2, <2>3
  <2>5. Version(m, p) # 0
    BY DEF IsHeader
  <2> QED  BY <2>4, <2>5
<1>4. PICK l \in {1, 2, 3} : l = Layer(m, p)
  <2>1. PICK i \in 0 .. 3 : i = (a \div 2) % 4
    OBVIOUS
  <2>2. Layer(m, p) = <<0, 3, 2, 1>>[i + 1]
    BY <1>1, <2>1 DEF Layer
  <2>3. i = 0 \/ i = 1 \/ i = 2 \/ i = 3
    BY <2>1
  <2>4. Layer(m, p) \in {0, 1, 2, 3}
    BY <2>2, <2>3
  <2>5. Layer(m, p) # 0
    BY DEF IsHeader
  <2> QED  BY <2>4, <2>5
<1>5. BitrateOf(m, p) \in Nat
  <2>1. PICK k \in 1 .. 5 : k = Column(m, p) + 1
    <3>1. PICK i \in 0 .. 5 : i = (IF Version(m, p) = 1 THEN 0 ELSE 3) + Layer(m, p) - 1
      BY <1>3, <1>4
    <3>2. Column(m, p) = IF i = 5 THEN 4 ELSE i
      BY <3>1 DEF Column
    <3> QED  BY <3>2
  <2>2. PICK j \in 1 .. 16 : j = (c \div 16) + 1
    <3>1. (c \div 16) + 1 \in 1 .. 16
      BY <1>2, FourHighBits
    <3> QED  BY <3>1
  <2>3. BitrateOf(m, p) = Bitrate[k][j]
    BY <1>2, <2>1, <2>2 DEF BitrateOf
  <2>5. PICK row : row = Bitrate[k]
    OBVIOUS
  <2>4. PICK R : R = Nat \cup {-1}
    OBVIOUS
  <2>6. row \in Seq(R) /\ Len(row) = 16
    <3>1. k = 1 \/ k = 2 \/ k = 3 \/ k = 4 \/ k = 5
      BY <2>1
    <3>2. -1 \in R /\ \A x \in Nat : x \in R
      BY <2>4
    <3>3. CASE k = 1
      BY <2>5, <3>2, <3>3 DEF Bitrate
    <3>4. CASE k = 2
      BY <2>5, <3>2, <3>4 DEF Bitrate
    <3>5. CASE k = 3
      BY <2>5, <3>2, <3>5 DEF Bitrate
    <3>6. CASE k = 4
      BY <2>5, <3>2, <3>6 DEF Bitrate
    <3>7. CASE k = 5
      BY <2>5, <3>2, <3>7 DEF Bitrate
    <3> QED  BY <3>1, <3>3, <3>4, <3>5, <3>6, <3>7
  <2>7. BitrateOf(m, p) # -1
    BY DEF IsHeader
  <2>8. row[j] \in R
    <3>1. j \in 1 .. Len(row)
      BY <2>6
    <3> QED  BY <2>6, <3>1, RowEntry
  <2> QED  BY <2>3, <2>4, <2>5, <2>7, <2>8
<1>6. SamplerateOf(m, p) \in Nat /\ SamplerateOf(m, p) > 0
  <2>1. PICK i \in 0 .. 3 : i = (c \div 4) % 4
    OBVIOUS
  <2>2. i # 3
    BY <1>2, <2>1 DEF IsHeader
  <2>3. PICK s \in {44100, 48000, 32000} : s = Samplerate[i + 1]
    <3>1. i = 0 \/ i = 1 \/ i = 2
      BY <2>1, <2>2
    <3> QED  BY <3>1 DEF Samplerate
  <2>4. SamplerateOf(m, p) = s \div 2 ^ (v - 1)
    BY <1>2, <1>3, <2>1, <2>3 DEF SamplerateOf
  <2>5. 2 ^ (v - 1) \in {1, 2, 4}
    <3>2. PICK w : w = v - 1
      OBVIOUS
    <3>3. w = 0 \/ w = 1 \/ w = 2
      BY <1>3, <3>2
    <3>4. 2 ^ w = 1 \/ 2 ^ w = 2 \/ 2 ^ w = 4
      BY <3>3, SmallPower
    <3> QED  BY <3>2, <3>4
  <2>6. PICK d \in {1, 2, 4} : d = 2 ^ (v - 1)
    BY <2>5
  <2>7. s \div d \in Nat /\ s \div d > 0
    BY <2>3, SMTT(30)
  <2> QED  BY <2>4, <2>6, <2>7
<1> QED  BY <1>5, <1>6

\* The length of a frame is a number of bytes.
LEMMA FrameLenIsNat ==
    ASSUME NEW m \in Seq(Byte), NEW p \in Nat, IsHeader(m, p) PROVE FrameLen(m, p) \in Nat
<1>1. PICK b \in Nat, s \in Nat : b = BitrateOf(m, p) /\ s = SamplerateOf(m, p) /\ s > 0
  BY HeaderFields
<1>2. PICK padded \in Nat : padded = (At(m, p + 2) \div 2) % 2
  <2>1. p + 2 \in Nat
    OBVIOUS
  <2>2. At(m, p + 2) \in Nat
    BY <2>1, AtIsByte
  <2> QED  BY <2>2
<1>3. ASSUME NEW x \in Nat, NEW y \in Nat, y > 0 PROVE x \div y \in Nat
  BY <1>3
<1>4. PICK x \in Nat, y \in Nat : x = 12 * b * 1000 /\ y = 144 * b * 1000
  OBVIOUS
<1>5. (12 * b * 1000) \div s \in Nat /\ (144 * b * 1000) \div s \in Nat
  <2>1. x \div s \in Nat /\ y \div s \in Nat
    BY <1>1, <1>3
  <2> QED  BY <1>4, <2>1
<1>6. /\ ((12 * b * 1000) \div s + padded) * 4 \in Nat
      /\ (144 * b * 1000) \div s + padded \in Nat
  BY <1>5
<1>7. FrameLen(m, p) = IF Layer(m, p) = 1 THEN ((12 * b * 1000) \div s + padded) * 4
                       ELSE (144 * b * 1000) \div s + padded
  BY <1>1, <1>2 DEF FrameLen
<1> QED  BY <1>6, <1>7

\* A place where a header begins; the frame there has a length.
LEMMA HeaderPlace ==
    ASSUME NEW m \in Seq(Byte), NEW q \in HeaderPlaces(m)
    PROVE  q \in Nat /\ q < Len(m) - 4 /\ FrameLen(m, q) \in Nat
<1>1. q \in 0 .. Len(m) - 5 /\ IsHeader(m, q)
  BY DEF HeaderPlaces
<1>2. q \in Nat /\ q < Len(m) - 4
  BY <1>1
<1> QED  BY <1>1, <1>2, FrameLenIsNat

\* The loop over frames finds nothing, or a stream whose last frame begins with a
\* header within the data; the frame itself may not be there yet.
LEMMA MpegFramesBounds ==
    ASSUME NEW m \in Seq(Byte), NEW start \in HeaderPlaces(m), EXTENT \in Nat
    PROVE  \E q \in HeaderPlaces(m) :
              /\ start <= q
              /\ MpegFrames(m, start) \in {Nothing(start), Nothing(q + 1),
                                           Got(start, q + FrameLen(m, q))}
<1> DEFINE H == HeaderPlaces(m)
           D == H \X Nat
           r(s) == s[1] + FrameLen(m, s[1])
           stop == {s \in D : r(s) = s[1] \/ ~(s[2] < EXTENT /\ r(s) \in H)}
           val == [s \in D |-> IF r(s) = s[1] THEN Nothing(s[1] + 1)
                               ELSE IF s[2] >= EXTENT THEN Got(start, r(s)) ELSE Nothing(start)]
           nxt == [s \in D |-> IF s \in stop THEN s ELSE <<r(s), s[2] + 1>>]
           pos == [s \in D |-> s[2]]
           I == {s \in D : start <= s[1]}
<1>1. \A s \in D : s[1] \in H /\ s[2] \in Nat
  OBVIOUS
<1>2. \A q \in H : q \in Nat /\ FrameLen(m, q) \in Nat /\ q <= q + FrameLen(m, q)
  <2>1. ASSUME NEW q \in H PROVE q \in Nat /\ FrameLen(m, q) \in Nat
    BY HeaderPlace
  <2> QED  BY <2>1
<1>3. \A s \in D \ stop : r(s) \in H /\ s[2] < EXTENT /\ s[2] + 1 \in Nat
  BY <1>1
<1>4. \A s \in D \ stop : <<r(s), s[2] + 1>> \in D
  <2> HIDE DEF H, stop, r
  <2> QED  BY <1>3
<1>5. nxt \in [D -> D] /\ \A s \in D \ stop : nxt[s] = <<r(s), s[2] + 1>>
  <2> HIDE DEF D, r, stop
  <2> QED  BY <1>4
<1>6. pos \in [D -> Nat] /\ \A s \in D : pos[s] = s[2]
  BY <1>1
<1>7. \A f : \A s \in D : MpegFrame(m, start, f, s[1], s[2])
                           = IF s \in stop THEN val[s] ELSE f[<<r(s), s[2] + 1>>]
  <2>1. \A s \in D : s[2] >= EXTENT \/ s[2] < EXTENT
    BY <1>1
  <2> QED  BY <2>1 DEF MpegFrame
<1>8. \A f : \A s \in D : MpegFrame(m, start, f, s[1], s[2])
                           = IF s \in stop THEN val[s] ELSE f[nxt[s]]
  <2> HIDE DEF D, r, stop, nxt, val
  <2>1. ASSUME NEW f, NEW s \in D, s \notin stop
        PROVE  MpegFrame(m, start, f, s[1], s[2]) = f[nxt[s]]
    <3>1. nxt[s] = <<r(s), s[2] + 1>>
      BY <1>5, <2>1
    <3>2. MpegFrame(m, start, f, s[1], s[2]) = f[<<r(s), s[2] + 1>>]
      BY <1>7, <2>1
    <3> QED  BY <3>1, <3>2
  <2>2. ASSUME NEW f, NEW s \in D, s \in stop
        PROVE  MpegFrame(m, start, f, s[1], s[2]) = val[s]
    BY <1>7, <2>2
  <2> QED  BY <2>1, <2>2
<1>9. stop \in SUBSET D /\ I \in SUBSET D /\ <<start, 1>> \in I
  <2>1. start \in H /\ start <= start
    BY <1>2
  <2>2. <<start, 1>> \in D
    BY <2>1
  <2> QED  BY <2>1, <2>2
<1>10. ASSUME NEW s \in I
       PROVE  \E q \in H : start <= q /\ val[s] \in {Nothing(start), Nothing(q + 1),
                                                     Got(start, q + FrameLen(m, q))}
  <2>1. s[1] \in H /\ start <= s[1] /\ s \in D
    BY <1>1
  <2>2. val[s] \in {Nothing(start), Nothing(s[1] + 1), Got(start, s[1] + FrameLen(m, s[1]))}
    BY <2>1
  <2>3. PICK q : q = s[1]
    OBVIOUS
  <2>4. PICK v : v = val[s]
    OBVIOUS
  <2>5. q \in H /\ start <= q
    BY <2>1, <2>3
  <2>6. v \in {Nothing(start), Nothing(q + 1), Got(start, q + FrameLen(m, q))}
    BY <2>2, <2>3, <2>4
  <2> HIDE DEF H, D, val, I
  <2> QED  BY <2>4, <2>5, <2>6
<1>11. Walk(D, pos, EXTENT, stop, nxt)
  <2>1. ASSUME NEW s \in D, s \notin stop PROVE pos[s] < pos[nxt[s]] /\ pos[s] < EXTENT
    <3>1. nxt[s] = <<r(s), s[2] + 1>> /\ nxt[s] \in D /\ s[2] < EXTENT /\ s[2] \in Nat
      <4> HIDE DEF D, r, stop, nxt
      <4> QED  BY <1>1, <1>3, <1>5, <2>1
    <3>2. pos[s] = s[2] /\ pos[nxt[s]] = s[2] + 1
      <4> HIDE DEF D, r, stop, nxt, pos
      <4> QED  BY <1>6, <3>1
    <3> HIDE DEF D, r, stop, nxt, pos
    <3> QED  BY <3>1, <3>2
  <2> HIDE DEF D, r, stop, nxt, pos
  <2> QED  BY <1>5, <1>6, <1>9, <2>1 DEF Walk
<1>12. StaysIn(I, D, stop, nxt)
  <2>1. ASSUME NEW s \in I, s \notin stop PROVE nxt[s] \in I
    <3>1. s \in D /\ start <= s[1] /\ s[1] \in H
      BY <1>1
    <3>2. nxt[s] = <<r(s), s[2] + 1>> /\ nxt[s] \in D
      <4> HIDE DEF D, r, stop, nxt
      <4> QED  BY <1>5, <2>1, <3>1
    <3>3. start <= r(s)
      <4>1. PICK q \in Nat : q = s[1] /\ FrameLen(m, q) \in Nat /\ start \in Nat
        BY <1>2, <3>1
      <4> QED  BY <3>1, <4>1
    <3>4. nxt[s][1] = r(s)
      <4> HIDE DEF nxt, r
      <4> QED  BY <3>2
    <3> HIDE DEF nxt, D
    <3> QED  BY <3>2, <3>3, <3>4
  <2> HIDE DEF D, stop, nxt, I
  <2> QED  BY <1>9, <2>1 DEF StaysIn
<1> HIDE DEF D, stop, val, nxt, pos, I
<1>13. \E g : g = [s \in D |-> MpegFrame(m, start, g, s[1], s[2])]
  <2>1. PICK g : Follows(g, D, stop, val, nxt)
    BY <1>11, WalkExists
  <2>2. g = [s \in D |-> IF s \in stop THEN val[s] ELSE g[nxt[s]]]
    BY <2>1 DEF Follows
  <2>3. g = [s \in D |-> MpegFrame(m, start, g, s[1], s[2])]
    BY <1>8, <2>2
  <2> QED  BY <2>3
<1>14. PICK f : /\ f = [s \in D |-> MpegFrame(m, start, f, s[1], s[2])]
                /\ MpegFrames(m, start) = f[<<start, 1>>]
  BY <1>13 DEF MpegFrames, D
<1>15. Follows(f, D, stop, val, nxt)
  BY <1>8, <1>14 DEF Follows
<1>16. PICK s \in I : f[<<start, 1>>] = val[s]
  <2>1. WalksFrom(<<start, 1>>, D, pos, EXTENT, stop, val, nxt, f, I)
    BY <1>9, <1>11, <1>12, <1>15 DEF WalksFrom
  <2>2. EndsIn(<<start, 1>>, stop, val, f, I)
    BY <2>1, WalkEnds
  <2> QED  BY <2>2 DEF EndsIn
<1>17. PICK q \in H : start <= q /\ val[s] \in {Nothing(start), Nothing(q + 1),
                                                Got(start, q + FrameLen(m, q))}
  BY <1>10
<1>18. MpegFrames(m, start) = val[s]
  BY <1>14, <1>16
<1> QED  BY <1>17, <1>18

\* A result in order: what was found ends before the place where the search
\* resumes, wherever that is.
Orderly(r) ==
    /\ r.next \in Nat /\ r.at \in Nat /\ r.size \in Nat
    /\ r.size # 0 => r.at + r.size <= r.next

\* A result within the data is in order.
LEMMA WithinIsOrderly ==
    ASSUME NEW n \in Nat, NEW r, Within(r, n) PROVE Orderly(r)
BY DEF Within, Orderly

\* A result without a file is in order.
LEMMA NothingOrderly ==
    ASSUME NEW p \in Nat PROVE Orderly(Nothing(p)) /\ Nothing(p).size = 0
<1>0. PICK r : r = Nothing(p)
  OBVIOUS
<1>1. r.next = p /\ r.at = 0 /\ r.size = 0
  BY <1>0 DEF Nothing
<1>2. Orderly(r)
  BY <1>1 DEF Orderly
<1> QED  BY <1>0, <1>1, <1>2

\* A result with a file is in order if the file is not empty.
LEMMA GotOrderly ==
    ASSUME NEW h \in Nat, NEW e \in Nat, h <= e
    PROVE  /\ Orderly(Got(h, e)) /\ Got(h, e).at = h
           /\ Got(h, e).size = e - h /\ Got(h, e).at + Got(h, e).size = e
<1>0. PICK r : r = Got(h, e)
  OBVIOUS
<1>1. r.next = e /\ r.at = h /\ r.size = e - h
  BY <1>0 DEF Got
<1>2. Orderly(r) /\ r.at + r.size = e
  BY <1>1 DEF Orderly
<1> QED  BY <1>0, <1>1, <1>2

\* find_mpeg_stream: what it finds ends with a frame that begins in the data.
LEMMA MpegOrderly ==
    ASSUME NEW m \in Seq(Byte), EXTENT \in Nat
    PROVE  /\ Orderly(FindMpeg(m))
           /\ FindMpeg(m).size # 0 => FindMpeg(m).at < Len(m)
           /\ FindMpeg(m).size # 0 =>
                \E q \in HeaderPlaces(m) :
                   FindMpeg(m).at + FindMpeg(m).size = q + FrameLen(m, q)
<1>1. Len(m) \in Nat
  OBVIOUS
<1>2. CASE Len(m) < 4
  <2>1. FindMpeg(m) = Nothing(0)
    BY <1>2 DEF FindMpeg
  <2> QED  BY <2>1, NothingOrderly
<1>3. CASE ~(Len(m) < 4) /\ HeaderPlaces(m) = {}
  <2>1. FindMpeg(m) = Nothing(Len(m) - 4)
    BY <1>3 DEF FindMpeg
  <2>2. Len(m) - 4 \in Nat
    BY <1>1, <1>3
  <2> QED  BY <2>1, <2>2, NothingOrderly
<1>4. CASE ~(Len(m) < 4) /\ HeaderPlaces(m) # {}
  <2>1. PICK start : start = Min(HeaderPlaces(m))
    OBVIOUS
  <2>2. start \in HeaderPlaces(m)
    <3>1. HeaderPlaces(m) \in SUBSET Nat
      BY DEF HeaderPlaces
    <3>2. \E x \in HeaderPlaces(m) : \A y \in HeaderPlaces(m) : x <= y
      BY <1>4, <3>1, SmallestExists
    <3> QED  BY <2>1, <3>2 DEF Min
  <2>3. FindMpeg(m) = MpegFrames(m, start)
    BY <1>4, <2>1 DEF FindMpeg
  <2>4. PICK q \in HeaderPlaces(m) :
              /\ start <= q
              /\ MpegFrames(m, start) \in {Nothing(start), Nothing(q + 1),
                                           Got(start, q + FrameLen(m, q))}
    BY <2>2, MpegFramesBounds
  <2>5. /\ start \in Nat /\ q \in Nat /\ q + 1 \in Nat /\ q + FrameLen(m, q) \in Nat
        /\ start <= q + FrameLen(m, q) /\ start < Len(m)
    <3>1. start \in Nat /\ q \in Nat /\ FrameLen(m, q) \in Nat /\ start < Len(m) - 4
      BY <2>2, HeaderPlace
    <3> QED  BY <1>1, <2>4, <3>1
  <2>6. PICK r : r = FindMpeg(m)
    OBVIOUS
  <2>7. CASE r = Nothing(start) \/ r = Nothing(q + 1)
    <3>1. Orderly(r) /\ r.size = 0
      BY <2>5, <2>7, NothingOrderly
    <3> QED  BY <2>6, <3>1
  <2>8. CASE r = Got(start, q + FrameLen(m, q))
    <3>1. Orderly(r) /\ r.at = start /\ r.at + r.size = q + FrameLen(m, q)
      BY <2>5, <2>8, GotOrderly
    <3> QED  BY <2>5, <2>6, <3>1
  <2> QED  BY <2>3, <2>4, <2>6, <2>7, <2>8
<1> QED  BY <1>2, <1>3, <1>4

\* find_webp_image: what it finds begins in the data and is no longer than them.
LEMMA WebpOrderly ==
    ASSUME NEW m \in Seq(Byte)
    PROVE  /\ Orderly(FindWebp(m))
           /\ FindWebp(m).size # 0 => FindWebp(m).at < Len(m) /\ FindWebp(m).size <= Len(m)
<1> DEFINE h == Memstr(m, 0, Len(m), RIFF)
           size == Uint32LE(m, h + 4)
<1>1. Len(m) \in Nat
  OBVIOUS
<1>2. \/ FindWebp(m) = Nothing(0)
      \/ /\ Len(m) >= 20 /\ h # NONE_AT /\ Len(m) - h >= 20 /\ size + 8 <= Len(m)
         /\ FindWebp(m) = Got(h, h + size + 8)
  BY DEF FindWebp
<1>3. CASE FindWebp(m) = Nothing(0)
  BY <1>3, NothingOrderly
<1>4. CASE /\ Len(m) >= 20 /\ h # NONE_AT /\ Len(m) - h >= 20 /\ size + 8 <= Len(m)
           /\ FindWebp(m) = Got(h, h + size + 8)
  <2>1. Len(RIFF) = 4 /\ Len(RIFF) \in Nat
    BY DEF RIFF
  <2>2. h \in 0 .. Len(m) - Len(RIFF)
    BY <1>1, <1>4, <2>1, MemstrWithin
  <2>3. PICK k \in Nat : k = h /\ k < Len(m)
    BY <1>1, <2>1, <2>2
  <2>4. PICK z \in Nat : z = size
    <3>1. k + 4 \in Nat
      OBVIOUS
    <3>2. Uint32LE(m, k + 4) \in Nat
      BY <3>1, Uint32IsNat
    <3> HIDE DEF h
    <3> QED  BY <2>3, <3>2
  <2>5. PICK r : r = FindWebp(m)
    OBVIOUS
  <2>6. r = Got(k, k + z + 8) /\ z + 8 <= Len(m)
    BY <1>4, <2>3, <2>4, <2>5
  <2>7. k + z + 8 \in Nat /\ k <= k + z + 8 /\ (k + z + 8) - k = z + 8
    OBVIOUS
  <2>8. Orderly(r) /\ r.at = k /\ r.size = (k + z + 8) - k
    BY <2>6, <2>7, GotOrderly
  <2> QED  BY <2>3, <2>5, <2>6, <2>7, <2>8
<1> QED  BY <1>2, <1>3, <1>4

\* What one call of a finder gives, for any data of the kind its driver takes.
LEMMA FinderBounds ==
    ASSUME NEW driver \in Drivers, NEW m, Len(m) \in Nat, Len(m) > 0,
           driver # "HTTP" => m \in Seq(Byte)
    PROVE  LET r == Finder(driver, m)
           IN  /\ Orderly(r)
               /\ r.size # 0 => r.at < Len(m)
               /\ r.size # 0 /\ driver \notin {"webp", "mpeg"} => r.at + r.size <= Len(m)
<1> DEFINE r == Finder(driver, m)
           Goal == /\ Orderly(r)
                   /\ r.size # 0 => r.at < Len(m)
                   /\ r.size # 0 /\ driver \notin {"webp", "mpeg"} => r.at + r.size <= Len(m)
<1>1. ASSUME Within(r, Len(m)) PROVE Goal
  <2>1. Orderly(r) /\ r.next \in 0 .. Len(m) /\ r.at \in Nat /\ r.size \in Nat
        /\ (r.size # 0 => r.at + r.size <= r.next)
    BY <1>1, WithinIsOrderly DEF Within
  <2> HIDE DEF r
  <2> QED  BY <2>1
<1>2. CASE driver = "gif"
  <2>1. r = FindGif(m)
    BY <1>2 DEF Finder
  <2>2. Within(FindGif(m), Len(m))
    BY <1>2, GifWithin
  <2> QED  BY <1>1, <2>1, <2>2
<1>3. CASE driver = "jpeg"
  <2>1. r = FindJpeg(m)
    BY <1>3 DEF Finder
  <2>2. Within(FindJpeg(m), Len(m))
    BY <1>3, JpegWithin
  <2> QED  BY <1>1, <2>1, <2>2
<1>4. CASE driver = "png"
  <2>1. r = FindPng(m)
    BY <1>4 DEF Finder
  <2>2. Within(FindPng(m), Len(m))
    BY <1>4, PngWithin
  <2> QED  BY <1>1, <2>1, <2>2
<1>5. CASE driver = "HTTP"
  <2>1. r = FindHttp(m)
    BY <1>5 DEF Finder
  <2>2. Within(FindHttp(m), Len(m))
    BY LimitsAssumption, HttpWithin
  <2> QED  BY <1>1, <2>1, <2>2
<1>6. CASE driver = "webp"
  <2>1. r = FindWebp(m)
    BY <1>6 DEF Finder
  <2>2. Orderly(FindWebp(m)) /\ (FindWebp(m).size # 0 => FindWebp(m).at < Len(m))
    BY <1>6, WebpOrderly
  <2> QED  BY <1>6, <2>1, <2>2
<1>7. CASE driver = "mpeg"
  <2>1. r = FindMpeg(m)
    BY <1>7 DEF Finder
  <2>2. Orderly(FindMpeg(m)) /\ (FindMpeg(m).size # 0 => FindMpeg(m).at < Len(m))
    BY <1>7, LimitsAssumption, MpegOrderly
  <2> QED  BY <1>7, <2>1, <2>2
<1> QED  BY <1>2, <1>3, <1>4, <1>5, <1>6, <1>7 DEF Drivers

-----------------------------------------------------------------------------
(* The headers of a packet, and what layer3_find_tcp makes of them. *)

\* The headers of a packet lie one behind the other, and the data behind them.
LEMMA HeadersInOrder ==
    ASSUME NEW pkt, Genuine(pkt)
    PROVE  /\ Len(pkt.net) \in Nat /\ DOMAIN pkt.net = 1 .. Len(pkt.net)
           /\ StartOf(pkt, 1) = LinkLen(pkt)
           /\ \A i \in 1 .. Len(pkt.net) :
                 /\ pkt.net[i].len \in Nat
                 /\ StartOf(pkt, i + 1) = StartOf(pkt, i) + pkt.net[i].len
           /\ \A i \in 1 .. Len(pkt.net) + 1 : StartOf(pkt, i) \in Nat
           /\ \A i, j \in 1 .. Len(pkt.net) + 1 : i < j => StartOf(pkt, i) < StartOf(pkt, j)
<1>1. PICK n \in Nat : n = Len(pkt.net) /\ DOMAIN pkt.net = 1 .. n
  BY DEF Genuine
<1>2. \A i \in 1 .. n : pkt.net[i].len \in Nat \ {0}
  <2> DEFINE S == [proto : STRING, len : Nat \ {0}]
  <2>1. pkt.net \in Seq(S)
    BY DEF Genuine
  <2>2. \A i \in 1 .. n : pkt.net[i] \in S
    <3> HIDE DEF S
    <3> QED  BY <1>1, <2>1
  <2> QED  BY <2>2
<1>3. PICK l : l = [i \in 1 .. n |-> pkt.net[i].len]
  OBVIOUS
<1>4. l \in [1 .. n -> Nat \ {0}] /\ l \in [1 .. n -> Nat]
  BY <1>2, <1>3
<1>5. LinkLen(pkt) \in Nat
  BY DEF LinkLen, Genuine, SNAP
<1>6. \A s : Laid(s, LinkLen(pkt), l, n) <=>
               s = [i \in 1 .. n + 1 |-> IF i = 1 THEN LinkLen(pkt)
                                          ELSE s[i - 1] + pkt.net[i - 1].len]
  <2>1. ASSUME NEW i \in 1 .. n + 1, i # 1 PROVE l[i - 1] = pkt.net[i - 1].len
    <3>1. i - 1 \in 1 .. n
      BY <2>1
    <3> QED  BY <1>3, <3>1
  <2>2. ASSUME NEW s
        PROVE  [i \in 1 .. n + 1 |-> IF i = 1 THEN LinkLen(pkt) ELSE s[i - 1] + l[i - 1]]
                = [i \in 1 .. n + 1 |-> IF i = 1 THEN LinkLen(pkt)
                                        ELSE s[i - 1] + pkt.net[i - 1].len]
    BY <2>1
  <2> QED  BY <2>2 DEF Laid
<1>7. \E s : Laid(s, LinkLen(pkt), l, n)
  BY <1>4, <1>5, LaidExists
<1>8. \E s : s = [i \in 1 .. Len(pkt.net) + 1 |-> IF i = 1 THEN LinkLen(pkt)
                                          ELSE s[i - 1] + pkt.net[i - 1].len]
  BY <1>1, <1>6, <1>7
<1>9. PICK s : s = Starts(pkt) /\ Laid(s, LinkLen(pkt), l, n)
  <2>1. PICK s : /\ s = Starts(pkt)
                 /\ s = [i \in 1 .. Len(pkt.net) + 1 |-> IF i = 1 THEN LinkLen(pkt)
                                          ELSE s[i - 1] + pkt.net[i - 1].len]
    BY <1>8 DEF Starts
  <2> QED  BY <1>1, <1>6, <2>1
<1>10. /\ s[1] = LinkLen(pkt) /\ \A i \in 1 .. n : s[i + 1] = s[i] + l[i]
       /\ \A i \in 1 .. n + 1 : s[i] \in Nat
       /\ \A i, j \in 1 .. n + 1 : i < j => s[i] < s[j]
  <2>1. PICK x \in Nat : x = LinkLen(pkt)
    BY <1>5
  <2>2. Laid(s, x, l, n)
    BY <1>9, <2>1
  <2> HIDE <1>9
  <2> QED  BY <1>4, <2>1, <2>2, LaidInOrder
<1>11. \A i : StartOf(pkt, i) = s[i]
  BY <1>9 DEF StartOf
<1> QED  BY <1>1, <1>2, <1>3, <1>10, <1>11, ZenonT(30)

\* The place of the data is a number.
LEMMA DataAtIsNat == ASSUME NEW pkt, Genuine(pkt) PROVE DataAt(pkt) \in Nat
<1>1. Len(pkt.net) + 1 \in 1 .. Len(pkt.net) + 1
  BY HeadersInOrder
<1> QED  BY <1>1, HeadersInOrder DEF DataAt

\* No extension header among the headers.
Plain(pkt) ==
    \A i \in DOMAIN pkt.net : pkt.net[i].proto \notin {"dstopts", "routing", "hopopts"}

\* Where a header is expected, with its protocol.
Passes == {"ip", "ipip", "ipv6"}
There(pkt, s) == {i \in DOMAIN pkt.net : StartOf(pkt, i) = s[1] /\ pkt.net[i].proto = s[2]}
That(pkt, s) == CHOOSE i \in There(pkt, s) : TRUE
Expected(pkt) ==
    {s \in Nat \X Protocols(pkt) : \/ s = <<DataAt(pkt), "none">>
                                   \/ There(pkt, s) # {}}

\* Through headers that are no extensions the loop comes to the data behind TCP,
\* or to a protocol that is ignored.
LEMMA PlainHeadersAreRead ==
    ASSUME NEW pkt, Genuine(pkt), Plain(pkt), pkt.net # <<>>
    PROVE  FindTcp(pkt, LinkLen(pkt), pkt.net[1].proto) \in {IGNORED, DataAt(pkt)}
<1> DEFINE D == Nat \X Protocols(pkt)
           go == {s \in D : s[2] \in Passes /\ There(pkt, s) # {}}
           stop == D \ go
           to(s) == <<s[1] + pkt.net[That(pkt, s)].len, Announced(pkt, That(pkt, s))>>
           known == {"tcp", "ip", "ipip", "ipv6", "dstopts", "routing", "hopopts"}
           end(s) == IF s[2] \notin known THEN IGNORED
                     ELSE IF There(pkt, s) = {} \/ s[2] = "hopopts" THEN MISREAD
                     ELSE s[1] + pkt.net[That(pkt, s)].len
           val == [s \in D |-> end(s)]
           nxt == [s \in D |-> IF s \in stop THEN s ELSE to(s)]
           pos == [s \in D |-> s[1]]
           I == Expected(pkt)
           first == <<LinkLen(pkt), pkt.net[1].proto>>
<1>1. PICK n \in Nat : n = Len(pkt.net) /\ DOMAIN pkt.net = 1 .. n /\ n > 0
  <2>1. Len(pkt.net) = 0 => pkt.net = <<>>
    BY DEF Genuine
  <2> QED  BY <2>1, HeadersInOrder
<1>2. /\ StartOf(pkt, 1) = LinkLen(pkt)
      /\ \A i \in 1 .. n : /\ pkt.net[i].len \in Nat
                           /\ StartOf(pkt, i + 1) = StartOf(pkt, i) + pkt.net[i].len
      /\ \A i \in 1 .. n + 1 : StartOf(pkt, i) \in Nat
      /\ \A i, j \in 1 .. n + 1 : i < j => StartOf(pkt, i) < StartOf(pkt, j)
  BY <1>1, HeadersInOrder
<1>3. DataAt(pkt) = StartOf(pkt, n + 1) /\ DataAt(pkt) \in Nat
  BY <1>1, <1>2 DEF DataAt
<1>4. ASSUME NEW s, There(pkt, s) # {}
      PROVE  /\ That(pkt, s) \in 1 .. n /\ s[1] = StartOf(pkt, That(pkt, s))
             /\ s[2] = pkt.net[That(pkt, s)].proto
  <2>1. That(pkt, s) \in There(pkt, s)
    BY <1>4 DEF That
  <2> QED  BY <1>1, <2>1 DEF There
<1>5. ASSUME NEW i \in 1 .. n
      PROVE  <<StartOf(pkt, i + 1), Announced(pkt, i)>> \in I
  <2>1. i + 1 \in 1 .. n + 1 /\ StartOf(pkt, i + 1) \in Nat
    BY <1>2
  <2>2. CASE i = n
    <3>1. Announced(pkt, i) = "none"
      BY <1>1, <2>2 DEF Announced
    <3>2. <<DataAt(pkt), "none">> \in D
      BY <1>3 DEF Protocols
    <3>3. PICK s : s = <<DataAt(pkt), "none">>
      OBVIOUS
    <3>4. s \in I
      BY <3>2, <3>3 DEF Expected
    <3> HIDE DEF I
    <3> QED  BY <1>3, <2>2, <3>1, <3>3, <3>4
  <2>3. CASE i # n
    <3>1. i + 1 \in 1 .. n /\ Announced(pkt, i) = pkt.net[i + 1].proto
      BY <1>1, <2>3 DEF Announced
    <3>2. pkt.net[i + 1].proto \in Protocols(pkt)
      BY <1>1, <3>1 DEF Protocols
    <3>3. i + 1 \in There(pkt, <<StartOf(pkt, i + 1), Announced(pkt, i)>>)
      BY <1>1, <3>1 DEF There
    <3> QED  BY <2>1, <3>1, <3>2, <3>3 DEF Expected
  <2> QED  BY <2>2, <2>3
<1>6. I \in SUBSET D
  BY DEF Expected
<1>7. ASSUME NEW s \in go
      PROVE  to(s) \in I /\ s[1] \in Nat /\ s[1] < to(s)[1] /\ s[1] < DataAt(pkt)
  <2>1. PICK i : i = That(pkt, s)
    OBVIOUS
  <2>2. i \in 1 .. n /\ s[1] = StartOf(pkt, i) /\ There(pkt, s) # {}
    BY <1>4, <2>1
  <2>3. to(s) = <<StartOf(pkt, i + 1), Announced(pkt, i)>>
    BY <1>2, <2>1, <2>2
  <2>4. /\ i \in 1 .. n + 1 /\ i + 1 \in 1 .. n + 1 /\ i < i + 1 /\ n + 1 \in 1 .. n + 1
        /\ i < n + 1
    BY <2>2
  <2>5. StartOf(pkt, i) < StartOf(pkt, i + 1) /\ StartOf(pkt, i) < StartOf(pkt, n + 1)
        /\ StartOf(pkt, i) \in Nat
    BY <1>2, <2>4
  <2>6. to(s) \in I
    BY <1>5, <2>2, <2>3
  <2>7. to(s)[1] = StartOf(pkt, i + 1)
    BY <2>3
  <2> HIDE DEF to, I, go
  <2> QED  BY <1>3, <2>2, <2>5, <2>6, <2>7
<1>8. ASSUME NEW s \in I, s \in stop PROVE end(s) \in {IGNORED, DataAt(pkt)}
  <2>1. CASE s = <<DataAt(pkt), "none">>
    BY <2>1
  <2>2. CASE There(pkt, s) # {}
    <3>1. PICK i \in 1 .. n : /\ i = That(pkt, s) /\ s[1] = StartOf(pkt, i)
                              /\ s[2] = pkt.net[i].proto
      BY <1>4, <2>2
    <3>2. s[2] \notin Passes /\ s \in D
      BY <1>6, <1>8, <2>2
    <3>3. s[2] \notin {"dstopts", "routing", "hopopts"}
      BY <1>1, <3>1 DEF Plain
    <3>4. CASE s[2] = "tcp"
      <4>1. i = n
        BY <1>1, <3>1, <3>4 DEF Genuine
      <4>2. end(s) = s[1] + pkt.net[i].len
        BY <2>2, <3>1, <3>4
      <4>3. end(s) = DataAt(pkt)
        <5> HIDE DEF end
        <5> QED  BY <1>2, <1>3, <3>1, <4>1, <4>2
      <4> QED  BY <4>3
    <3>5. CASE s[2] # "tcp"
      <4>1. s[2] \notin known
        BY <3>2, <3>3, <3>5 DEF Passes
      <4> QED  BY <4>1
    <3> QED  BY <3>4, <3>5
  <2> QED  BY <1>8, <2>1, <2>2 DEF Expected
<1>9. ASSUME NEW f, NEW s \in D
      PROVE  HeaderTurn(pkt, f, s[1], s[2]) = IF s \in stop THEN end(s) ELSE f[to(s)]
  <2>1. PICK h : h = There(pkt, s) /\ That(pkt, s) = CHOOSE i \in h : TRUE
    BY DEF That
  <2>2. h = {i \in DOMAIN pkt.net : StartOf(pkt, i) = s[1] /\ pkt.net[i].proto = s[2]}
    BY <2>1 DEF There
  <2>3. h # {} => s[2] \notin {"dstopts", "routing", "hopopts"}
    BY <2>2 DEF Plain
  <2>4. HeaderTurn(pkt, f, s[1], s[2]) =
          IF s[2] \notin known THEN IGNORED
          ELSE IF h = {} \/ s[2] = "hopopts" THEN MISREAD
          ELSE IF s[2] = "tcp" THEN s[1] + pkt.net[That(pkt, s)].len
          ELSE IF s[2] \in {"dstopts", "routing"}
               THEN f[<<s[1] + pkt.net[That(pkt, s)].len - 8, Announced(pkt, That(pkt, s))>>]
          ELSE f[to(s)]
    BY <2>1, <2>2 DEF HeaderTurn
  <2>5. s \in stop <=> ~(s[2] \in Passes /\ h # {})
    BY <2>1
  <2>6. end(s) = IF s[2] \notin known THEN IGNORED
                 ELSE IF h = {} \/ s[2] = "hopopts" THEN MISREAD
                 ELSE s[1] + pkt.net[That(pkt, s)].len
    BY <2>1
  <2> HIDE DEF end, to, stop
  <2> QED  BY <2>3, <2>4, <2>5, <2>6 DEF Passes
<1>10. val \in [D -> {end(s) : s \in D}] /\ \A s \in D : val[s] = end(s)
  OBVIOUS
<1>11. \A s \in D : s \in stop \/ s \in go
  OBVIOUS
<1>12. stop \in SUBSET D /\ \A s \in stop : s \notin go
  OBVIOUS
<1>13. pos \in [D -> Nat] /\ \A s \in D : pos[s] = s[1]
  OBVIOUS
<1>14. \A s \in D : nxt[s] = IF s \in stop THEN s ELSE to(s)
  OBVIOUS
<1>15. nxt \in [D -> D]
  <2>1. \A s \in D : (IF s \in stop THEN s ELSE to(s)) \in D
    <3> HIDE DEF D, go, stop, to, I
    <3> QED  BY <1>6, <1>7, <1>11
  <2> HIDE DEF D, stop, to
  <2> QED  BY <2>1
<1>16. first \in I
  <2>1. 1 \in 1 .. n /\ 1 \in 1 .. n + 1
    BY <1>1
  <2>2. first \in D
    BY <1>1, <1>2, <2>1 DEF Protocols
  <2>3. 1 \in There(pkt, first)
    BY <1>1, <1>2, <2>1 DEF There
  <2> HIDE DEF first
  <2> QED  BY <2>2, <2>3 DEF Expected
<1> HIDE DEF D, go, stop, to, val, end, nxt, pos, I
<1>17. Walk(D, pos, DataAt(pkt), stop, nxt)
  <2>1. ASSUME NEW s \in D, s \notin stop
        PROVE  pos[s] < pos[nxt[s]] /\ pos[s] < DataAt(pkt)
    <3>1. s \in go /\ nxt[s] = to(s) /\ to(s) \in D
      BY <1>6, <1>7, <1>11, <1>14, <2>1
    <3>2. pos[s] = s[1] /\ pos[nxt[s]] = to(s)[1]
      BY <1>13, <3>1
    <3> QED  BY <1>7, <3>1, <3>2
  <2> QED  BY <1>3, <1>12, <1>13, <1>15, <2>1 DEF Walk
<1>18. StaysIn(I, D, stop, nxt)
  <2>1. ASSUME NEW s \in I, s \notin stop PROVE nxt[s] \in I
    BY <1>6, <1>7, <1>11, <1>14, <2>1
  <2> QED  BY <1>6, <2>1 DEF StaysIn
<1>19. \A f : \A s \in D : HeaderTurn(pkt, f, s[1], s[2])
                            = IF s \in stop THEN val[s] ELSE f[nxt[s]]
  BY <1>9, <1>10, <1>14, ZenonT(30)
<1>20. \E g : g = [s \in D |-> HeaderTurn(pkt, g, s[1], s[2])]
  <2>1. PICK g : Follows(g, D, stop, val, nxt)
    BY <1>17, WalkExists
  <2>2. g = [s \in D |-> IF s \in stop THEN val[s] ELSE g[nxt[s]]]
    BY <2>1 DEF Follows
  <2>3. g = [s \in D |-> HeaderTurn(pkt, g, s[1], s[2])]
    BY <1>19, <2>2
  <2> QED  BY <2>3
<1>21. PICK f : /\ f = [s \in D |-> HeaderTurn(pkt, f, s[1], s[2])]
                /\ FindTcp(pkt, LinkLen(pkt), pkt.net[1].proto) = f[first]
  BY <1>20 DEF FindTcp, D
<1>22. Follows(f, D, stop, val, nxt)
  BY <1>19, <1>21 DEF Follows
<1>23. PICK s \in I : s \in stop /\ f[first] = val[s]
  <2>1. WalksFrom(first, D, pos, DataAt(pkt), stop, val, nxt, f, I)
    BY <1>16, <1>17, <1>18, <1>22 DEF WalksFrom
  <2> HIDE DEF first
  <2>2. EndsIn(first, stop, val, f, I)
    BY <2>1, WalkEnds
  <2> QED  BY <2>2 DEF EndsIn
<1>24. val[s] \in {IGNORED, DataAt(pkt)}
  BY <1>6, <1>8, <1>10, <1>23
<1> QED  BY <1>21, <1>23, <1>24

\* process_packet reads the data of a packet where it is, or ignores the packet,
\* unless there is an IPv6 extension header in it: every link type, 802.11 with
\* its three lengths, IP with options, IP in IP, IPv6.
\* (layer2.c:107-250, layer3.c:30-143)
THEOREM DataIsWhereItIsRead ==
    ASSUME NEW pkt, Genuine(pkt), Plain(pkt)
    PROVE  DataOffset(pkt) \in {IGNORED, DataAt(pkt)}
<1>1. CASE LinkLayer(pkt) = IGNORED
  BY <1>1 DEF DataOffset
<1>2. CASE LinkLayer(pkt) # IGNORED
  <2>1. pkt.ether \in {"ip", "ipv6"} /\ pkt.net # <<>> /\ pkt.net[1].proto = pkt.ether
    BY <1>2 DEF LinkLayer, Genuine
  <2>2. LinkLayer(pkt) = LinkLen(pkt)
    <3>1. pkt.radiotap \in Nat /\ pkt.wifi.len \in Nat
      BY DEF Genuine
    <3>2. Ieee80211(pkt.wifi) \in {pkt.wifi.len + SNAP, IGNORED}
      BY DEF Ieee80211
    <3>3. CASE pkt.link = "EN10MB"
      BY <1>2, <3>1, <3>3 DEF LinkLayer, LinkLen
    <3>4. CASE pkt.link # "EN10MB"
      <4>1. LinkLayer(pkt) = pkt.wifi.len + SNAP + pkt.radiotap
        BY <1>2, <3>2, <3>4 DEF LinkLayer
      <4> QED  BY <3>1, <3>4, <4>1 DEF LinkLen, SNAP
    <3> QED  BY <3>3, <3>4
  <2>3. DataOffset(pkt) = FindTcp(pkt, LinkLen(pkt), pkt.net[1].proto)
    BY <1>2, <2>1, <2>2 DEF DataOffset
  <2> QED  BY <2>1, <2>3, PlainHeadersAreRead
<1> QED  BY <1>1, <1>2
-----------------------------------------------------------------------------
(* The search, whatever arrives. *)

\* What the driver's data are made of.
Alphabet == IF Driver = "HTTP" THEN {Bytes[k] : k \in DOMAIN Bytes} ELSE Byte

\* The bytes of the stream under way.
LEMMA StreamAlphabet ==
    ASSUME stream \in DOMAIN Streams
    PROVE  Bytes \in Seq(Alphabet) /\ Len(Bytes) \in Nat /\ Driver \in Drivers
<1>1. /\ Driver \in Drivers
      /\ Bytes \in Seq({Bytes[k] : k \in DOMAIN Bytes})
      /\ Driver # "HTTP" => \A k \in DOMAIN Bytes : Bytes[k] \in Byte
  BY StreamsAssumption DEF Bytes, Driver
<1>2. CASE Driver = "HTTP"
  BY <1>1, <1>2 DEF Alphabet
<1>3. CASE Driver # "HTTP"
  <2>1. PICK b : b = Bytes
    OBVIOUS
  <2>2. PICK n \in Nat : n = Len(b) /\ DOMAIN b = 1 .. n /\ b = [k \in 1 .. n |-> b[k]]
    BY <1>1, <2>1
  <2>3. b \in [1 .. n -> Byte]
    BY <1>1, <1>3, <2>1, <2>2
  <2>4. b \in Seq(Byte)
    BY <2>3, ListOf
  <2> QED  BY <1>1, <1>3, <2>1, <2>2, <2>4 DEF Alphabet
<1> QED  BY <1>2, <1>3

\* The data are bytes (or characters), as many as were sent at least; what was
\* found lies before the place where the search resumes, one behind the other.
InData ==
    /\ stream \in DOMAIN Streams
    /\ got \in Seq(Alphabet) /\ sent \in 0 .. Len(got)
    /\ moff \in Nat
FoundInOrder ==
    /\ \E T : found \in Seq(T)
    /\ \A i \in 1 .. Len(found) : /\ found[i].at \in Nat /\ found[i].size \in Nat
                                  /\ found[i].at + found[i].size <= moff
    /\ \A i, j \in 1 .. Len(found) : i < j => found[i].at + found[i].size <= found[j].at
SearchInv == InData /\ FoundInOrder

\* A part of a sequence.
LEMMA PartOf ==
    ASSUME NEW S, NEW b \in Seq(S), NEW p \in Nat, NEW q \in Nat, p <= q, q <= Len(b)
    PROVE  SubSeq(b, p + 1, q) \in Seq(S) /\ Len(SubSeq(b, p + 1, q)) = q - p
OBVIOUS

\* The rest of a sequence from place p on.
LEMMA RestOf ==
    ASSUME NEW S, NEW b \in Seq(S), NEW p \in Nat
    PROVE  LET m == SubSeq(b, p + 1, Len(b))
           IN  \/ m = <<>>
               \/ m # <<>> /\ m \in Seq(S) /\ Len(m) \in Nat /\ Len(m) > 0 /\ Len(m) = Len(b) - p
<1>1. CASE p < Len(b)
  BY <1>1
<1>2. CASE ~(p < Len(b))
  BY <1>2
<1> QED  BY <1>1, <1>2

\* SearchInv holds before the first packet.
LEMMA SearchInit == ASSUME Init PROVE SearchInv
<1>1. stream \in DOMAIN Streams /\ got = <<>> /\ sent = 0 /\ moff = 0 /\ found = <<>>
  BY DEF Init
<1>2. InData
  BY <1>1 DEF InData
<1>3. found \in Seq({}) /\ Len(found) = 0
  BY <1>1
<1>4. FoundInOrder
  BY <1>3 DEF FoundInOrder
<1> QED  BY <1>2, <1>4 DEF SearchInv

\* A packet, padded or not, leaves the place and what was found alone.
LEMMA PacketAdds ==
    ASSUME InData, NEW f \in Framings, NEW k \in Sizes, Packet(f, k)
    PROVE  InData' /\ UNCHANGED <<moff, found>>
<1>1. /\ stream \in DOMAIN Streams /\ got \in Seq(Alphabet) /\ moff \in Nat
      /\ sent \in Nat /\ sent <= Len(got) /\ Len(got) \in Nat /\ k \in Nat
  BY SizesAssumption DEF InData
<1>2. stream' = stream /\ UNCHANGED <<moff, found>>
  BY DEF Packet, vars
<1>3. Alphabet' = Alphabet
  BY <1>2 DEF Alphabet, Driver, Bytes
<1>4. CASE got' = got /\ sent' = sent
  BY <1>1, <1>2, <1>3, <1>4 DEF InData
<1>5. CASE ~(got' = got /\ sent' = sent)
  <2> DEFINE data == SubSeq(Bytes, sent + 1, sent + k)
             pad == IF Driver = "HTTP" THEN <<>> ELSE Padding(f, k)
             old == SubSeq(got, 1, sent)
  <2>1. got' = old \o data \o pad /\ sent' = sent + k /\ sent + k <= Len(Bytes)
    BY <1>5 DEF Packet, vars
  <2>2. Bytes \in Seq(Alphabet) /\ Len(Bytes) \in Nat
    BY <1>1, StreamAlphabet
  <2>3. data \in Seq(Alphabet) /\ Len(data) = k
    <3>1. sent + k \in Nat /\ sent <= sent + k /\ (sent + k) - sent = k
      BY <1>1
    <3> QED  BY <1>1, <2>1, <2>2, <3>1, PartOf
  <2>4. old \in Seq(Alphabet) /\ Len(old) = sent
    <3>1. 0 \in Nat /\ 0 <= sent /\ sent - 0 = sent /\ 0 + 1 = 1
      BY <1>1
    <3>2. SubSeq(got, 0 + 1, sent) \in Seq(Alphabet) /\ Len(SubSeq(got, 0 + 1, sent)) = sent - 0
      BY <1>1, <3>1, PartOf
    <3> QED  BY <3>1, <3>2
  <2>5. pad \in Seq(Alphabet)
    <3>1. CASE pad = <<>>
      <4>1. <<>> \in Seq(Alphabet)
        OBVIOUS
      <4> HIDE DEF pad
      <4> QED  BY <3>1, <4>1
    <3>2. CASE pad # <<>>
      <4>1. /\ Driver # "HTTP" /\ DataAt(f) + k < 60
            /\ pad = [i \in 1 .. 60 - DataAt(f) - k |-> 0]
        BY <3>2 DEF Padding
      <4>2. PICK n \in Nat : n = 60 - DataAt(f) - k
        <5>1. DataAt(f) \in Nat
          BY FramingsAssumption, DataAtIsNat
        <5> QED  BY <1>1, <4>1, <5>1
      <4>3. pad \in [1 .. n -> Byte]
        <5>1. 0 \in Byte
          BY DEF Byte
        <5> HIDE DEF pad
        <5> QED  BY <4>1, <4>2, <5>1
      <4>4. pad \in Seq(Byte)
        <5> HIDE DEF pad
        <5> QED  BY <4>3, ListOf
      <4> QED  BY <4>1, <4>4 DEF Alphabet
    <3> QED  BY <3>1, <3>2
  <2> HIDE DEF data, pad, old
  <2>6. old \o data \in Seq(Alphabet) /\ Len(old \o data) = sent + k
    BY <2>3, <2>4, Joined
  <2>7. /\ old \o data \o pad \in Seq(Alphabet)
        /\ Len(old \o data \o pad) = Len(old \o data) + Len(pad)
    BY <2>5, <2>6, Joined
  <2>8. Len(pad) \in Nat
    BY <2>5
  <2>9. sent + k \in 0 .. Len(got')
    BY <1>1, <2>1, <2>6, <2>7, <2>8
  <2> QED  BY <1>1, <1>2, <1>3, <2>1, <2>7, <2>9 DEF InData
<1> QED  BY <1>4, <1>5

\* A turn of extract_media's loop: the place goes forward, and what is dispatched
\* begins in the data and, but for WebP and MPEG, ends there.
LEMMA SearchTurn ==
    ASSUME InData, Search
    PROVE  \E next \in Nat, at \in Nat, size \in Nat :
              /\ moff' = moff + next
              /\ dirty' = (next # 0 /\ moff' < Len(got))
              /\ size = 0 => found' = found
              /\ size # 0 =>
                    /\ \E t : found' = Append(found, [at |-> moff + at, size |-> size, text |-> t])
                    /\ at + size <= next /\ moff + at < Len(got)
                    /\ Driver \notin {"webp", "mpeg"} => moff + at + size <= Len(got)
<1> DEFINE m == SubSeq(got, moff + 1, Len(got))
           r == IF m = <<>> THEN Nothing(0) ELSE Finder(Driver, m)
           text == IF Driver # "HTTP" THEN <<>> ELSE Url(SubSeq(m, r.at + 1, r.at + r.size))
<1>1. /\ stream \in DOMAIN Streams /\ got \in Seq(Alphabet) /\ moff \in Nat
      /\ Len(got) \in Nat /\ Driver \in Drivers
  BY StreamAlphabet DEF InData
<1>2. /\ moff' = moff + r.next
      /\ dirty' = (r.next # 0 /\ moff' < Len(got))
      /\ found' = IF r.size = 0 THEN found
                  ELSE Append(found, [at |-> moff + r.at, size |-> r.size, text |-> text])
  BY DEF Search, Resume
<1>3. \/ m = <<>>
      \/ /\ m # <<>> /\ m \in Seq(Alphabet)
         /\ Len(m) \in Nat /\ Len(m) > 0 /\ Len(m) = Len(got) - moff
  BY <1>1, RestOf
<1> HIDE DEF m, text
<1>4. CASE m = <<>>
  <2>1. r = Nothing(0)
    BY <1>4
  <2>2. r.next = 0 /\ r.at = 0 /\ r.size = 0
    BY <2>1 DEF Nothing
  <2> HIDE DEF r
  <2> QED  BY <1>2, <2>2
<1>5. CASE /\ m # <<>> /\ m \in Seq(Alphabet)
           /\ Len(m) \in Nat /\ Len(m) > 0 /\ Len(m) = Len(got) - moff
  <2>1. r = Finder(Driver, m)
    BY <1>5
  <2>2. Driver # "HTTP" => m \in Seq(Byte)
    BY <1>5 DEF Alphabet
  <2>3. /\ Orderly(r)
        /\ r.size # 0 => r.at < Len(m)
        /\ r.size # 0 /\ Driver \notin {"webp", "mpeg"} => r.at + r.size <= Len(m)
    BY <1>1, <1>5, <2>1, <2>2, FinderBounds
  <2> HIDE DEF r
  <2>4. /\ r.next \in Nat /\ r.at \in Nat /\ r.size \in Nat
        /\ r.size # 0 => r.at + r.size <= r.next
    BY <2>3 DEF Orderly
  <2>5. r.size # 0 => moff + r.at < Len(got)
    BY <1>1, <1>5, <2>3, <2>4
  <2>6. r.size # 0 /\ Driver \notin {"webp", "mpeg"} => moff + r.at + r.size <= Len(got)
    BY <1>1, <1>5, <2>3, <2>4
  <2>7. PICK next \in Nat, at \in Nat, size \in Nat : next = r.next /\ at = r.at /\ size = r.size
    BY <2>4
  <2> QED  BY <1>2, <2>4, <2>5, <2>6, <2>7
<1> QED  BY <1>3, <1>4, <1>5

\* What a turn of the search dispatches comes behind all that was.
LEMMA SearchAppends ==
    ASSUME SearchInv, Search PROVE SearchInv'
<1>1. /\ stream' = stream /\ sent' = sent /\ got' = got
      /\ InData /\ FoundInOrder /\ moff \in Nat
  BY DEF Search, SearchInv, InData
<1>2. PICK next \in Nat, at \in Nat, size \in Nat :
              /\ moff' = moff + next
              /\ size = 0 => found' = found
              /\ size # 0 =>
                    /\ \E t : found' = Append(found, [at |-> moff + at, size |-> size, text |-> t])
                    /\ at + size <= next
  BY <1>1, SearchTurn
<1>3. InData'
  BY <1>1, <1>2 DEF InData, Alphabet, Driver, Bytes
<1>4. /\ moff <= moff + next
      /\ \A i \in 1 .. Len(found) : /\ found[i].at \in Nat /\ found[i].size \in Nat
                                    /\ found[i].at + found[i].size <= moff + next
  <2>1. moff <= moff + next
    BY <1>1
  <2>2. ASSUME NEW i \in 1 .. Len(found)
        PROVE  /\ found[i].at \in Nat /\ found[i].size \in Nat
               /\ found[i].at + found[i].size <= moff + next
    <3>1. /\ found[i].at \in Nat /\ found[i].size \in Nat
          /\ found[i].at + found[i].size <= moff
      BY <1>1 DEF FoundInOrder
    <3> QED  BY <1>1, <3>1
  <2> QED  BY <2>1, <2>2
<1>5. CASE size = 0
  <2>1. found' = found
    BY <1>2, <1>5
  <2>2. FoundInOrder'
    BY <1>1, <1>2, <1>4, <2>1 DEF FoundInOrder
  <2> QED  BY <1>3, <2>2 DEF SearchInv
<1>6. CASE size # 0
  <2>1. PICK t : found' = Append(found, [at |-> moff + at, size |-> size, text |-> t])
    BY <1>2, <1>6
  <2>2. PICK e : e = [at |-> moff + at, size |-> size, text |-> t]
    OBVIOUS
  <2>3. /\ e.at = moff + at /\ e.size = size /\ e.at \in Nat
        /\ moff <= e.at /\ e.at + e.size <= moff + next
    <3>1. e.at = moff + at /\ e.size = size
      BY <2>2
    <3> QED  BY <1>1, <1>2, <1>6, <3>1
  <2>4. PICK T : found \in Seq(T)
    BY <1>1 DEF FoundInOrder
  <2>5. PICK U : U = T \cup {e}
    OBVIOUS
  <2>6. found \in Seq(U) /\ e \in U
    BY <2>4, <2>5
  <2>7. PICK n \in Nat : n = Len(found)
    BY <2>4
  <2>8. /\ found' \in Seq(U) /\ Len(found') = n + 1
        /\ \A i \in 1 .. n : found'[i] = found[i]
        /\ found'[n + 1] = e
    BY <2>1, <2>2, <2>6, <2>7, Appended
  <2>9. ASSUME NEW i \in 1 .. (n + 1)
        PROVE  /\ found'[i].at \in Nat /\ found'[i].size \in Nat
               /\ found'[i].at + found'[i].size <= moff + next
    <3>1. CASE i = n + 1
      BY <2>3, <2>8, <3>1
    <3>2. CASE i \in 1 .. n
      BY <1>4, <2>7, <2>8, <3>2
    <3> QED  BY <3>1, <3>2
  <2>10. ASSUME NEW i \in 1 .. (n + 1), NEW j \in 1 .. (n + 1), i < j
         PROVE  found'[i].at + found'[i].size <= found'[j].at
    <3>1. i \in 1 .. n /\ found'[i] = found[i]
      BY <2>8, <2>10
    <3>2. found[i].at \in Nat /\ found[i].size \in Nat /\ found[i].at + found[i].size <= moff
      BY <1>1, <2>7, <3>1 DEF FoundInOrder
    <3>3. CASE j = n + 1
      BY <1>1, <2>3, <2>8, <3>1, <3>2, <3>3
    <3>4. CASE j \in 1 .. n
      BY <1>1, <2>7, <2>8, <2>10, <3>1, <3>4 DEF FoundInOrder
    <3> QED  BY <3>3, <3>4
  <2>11. FoundInOrder'
    BY <1>2, <2>8, <2>9, <2>10 DEF FoundInOrder
  <2> QED  BY <1>3, <2>11 DEF SearchInv
<1> QED  BY <1>5, <1>6

\* SearchInv is an invariant.
LEMMA SearchInvariance == Spec => []SearchInv
<1>1. Init => SearchInv
  BY SearchInit
<1>2. SearchInv /\ [Next]_vars => SearchInv'
  <2>1. ASSUME SearchInv, UNCHANGED vars PROVE SearchInv'
    BY <2>1 DEF SearchInv, InData, FoundInOrder, vars, Alphabet, Driver, Bytes
  <2>2. ASSUME SearchInv, NEW f \in Framings, NEW k \in Sizes, Packet(f, k) PROVE SearchInv'
    <3>1. InData' /\ UNCHANGED <<moff, found>>
      BY <2>2, PacketAdds DEF SearchInv
    <3> QED  BY <2>2, <3>1 DEF SearchInv, FoundInOrder
  <2> QED  BY <2>1, <2>2, SearchAppends DEF Next
<1> QED  BY <1>1, <1>2, PTL DEF Spec

\* Whatever arrives - bytes that make no file, packets misread or padded - what is
\* dispatched never overlaps and follows the order of the stream.
\* (extract_media's loop, where each find_* resumes)
THEOREM FilesApart == Spec => []Apart
<1>1. SearchInv => Apart
  <2> SUFFICES ASSUME SearchInv PROVE Apart
    OBVIOUS
  <2>1. DOMAIN found = 1 .. Len(found)
    BY DEF SearchInv, FoundInOrder
  <2> QED  BY <2>1 DEF SearchInv, FoundInOrder, Apart
<1> QED  BY <1>1, SearchInvariance, PTL

\* What is dispatched has arrived: it begins within the data, and ends there too
\* unless it is a WebP file, whose size is compared with all there is, or an MPEG
\* stream, whose last frame may be incomplete.  (the length checks of each find_*)
DispatchedArrived ==
    [][found' # found =>
         LET e == found'[Len(found')]
         IN  /\ e.at < Len(got)
             /\ Driver \notin {"webp", "mpeg"} => e.at + e.size <= Len(got)]_vars

\* Every dispatched file is one that has arrived.
THEOREM FilesHaveArrived == Spec => DispatchedArrived
<1>1. SearchInv /\ [Next]_vars =>
        [found' # found =>
           LET e == found'[Len(found')]
           IN  /\ e.at < Len(got)
               /\ Driver \notin {"webp", "mpeg"} => e.at + e.size <= Len(got)]_vars
  <2> SUFFICES ASSUME SearchInv, Next, found' # found
               PROVE  LET e == found'[Len(found')]
                      IN  /\ e.at < Len(got)
                          /\ Driver \notin {"webp", "mpeg"} => e.at + e.size <= Len(got)
    OBVIOUS
  <2>1. InData /\ FoundInOrder
    BY DEF SearchInv
  <2>2. Search
    BY <2>1, PacketAdds DEF Next
  <2>3. PICK at \in Nat, size \in Nat :
           /\ \E t : found' = Append(found, [at |-> moff + at, size |-> size, text |-> t])
           /\ moff + at < Len(got)
           /\ Driver \notin {"webp", "mpeg"} => moff + at + size <= Len(got)
    <3>1. PICK next \in Nat, at \in Nat, size \in Nat :
              /\ size = 0 => found' = found
              /\ size # 0 =>
                    /\ \E t : found' = Append(found, [at |-> moff + at, size |-> size, text |-> t])
                    /\ moff + at < Len(got)
                    /\ Driver \notin {"webp", "mpeg"} => moff + at + size <= Len(got)
      BY <2>1, <2>2, SearchTurn
    <3> QED  BY <3>1
  <2>4. PICK t : found' = Append(found, [at |-> moff + at, size |-> size, text |-> t])
    BY <2>3
  <2>5. PICK e : e = [at |-> moff + at, size |-> size, text |-> t]
    OBVIOUS
  <2>6. e.at = moff + at /\ e.size = size
    BY <2>5
  <2>7. PICK T : found \in Seq(T)
    BY <2>1 DEF FoundInOrder
  <2>8. PICK U : U = T \cup {e}
    OBVIOUS
  <2>9. found \in Seq(U) /\ e \in U
    BY <2>7, <2>8
  <2>10. Len(found') = Len(found) + 1 /\ found'[Len(found) + 1] = e
    BY <2>4, <2>5, <2>9, Appended
  <2>11. found'[Len(found')] = e
    BY <2>10
  <2> QED  BY <2>3, <2>6, <2>11
<1> QED  BY <1>1, SearchInvariance, PTL DEF Spec, DispatchedArrived

\* The search ends: a turn after which there is something left has gone forward
\* and not yet come to the end of the data, whatever they are.
\* (while (... spos ... < len) in extract_media)
SearchAdvances == [][dirty /\ dirty' => moff < moff' /\ moff' < Len(got)]_vars

\* So the loop over find_data ends on any data.
THEOREM SearchGoesForward == Spec => SearchAdvances
<1>1. SearchInv /\ [Next]_vars => [dirty /\ dirty' => moff < moff' /\ moff' < Len(got)]_vars
  <2> SUFFICES ASSUME SearchInv, Next, dirty, dirty' PROVE moff < moff' /\ moff' < Len(got)
    OBVIOUS
  <2>1. InData /\ moff \in Nat
    BY DEF SearchInv, InData
  <2>2. Search
    BY DEF Next, Packet
  <2>3. PICK next \in Nat : moff' = moff + next /\ dirty' = (next # 0 /\ moff' < Len(got))
    BY <2>1, <2>2, SearchTurn
  <2>4. next # 0 /\ moff' < Len(got)
    BY <2>3
  <2> QED  BY <2>1, <2>3, <2>4
<1> QED  BY <1>1, SearchInvariance, PTL DEF Spec, SearchAdvances

-----------------------------------------------------------------------------
(* Streams of pictures: every call of their finders is right. *)

\* The bytes of a stream that is not text.
LEMMA BytesOf ==
    ASSUME NEW i \in DOMAIN Streams, Streams[i].driver # "HTTP"
    PROVE  Streams[i].bytes \in Seq(Byte)
<1>1. PICK b : b = Streams[i].bytes
  OBVIOUS
<1>2. b \in Seq({b[k] : k \in DOMAIN b}) /\ \A k \in DOMAIN b : b[k] \in Byte
  BY <1>1, StreamsAssumption
<1>3. PICK n \in Nat : n = Len(b) /\ DOMAIN b = 1 .. n /\ b = [k \in 1 .. n |-> b[k]]
  BY <1>2
<1>4. b \in [1 .. n -> Byte]
  BY <1>2, <1>3
<1> QED  BY <1>1, <1>4, ListOf

\* The elements of a part of a sequence.
LEMMA ElementsOf ==
    ASSUME NEW S, NEW b \in Seq(S), NEW p \in Nat, NEW q \in Nat, p <= q, q <= Len(b)
    PROVE  /\ SubSeq(b, p + 1, q) \in Seq(S) /\ Len(SubSeq(b, p + 1, q)) = q - p
           /\ \A k \in 1 .. q - p : SubSeq(b, p + 1, q)[k] = b[p + k]
OBVIOUS

\* What is read in a part of the stream is what is there in the stream.
LEMMA ReadInPart ==
    ASSUME NEW S, NEW b \in Seq(S), NEW p \in Nat, NEW n \in Nat, p <= n, n <= Len(b)
    PROVE  LET m == SubSeq(b, p + 1, n)
           IN  /\ m \in Seq(S) /\ Len(m) = n - p
               /\ \A i \in Nat : p + i < n => At(m, i) = At(b, p + i)
               /\ \A i \in Nat : n <= p + i => At(m, i) = 0
               /\ \A i \in Nat, j \in Nat : i <= j /\ p + j <= n =>
                     SubSeq(m, i + 1, j) = SubSeq(b, p + i + 1, p + j)
<1> DEFINE m == SubSeq(b, p + 1, n)
<1>1. m \in Seq(S) /\ Len(m) = n - p /\ \A k \in 1 .. n - p : m[k] = b[p + k]
  OBVIOUS
<1>2. Len(b) \in Nat
  OBVIOUS
<1> HIDE DEF m
<1>3. ASSUME NEW i \in Nat, p + i < n PROVE At(m, i) = At(b, p + i)
  <2>1. i + 1 \in 1 .. n - p /\ p + (i + 1) = (p + i) + 1 /\ i < n - p /\ p + i < Len(b)
    BY <1>2, <1>3
  <2>2. m[i + 1] = b[(p + i) + 1]
    BY <1>1, <2>1
  <2> QED  BY <1>1, <2>1, <2>2 DEF At
<1>4. ASSUME NEW i \in Nat, n <= p + i PROVE At(m, i) = 0
  <2>1. ~(i < n - p)
    BY <1>4
  <2> QED  BY <1>1, <2>1 DEF At
<1>5. ASSUME NEW i \in Nat, NEW j \in Nat, i <= j, p + j <= n
      PROVE  SubSeq(m, i + 1, j) = SubSeq(b, p + i + 1, p + j)
  <2> DEFINE x == SubSeq(m, i + 1, j)
             y == SubSeq(b, p + i + 1, p + j)
  <2>1. x \in Seq(S) /\ Len(x) = j - i /\ \A k \in 1 .. j - i : x[k] = m[i + k]
    <3>1. j <= Len(m)
      BY <1>1, <1>5
    <3> QED  BY <1>1, <1>5, <3>1, ElementsOf
  <2>2. y \in Seq(S) /\ Len(y) = j - i /\ \A k \in 1 .. j - i : y[k] = b[p + i + k]
    <3>1. p + i \in Nat /\ p + j \in Nat /\ p + i <= p + j /\ p + j <= Len(b)
          /\ (p + j) - (p + i) = j - i
      BY <1>2, <1>5
    <3> QED  BY <3>1, ElementsOf
  <2>3. ASSUME NEW k \in 1 .. j - i PROVE m[i + k] = b[p + i + k]
    <3>1. i + k \in 1 .. n - p /\ p + (i + k) = p + i + k
      BY <1>5
    <3> QED  BY <1>1, <3>1
  <2> HIDE DEF x, y
  <2>4. \A k \in 1 .. j - i : x[k] = y[k]
    BY <2>1, <2>2, <2>3
  <2>5. x = y
    BY <2>1, <2>2, <2>4
  <2> QED  BY <2>5 DEF x, y
<1> QED  BY <1>1, <1>3, <1>4, <1>5 DEF m

\* So is a signature.
LEMMA OccursInPart ==
    ASSUME NEW S, NEW b \in Seq(S), NEW p \in Nat, NEW n \in Nat, p <= n, n <= Len(b),
           NEW sig, Len(sig) \in Nat, NEW i \in Nat, p + i + Len(sig) <= n
    PROVE  Occurs(SubSeq(b, p + 1, n), i, sig) <=> Occurs(b, p + i, sig)
<1> DEFINE m == SubSeq(b, p + 1, n)
<1>1. \A k \in 1 .. n - p : m[k] = b[p + k]
  BY ElementsOf
<1> HIDE DEF m
<1>2. ASSUME NEW k \in 1 .. Len(sig) PROVE m[i + k] = b[(p + i) + k]
  <2>1. i + k \in 1 .. n - p /\ p + (i + k) = (p + i) + k
    OBVIOUS
  <2> QED  BY <1>1, <2>1
<1>3. Occurs(m, i, sig) <=> Occurs(b, p + i, sig)
  BY <1>2 DEF Occurs
<1> QED  BY <1>3 DEF m

\* A place between files, with the file f that comes next.
NextFile(s, p, n, f) ==
    /\ f \in s.files /\ p <= f.at /\ f.at <= n
    /\ \A g \in s.files : p <= g.at => f.at <= g.at

\* The first signature from a place between files on is the beginning of the next file.
LEMMA SignatureFound ==
    ASSUME NEW s, NEW sig, Len(sig) \in Nat, NEW S, s.bytes \in Seq(S),
           \A f \in s.files : WholeFile(s, f), Marked(s, sig),
           NEW p \in Nat, NEW n \in Nat, p <= n, n <= Len(s.bytes), Between(s, p)
    PROVE  LET m == SubSeq(s.bytes, p + 1, n)
               h == Memstr(m, 0, Len(m), sig)
           IN  \/ h = NONE_AT /\ \A f \in s.files : p <= f.at => n < f.at + Len(sig)
               \/ \E f \in s.files : /\ NextFile(s, p, n, f) /\ h = f.at - p
                                     /\ f.at + Len(sig) <= n
<1> DEFINE b == s.bytes
           m == SubSeq(b, p + 1, n)
           h == Memstr(m, 0, Len(m), sig)
<1>1. /\ Len(m) = n - p /\ Len(b) \in Nat
      /\ \A i \in Nat : p + i + Len(sig) <= n => (Occurs(m, i, sig) <=> Occurs(b, p + i, sig))
  <2>1. Len(m) = n - p /\ Len(b) \in Nat
    BY ElementsOf
  <2>2. \A i \in Nat : p + i + Len(sig) <= n => (Occurs(m, i, sig) <=> Occurs(b, p + i, sig))
    BY OccursInPart
  <2> QED  BY <2>1, <2>2
<1>2. /\ \A f \in s.files : f.at \in Nat /\ f.ends \in Nat /\ Occurs(b, f.at, sig)
      /\ \A i \in 0 .. Len(b) - Len(sig) :
            Occurs(b, i, sig) => \E f \in s.files : f.at <= i /\ i < f.ends
  BY DEF WholeFile, Marked
<1>3. \A f \in s.files : p <= f.at \/ f.ends <= p
  BY DEF Between
<1> HIDE DEF b, m
<1>4. \/ h = NONE_AT /\ \A i \in 0 .. Len(m) - Len(sig) : ~Occurs(m, i, sig)
      \/ /\ h \in 0 .. Len(m) - Len(sig) /\ Occurs(m, h, sig)
         /\ \A i \in 0 .. h - 1 : ~Occurs(m, i, sig)
  <2>1. Len(m) \in Nat
    BY <1>1
  <2> QED  BY <2>1, MemstrFinds
<1> HIDE DEF h
\* A file from p on that is there as far as its signature is seen.
<1>5. ASSUME NEW f \in s.files, p <= f.at, f.at + Len(sig) <= n
      PROVE  f.at - p \in 0 .. Len(m) - Len(sig) /\ Occurs(m, f.at - p, sig)
  <2>1. f.at - p \in Nat /\ p + (f.at - p) = f.at /\ f.at - p \in 0 .. Len(m) - Len(sig)
    BY <1>1, <1>2, <1>5
  <2> QED  BY <1>1, <1>2, <1>5, <2>1
<1>6. CASE h = NONE_AT /\ \A i \in 0 .. Len(m) - Len(sig) : ~Occurs(m, i, sig)
  <2>1. \A f \in s.files : p <= f.at => n < f.at + Len(sig)
    BY <1>2, <1>5, <1>6
  <2> QED  BY <1>6, <2>1 DEF h, m, b
<1>7. CASE /\ h \in 0 .. Len(m) - Len(sig) /\ Occurs(m, h, sig)
           /\ \A i \in 0 .. h - 1 : ~Occurs(m, i, sig)
  <2>1. h \in Nat /\ p + h + Len(sig) <= n /\ p + h \in 0 .. Len(b) - Len(sig)
    BY <1>1, <1>7, SMTT(30) DEF b
  <2>2. Occurs(b, p + h, sig)
    BY <1>1, <1>7, <2>1
  <2>3. PICK f \in s.files : f.at <= p + h /\ p + h < f.ends
    BY <1>2, <2>1, <2>2
  <2>4. p <= f.at /\ f.at + Len(sig) <= n /\ f.at \in Nat
    BY <1>2, <1>3, <2>1, <2>3
  <2>5. ASSUME NEW g \in s.files, p <= g.at PROVE p + h <= g.at
    <3>0. g.at \in Nat
      BY <1>2
    <3> SUFFICES ASSUME g.at < p + h PROVE FALSE
      BY <2>1, <3>0
    <3>1. g.at \in Nat /\ g.at + Len(sig) <= n
      BY <2>1, <3>0
    <3>2. Occurs(m, g.at - p, sig)
      BY <1>5, <2>5, <3>1
    <3>3. g.at - p \in 0 .. h - 1
      BY <2>1, <2>5, <3>1
    <3> QED  BY <1>7, <3>2, <3>3
  <2>6. f.at = p + h
    BY <2>1, <2>3, <2>4, <2>5
  <2>7. NextFile(s, p, n, f) /\ h = f.at - p
    BY <2>1, <2>4, <2>5, <2>6 DEF NextFile
  <2> QED  BY <2>4, <2>7 DEF h, m, b
<1> QED  BY <1>4, <1>6, <1>7

\* A call that finds nothing is right when it passes no file and, if it does not
\* go on, none is complete.
LEMMA NothingIsRight ==
    ASSUME NEW s, s.driver # "HTTP", NEW p \in Nat, NEW n \in Nat, NEW q \in Nat,
           \A f \in s.files : WholeFile(s, f), Between(s, p),
           \A f \in s.files : p <= f.at => p + q <= f.at,
           q = 0 => \A f \in s.files : p <= f.at => n < f.ends,
           Finder(s.driver, SubSeq(s.bytes, p + 1, n)) = Nothing(q)
    PROVE  FindsNext(s, p, n)
<1>1. PICK r : r = Finder(s.driver, SubSeq(s.bytes, p + 1, n))
  OBVIOUS
<1>2. r.next = q /\ r.size = 0
  BY <1>1 DEF Nothing
<1>3. \A f \in s.files : f.at \in Nat /\ f.ends \in Nat
  BY DEF WholeFile
<1>4. Between(s, p + q)
  BY <1>3 DEF Between
<1>5. {f \in s.files : p <= f.at /\ f.at < p + q} = {}
  BY <1>3
<1> QED  BY <1>1, <1>2, <1>4, <1>5 DEF FindsNext

\* So is one that stops at the next file, when that is not complete.
LEMMA WaitingIsRight ==
    ASSUME NEW s, s.driver # "HTTP", NEW p \in Nat, NEW n \in Nat,
           \A f \in s.files : WholeFile(s, f), Separate(s), Between(s, p),
           NEW f, NextFile(s, p, n, f), n < f.ends,
           Finder(s.driver, SubSeq(s.bytes, p + 1, n)) = Nothing(f.at - p)
    PROVE  FindsNext(s, p, n)
<1>1. \A g \in s.files : g.at \in Nat /\ g.ends \in Nat /\ g.at < g.ends
  BY DEF WholeFile
<1>2. f \in s.files /\ p <= f.at /\ f.at - p \in Nat /\ p + (f.at - p) = f.at
      /\ \A g \in s.files : p <= g.at => f.at <= g.at
  BY <1>1 DEF NextFile
<1>3. ASSUME NEW g \in s.files, p <= g.at PROVE n < g.ends
  BY <1>1, <1>2, <1>3 DEF Separate
<1> QED  BY <1>2, <1>3, NothingIsRight

\* And one that finds the next file, which is complete.
LEMMA FindingIsRight ==
    ASSUME NEW s, s.driver # "HTTP", NEW p \in Nat, NEW n \in Nat,
           \A f \in s.files : WholeFile(s, f), Separate(s), Between(s, p),
           NEW f, NextFile(s, p, n, f), f.ends <= n,
           Finder(s.driver, SubSeq(s.bytes, p + 1, n)) = Got(f.at - p, f.ends - p)
    PROVE  FindsNext(s, p, n)
<1>1. \A g \in s.files : g.at \in Nat /\ g.ends \in Nat /\ g.at < g.ends
  BY DEF WholeFile
<1>2. f \in s.files /\ p <= f.at /\ \A g \in s.files : p <= g.at => f.at <= g.at
  BY DEF NextFile
<1>3. f.needs = f.ends /\ f.size = f.ends - f.at /\ f.size # 0 /\ f.text = <<>>
  BY <1>1, <1>2 DEF WholeFile
<1>4. PICK r : r = Finder(s.driver, SubSeq(s.bytes, p + 1, n))
  OBVIOUS
<1>5. /\ r.next = f.ends - p /\ r.at = f.at - p /\ r.size = (f.ends - p) - (f.at - p)
  BY <1>4 DEF Got
<1>6. /\ r.next \in Nat /\ r.next # 0 /\ p + r.next = f.ends /\ p + r.at = f.at
      /\ r.size = f.size
  BY <1>1, <1>2, <1>3, <1>5
<1>7. Between(s, f.ends)
  BY <1>1, <1>2 DEF Between, Separate
<1>8. {g \in s.files : p <= g.at /\ g.at < f.ends} = {f}
  <2>1. ASSUME NEW g \in s.files, p <= g.at, g.at < f.ends PROVE g = f
    BY <1>1, <1>2, <2>1 DEF Separate
  <2>2. f.at < f.ends
    BY <1>1, <1>2
  <2> QED  BY <1>2, <2>1, <2>2
<1> QED  BY <1>2, <1>3, <1>4, <1>6, <1>7, <1>8 DEF FindsNext

-----------------------------------------------------------------------------
\* A number of four bytes is read in a part as in the stream.
LEMMA Uint32InPart ==
    ASSUME NEW b \in Seq(Byte), NEW p \in Nat, NEW n \in Nat, p <= n, n <= Len(b),
           NEW i \in Nat, p + i + 4 <= n
    PROVE  LET m == SubSeq(b, p + 1, n)
           IN  Uint32(m, i) = Uint32(b, p + i) /\ Uint32LE(m, i) = Uint32LE(b, p + i)
<1> DEFINE m == SubSeq(b, p + 1, n)
<1>1. \A k \in Nat : p + k < n => At(m, k) = At(b, p + k)
  BY ReadInPart
<1> HIDE DEF m
<1>2. \A k \in {0, 1, 2, 3} : /\ i + k \in Nat /\ p + (i + k) < n /\ p + (i + k) = (p + i) + k
                              /\ i + 0 = i
  OBVIOUS
<1>3. \A k \in {0, 1, 2, 3} : At(m, i + k) = At(b, (p + i) + k)
  BY <1>1, <1>2
<1>4. /\ At(m, i) = At(b, p + i) /\ At(m, i + 1) = At(b, (p + i) + 1)
      /\ At(m, i + 2) = At(b, (p + i) + 2) /\ At(m, i + 3) = At(b, (p + i) + 3)
  <2>1. i + 0 = i /\ (p + i) + 0 = p + i
    OBVIOUS
  <2> QED  BY <1>3, <2>1
<1>5. Uint32(m, i) = Uint32(b, p + i) /\ Uint32LE(m, i) = Uint32LE(b, p + i)
  BY <1>4 DEF Uint32, Uint32LE
<1> QED  BY <1>5 DEF m

\* The chunks, at places C behind the header at h, lead to the end of a PNG of size z,
\* and to nothing as long as that is not there.
LEMMA ChunksLead ==
    ASSUME NEW b \in Seq(Byte), NEW p \in Nat, NEW n \in Nat, n <= Len(b),
           NEW h \in Nat, p + h <= n, NEW z \in Nat,
           NEW C \in SUBSET Nat, 8 \in C, \A d \in C : d + 12 <= z,
           \A d \in C : IF SubSeq(b, p + h + d + 5, p + h + d + 8) \in IEND THEN d + 12 = z
                        ELSE d + 12 + Uint32(b, p + h + d) \in C
    PROVE  PngEnd(SubSeq(b, p + 1, n), h) = IF p + h + z <= n THEN h + z ELSE NONE_AT
<1> DEFINE m == SubSeq(b, p + 1, n)
           len == Len(m) - h
           stop == {d \in Nat : \/ d > len - 12
                                \/ SubSeq(m, h + d + 5, h + d + 8) \in IEND
                                \/ Uint32(m, h + d) > len - d}
           val == [d \in Nat |-> IF d > len - 12 \/ SubSeq(m, h + d + 5, h + d + 8) \notin IEND
                                 THEN NONE_AT ELSE h + d + 12]
           nxt == [d \in Nat |-> d + 12 + Uint32(m, h + d)]
<1>1. Len(b) \in Nat /\ p <= n
  OBVIOUS
<1>2. m \in Seq(Byte) /\ Len(m) = n - p /\ len = n - (p + h) /\ Len(m) \in Nat /\ len \in Nat
  <2>1. m \in Seq(Byte) /\ Len(m) = n - p
    BY <1>1, ElementsOf
  <2> QED  BY <1>1, <2>1
<1>4. ASSUME NEW d \in Nat, d <= len - 12
      PROVE  /\ SubSeq(m, h + d + 5, h + d + 8) = SubSeq(b, p + h + d + 5, p + h + d + 8)
             /\ Uint32(m, h + d) = Uint32(b, p + h + d)
  <2>1. /\ h + d + 4 \in Nat /\ h + d + 8 \in Nat /\ h + d + 4 <= h + d + 8
        /\ p + (h + d + 8) <= n
        /\ (h + d + 4) + 1 = h + d + 5 /\ p + (h + d + 4) + 1 = p + h + d + 5
        /\ p + (h + d + 8) = p + h + d + 8
        /\ h + d \in Nat /\ p + (h + d) + 4 <= n /\ p + (h + d) = p + h + d
    <3> HIDE DEF m, len
    <3> QED  BY <1>1, <1>2, <1>4
  <2>2. \A i \in Nat, j \in Nat : i <= j /\ p + j <= n =>
           SubSeq(m, i + 1, j) = SubSeq(b, p + i + 1, p + j)
    BY <1>1, ReadInPart
  <2>3. SubSeq(m, (h + d + 4) + 1, h + d + 8) = SubSeq(b, p + (h + d + 4) + 1, p + (h + d + 8))
    <3> HIDE DEF m
    <3> QED  BY <2>1, <2>2
  <2>4. Uint32(m, h + d) = Uint32(b, p + (h + d))
    BY <1>1, <2>1, Uint32InPart
  <2> HIDE DEF m
  <2> QED  BY <2>1, <2>3, <2>4
<1>5. \A d \in Nat : Uint32(m, h + d) \in Nat
  <2>1. \A d \in Nat : h + d \in Nat
    OBVIOUS
  <2> HIDE DEF m
  <2> QED  BY <1>2, <2>1, Uint32IsNat
<1>6. \A g : \A d \in Nat : PngChunk(m, h, g, d) = IF d \in stop THEN val[d] ELSE g[nxt[d]]
  BY DEF PngChunk
<1> HIDE DEF m, len
<1>7. Walk(Nat, Place, Len(m), stop, nxt)
  <2>1. nxt \in [Nat -> Nat] /\ stop \in SUBSET Nat
    <3>1. \A d \in Nat : d + 12 + Uint32(m, h + d) \in Nat
      BY <1>5
    <3> QED  BY <3>1
  <2>2. ASSUME NEW d \in Nat, d \notin stop PROVE d < nxt[d] /\ d < Len(m)
    <3>1. Uint32(m, h + d) \in Nat /\ ~(d > len - 12)
      BY <1>5, <2>2
    <3>2. d < d + 12 + Uint32(m, h + d) /\ d < Len(m)
      BY <1>2, <3>1
    <3> QED  BY <3>2
  <2> HIDE DEF stop, nxt
  <2>3. Place \in [Nat -> Nat] /\ \A d \in Nat : Place[d] = d
    BY DEF Place
  <2> QED  BY <1>2, <2>1, <2>2, <2>3 DEF Walk
<1>8. StaysIn(C, Nat, stop, nxt)
  <2>1. ASSUME NEW d \in C, d \notin stop PROVE nxt[d] \in C
    <3>1. d \in Nat /\ d <= len - 12 /\ SubSeq(m, h + d + 5, h + d + 8) \notin IEND
      BY <1>2, <2>1
    <3>2. d + 12 + Uint32(b, p + h + d) \in C
      BY <1>4, <3>1
    <3> QED  BY <1>4, <3>1, <3>2
  <2> QED  BY <2>1 DEF StaysIn
<1>9. ASSUME NEW d \in C, d \in stop
      PROVE  val[d] = IF p + h + z <= n THEN h + z ELSE NONE_AT
  <2>1. d \in Nat /\ d + 12 <= z
    OBVIOUS
  <2>2. CASE d > len - 12
    <3>1. ~(p + h + z <= n)
      BY <1>2, <2>1, <2>2
    <3> QED  BY <2>1, <2>2, <3>1
  <2>3. CASE d <= len - 12 /\ SubSeq(m, h + d + 5, h + d + 8) \in IEND
    <3>1. d + 12 = z
      BY <1>4, <2>1, <2>3
    <3>2. p + h + z <= n /\ h + d + 12 = h + z /\ ~(d > len - 12)
      BY <1>2, <2>1, <2>3, <3>1
    <3>3. val[d] = h + d + 12
      BY <2>1, <2>3, <3>2
    <3> QED  BY <3>2, <3>3
  <2>4. CASE d <= len - 12 /\ SubSeq(m, h + d + 5, h + d + 8) \notin IEND
    <3>1. Uint32(m, h + d) > len - d /\ Uint32(m, h + d) \in Nat
      <4>1. ~(d > len - 12)
        BY <1>2, <2>1, <2>4
      <4> QED  BY <1>5, <1>9, <2>1, <2>4, <4>1
    <3>2. d + 12 + Uint32(m, h + d) \in C
      BY <1>4, <2>1, <2>4
    <3>3. PICK u \in Nat : u = Uint32(m, h + d)
      BY <3>1
    <3>4. ~(p + h + z <= n)
      <4>1. d + 12 + u \in C /\ u > len - d
        BY <3>1, <3>2, <3>3
      <4>2. d + 12 + u + 12 <= z
        BY <4>1
      <4> QED  BY <1>2, <2>1, <4>1, <4>2, SMTT(30)
    <3>5. val[d] = NONE_AT
      BY <2>1, <2>4
    <3> QED  BY <3>4, <3>5
  <2>5. d > len - 12 \/ d <= len - 12
    BY <1>2, <2>1
  <2> QED  BY <2>2, <2>3, <2>4, <2>5
<1> HIDE DEF stop, val, nxt
<1>10. \E g : g = [d \in Nat |-> PngChunk(m, h, g, d)]
  <2>1. PICK g : Follows(g, Nat, stop, val, nxt)
    BY <1>7, WalkExists
  <2> QED  BY <1>6, <2>1 DEF Follows
<1>11. PICK g : g = [d \in Nat |-> PngChunk(m, h, g, d)] /\ PngEnd(m, h) = g[8]
  BY <1>10 DEF PngEnd
<1>12. Follows(g, Nat, stop, val, nxt)
  BY <1>6, <1>11 DEF Follows
<1>13. PICK d \in C : d \in stop /\ g[8] = val[d]
  <2>1. WalksFrom(8, Nat, Place, Len(m), stop, val, nxt, g, C)
    BY <1>7, <1>8, <1>12 DEF WalksFrom
  <2>2. EndsIn(8, stop, val, g, C)
    BY <2>1, WalkEnds
  <2> QED  BY <2>2 DEF EndsIn
<1> QED  BY <1>9, <1>11, <1>13 DEF m

\* find_png_eoi finds the end of a PNG of the stream when all of it has arrived.
LEMMA PngEndFound ==
    ASSUME NEW s, s.bytes \in Seq(Byte), NEW p \in Nat, NEW n \in Nat, n <= Len(s.bytes),
           NEW f, WholeFile(s, f), PngFile(s.bytes, f), p <= f.at, f.at <= n
    PROVE  PngEnd(SubSeq(s.bytes, p + 1, n), f.at - p) =
              IF f.ends <= n THEN f.ends - p ELSE NONE_AT
<1>1. PICK b \in Seq(Byte) : b = s.bytes
  OBVIOUS
<1>2. PICK x \in Nat, z \in Nat : x = f.at /\ z = f.size /\ f.ends = x + z
  BY DEF WholeFile
<1>3. PICK h \in Nat : h = x - p /\ p + h = x
  <2>1. x - p \in Nat /\ p + (x - p) = x
    BY <1>2
  <2> QED  BY <2>1
<1>4. PICK C : C = f.parts
  OBVIOUS
<1>5. /\ 8 \in C /\ C \subseteq 8 .. z - 12
      /\ \A d \in C : IF SubSeq(b, x + d + 5, x + d + 8) \in IEND THEN d + 12 = z
                      ELSE d + 12 + Uint32(b, x + d) \in C
  BY <1>1, <1>2, <1>4 DEF PngFile
<1>6. C \in SUBSET Nat /\ \A d \in C : d + 12 <= z
  <2>1. \A d \in 8 .. z - 12 : d \in Nat /\ d + 12 <= z
    BY <1>2
  <2>2. C \subseteq 8 .. z - 12
    BY <1>5
  <2> QED  BY <2>1, <2>2
<1>7. \A d \in C : IF SubSeq(b, p + h + d + 5, p + h + d + 8) \in IEND THEN d + 12 = z
                   ELSE d + 12 + Uint32(b, p + h + d) \in C
  BY <1>3, <1>5
<1>8. p + h <= n /\ n <= Len(b)
  BY <1>1, <1>2, <1>3
<1>9. PngEnd(SubSeq(b, p + 1, n), h) = IF p + h + z <= n THEN h + z ELSE NONE_AT
  BY <1>5, <1>6, <1>7, <1>8, ChunksLead
<1>10. h + z = (x + z) - p /\ p + h + z = x + z
  <2>1. p + h = x /\ h \in Nat /\ x \in Nat /\ z \in Nat
    BY <1>3
  <2> QED  BY <2>1, SMTT(30)
<1> QED  BY <1>1, <1>2, <1>3, <1>9, <1>10

\* find_png_image is right on a stream of PNGs, whatever part of it has arrived.
LEMMA PngIsRight ==
    ASSUME NEW s, PictureStream(s), s.driver = "png", s.bytes \in Seq(Byte),
           NEW p \in Nat, NEW n \in Nat, p < n, n <= Len(s.bytes), Between(s, p)
    PROVE  FindsNext(s, p, n)
<1> DEFINE m == SubSeq(s.bytes, p + 1, n)
           h == Memstr(m, 0, Len(m), PNG)
<1>1. /\ Separate(s) /\ \A f \in s.files : WholeFile(s, f)
      /\ Marked(s, PNG) /\ \A f \in s.files : PngFile(s.bytes, f)
  BY DEF PictureStream
<1>2. Len(PNG) = 8 /\ Len(PNG) \in Nat
  BY DEF PNG
<1>3. Len(m) = n - p /\ p <= n /\ s.driver # "HTTP"
  <2>1. p <= n
    OBVIOUS
  <2> QED  BY <2>1, ElementsOf
<1>4. \A f \in s.files : f.at \in Nat /\ f.ends \in Nat /\ f.at + 8 <= f.ends
  <2>1. \A f \in s.files : f.at \in Nat /\ f.size \in Nat /\ f.ends = f.at + f.size /\ 8 <= f.size
    BY <1>1, <1>2 DEF WholeFile, Marked
  <2> QED  BY <2>1
<1>5. Finder(s.driver, m) =
         IF Len(m) < 8 THEN Nothing(0)
         ELSE IF h = NONE_AT THEN Nothing(Len(m) - 8)
         ELSE IF PngEnd(m, h) = NONE_AT THEN Nothing(h)
         ELSE Got(h, PngEnd(m, h))
  BY DEF Finder, FindPng
<1>6. \/ h = NONE_AT /\ \A f \in s.files : p <= f.at => n < f.at + 8
      \/ \E f \in s.files : NextFile(s, p, n, f) /\ h = f.at - p /\ f.at + 8 <= n
  BY <1>1, <1>2, <1>3, SignatureFound
<1> HIDE DEF m, h
<1>7. CASE Len(m) < 8
  <2>1. \A f \in s.files : p <= f.at => p + 0 <= f.at /\ n < f.ends
    BY <1>3, <1>4, <1>7
  <2>2. Finder(s.driver, m) = Nothing(0)
    BY <1>5, <1>7
  <2> QED  BY <1>1, <1>3, <2>1, <2>2, NothingIsRight DEF m
<1>8. CASE ~(Len(m) < 8) /\ h = NONE_AT /\ \A f \in s.files : p <= f.at => n < f.at + 8
  <2>1. PICK q : q = Len(m) - 8
    OBVIOUS
  <2>2. q \in Nat /\ p + q = n - 8
    BY <1>3, <1>8, <2>1
  <2>3. \A f \in s.files : p <= f.at => p + q <= f.at /\ n < f.ends
    BY <1>4, <1>8, <2>2
  <2>4. Finder(s.driver, m) = Nothing(q)
    BY <1>5, <1>8, <2>1
  <2> QED  BY <1>1, <1>3, <2>2, <2>3, <2>4, NothingIsRight DEF m
<1>9. CASE ~(Len(m) < 8) /\ \E f \in s.files : NextFile(s, p, n, f) /\ h = f.at - p
  <2>1. PICK f \in s.files : NextFile(s, p, n, f) /\ h = f.at - p
    BY <1>9
  <2>2. p <= f.at /\ f.at <= n /\ h # NONE_AT
    BY <1>4, <2>1 DEF NextFile, NONE_AT
  <2>3. PngEnd(m, h) = IF f.ends <= n THEN f.ends - p ELSE NONE_AT
    BY <1>1, <2>1, <2>2, PngEndFound DEF m
  <2>4. CASE f.ends <= n
    <3>1. f.ends - p # NONE_AT
      BY <1>4, <2>2 DEF NONE_AT
    <3>2. Finder(s.driver, m) = Got(f.at - p, f.ends - p)
      BY <1>5, <1>9, <2>1, <2>2, <2>3, <2>4, <3>1
    <3> QED  BY <1>1, <1>3, <2>1, <2>4, <3>2, FindingIsRight DEF m
  <2>5. CASE ~(f.ends <= n)
    <3>1. Finder(s.driver, m) = Nothing(f.at - p)
      BY <1>5, <1>9, <2>1, <2>2, <2>3, <2>5
    <3>2. n < f.ends
      BY <1>4, <2>5
    <3> QED  BY <1>1, <1>3, <2>1, <3>1, <3>2, WaitingIsRight DEF m
  <2> QED  BY <2>4, <2>5
<1> QED  BY <1>6, <1>7, <1>8, <1>9

-----------------------------------------------------------------------------
\* A whole segment is read in a part as in the stream.
LEMMA SegmentInPart ==
    ASSUME NEW b \in Seq(Byte), NEW p \in Nat, NEW n \in Nat, p <= n, n <= Len(b)
    PROVE  LET m == SubSeq(b, p + 1, n)
           IN  \A i \in Nat : p + i + 4 <= n =>
                  SegmentLen(m, i) = SegmentLen(b, p + i) /\ At(m, i + 1) = At(b, p + i + 1)
<1> DEFINE m == SubSeq(b, p + 1, n)
<1>1. \A k \in Nat : p + k < n => At(m, k) = At(b, p + k)
  BY ReadInPart
<1> HIDE DEF m
<1>2. ASSUME NEW i \in Nat, p + i + 4 <= n
      PROVE  SegmentLen(m, i) = SegmentLen(b, p + i) /\ At(m, i + 1) = At(b, p + i + 1)
  <2>1. PICK y \in Nat : y = p + i
    OBVIOUS
  <2>2. /\ i + 1 \in Nat /\ p + (i + 1) < n /\ p + (i + 1) = y + 1
        /\ i + 2 \in Nat /\ p + (i + 2) < n /\ p + (i + 2) = y + 2
        /\ i + 3 \in Nat /\ p + (i + 3) < n /\ p + (i + 3) = y + 3
        /\ p + i < n
    BY <1>2, <2>1
  <2>3. /\ At(m, i + 1) = At(b, p + (i + 1)) /\ At(m, i + 2) = At(b, p + (i + 2))
        /\ At(m, i + 3) = At(b, p + (i + 3))
    BY <1>1, <2>2
  <2>4. /\ At(m, i) = At(b, y) /\ At(m, i + 1) = At(b, y + 1)
        /\ At(m, i + 2) = At(b, y + 2) /\ At(m, i + 3) = At(b, y + 3)
    BY <1>1, <2>1, <2>2, <2>3
  <2>5. SegmentLen(m, i) = SegmentLen(b, y)
    BY <2>4 DEF SegmentLen
  <2> QED  BY <2>1, <2>4, <2>5
<1> QED  BY <1>2 DEF m

\* A segment cut off by the end of the data leads to a place where there is none.
LEMMA SegmentCut ==
    ASSUME NEW m \in Seq(Byte), NEW c \in Nat, ~(c + 4 <= Len(m)), SegmentLen(m, c) # 0
    PROVE  c + SegmentLen(m, c) \in Nat /\ At(m, c + SegmentLen(m, c)) = 0
           /\ c + SegmentLen(m, c) + 1 >= Len(m)
<1>1. Len(m) \in Nat
  OBVIOUS
<1>2. ASSUME NEW i \in Nat, i >= Len(m) PROVE At(m, i) = 0
  BY <1>1, <1>2 DEF At
<1>3. /\ c + 2 \in Nat /\ At(m, c + 2) \in Nat /\ c + 3 \in Nat /\ At(m, c + 3) = 0
      /\ c + 1 \in Nat
  <2>1. c + 1 \in Nat /\ c + 2 \in Nat /\ c + 3 \in Nat /\ c + 3 >= Len(m)
    BY <1>1
  <2> QED  BY <1>2, <2>1, AtIsByte
<1>4. SegmentLen(m, c) \in {4, 8, 256 * At(m, c + 2) + At(m, c + 3) + 2}
  BY DEF SegmentLen
<1>5. PICK a \in Nat : a = At(m, c + 2)
  BY <1>3
<1>6. PICK l \in Nat : l = SegmentLen(m, c)
  BY SegmentLenIsNat
<1>7. l \in {4, 8, 256 * a + 2}
  BY <1>3, <1>4, <1>5, <1>6
<1>8. At(m, c + 1) # 0
  <2>1. PICK t \in Nat : t = At(m, c + 1)
    BY <1>3, AtIsByte
  <2>2. /\ 0 \notin {216, 217, 222, 223, 204} \cup 208 .. 215 /\ 0 # 221
        /\ 0 \notin (192 .. 207 \ {204}) \cup {SOS, 219} \cup 224 .. 254
    BY DEF SOS
  <2>3. SegmentLen(m, c) # 0 => \/ t \in {216, 217, 222, 223, 204} \cup 208 .. 215 \/ t = 221
                                \/ t \in (192 .. 207 \ {204}) \cup {SOS, 219} \cup 224 .. 254
    BY <2>1, ZenonT(30) DEF SegmentLen
  <2>4. t # 0
    <3> SUFFICES ASSUME t = 0 PROVE FALSE
      OBVIOUS
    <3>1. \/ 0 \in {216, 217, 222, 223, 204} \cup 208 .. 215 \/ 0 = 221
          \/ 0 \in (192 .. 207 \ {204}) \cup {SOS, 219} \cup 224 .. 254
      BY <2>3
    <3> QED  BY <2>2, <3>1
  <2> QED  BY <2>1, <2>4
<1>9. c + 1 < Len(m)
  BY <1>1, <1>2, <1>3, <1>8
<1>10. CASE c + l >= Len(m)
  <2>1. c + l \in Nat /\ c + l + 1 >= Len(m)
    BY <1>1, <1>10
  <2> QED  BY <1>2, <1>6, <1>10, <2>1
<1>11. CASE ~(c + l >= Len(m))
  <2>1. l = 2 /\ a = 0 /\ c + l + 1 >= Len(m) /\ c + l = c + 2
    BY <1>1, <1>7, <1>9, <1>11
  <2> QED  BY <1>3, <1>5, <1>6, <2>1
<1> QED  BY <1>10, <1>11

\* The first end marker from c on.
LEMMA EndMarker ==
    ASSUME NEW m, NEW c \in Nat, NEW len \in Nat
    PROVE  \/ /\ Memstr(m, c, len, EOI) = NONE_AT
              /\ \A i \in c .. len - 2 : ~Occurs(m, i, EOI)
           \/ \E q \in c .. len - 2 :
                 /\ Memstr(m, c, len, EOI) = q /\ Occurs(m, q, EOI)
                 /\ \A i \in c .. q - 1 : ~Occurs(m, i, EOI)
<1>1. ASSUME NEW sig, Len(sig) = 2
      PROVE  \/ /\ Memstr(m, c, len, sig) = NONE_AT
                /\ \A i \in c .. len - 2 : ~Occurs(m, i, sig)
             \/ \E q \in c .. len - 2 :
                   /\ Memstr(m, c, len, sig) = q /\ Occurs(m, q, sig)
                   /\ \A i \in c .. q - 1 : ~Occurs(m, i, sig)
  <2>1. Len(sig) \in Nat
    BY <1>1
  <2>2. \/ /\ Memstr(m, c, len, sig) = NONE_AT
           /\ \A i \in c .. len - Len(sig) : ~Occurs(m, i, sig)
        \/ /\ Memstr(m, c, len, sig) \in c .. len - Len(sig)
           /\ Occurs(m, Memstr(m, c, len, sig), sig)
           /\ \A i \in c .. Memstr(m, c, len, sig) - 1 : ~Occurs(m, i, sig)
    BY <2>1, MemstrFinds
  <2> QED  BY <1>1, <2>2
<1>2. Len(EOI) = 2
  BY DEF EOI
<1> QED  BY <1>1, <1>2

\* The segments, at places C behind the beginning at h, lead to the end of a JPEG of
\* size z, and to nothing as long as that is not there.
LEMMA SegmentsLead ==
    ASSUME NEW b \in Seq(Byte), NEW p \in Nat, NEW n \in Nat, n <= Len(b),
           NEW h \in Nat, p + h <= n, NEW z \in Nat, p + h + z <= Len(b),
           NEW C \in SUBSET Nat, 2 \in C, \A d \in C : d + 4 <= z,
           \A d \in C :
              IF At(b, p + h + d + 1) = SOS
              THEN /\ Occurs(b, p + h + z - 2, EOI)
                   /\ \A i \in p + h + d .. p + h + z - 3 : ~Occurs(b, i, EOI)
              ELSE /\ SegmentLen(b, p + h + d) # 0
                   /\ d + SegmentLen(b, p + h + d) \in C
    PROVE  JpegSegments(SubSeq(b, p + 1, n), h) =
              IF p + h + z <= n THEN Got(h, h + z) ELSE Nothing(h)
<1> DEFINE m == SubSeq(b, p + 1, n)
           len == Len(m)
           all == p + h + z <= n
           end(c) == Memstr(m, c, len, EOI)
           stop == {c \in Nat : len < c \/ At(m, c + 1) = SOS \/ SegmentLen(m, c) = 0}
           val == [c \in Nat |-> IF ~(len < c) /\ At(m, c + 1) = SOS /\ end(c) # NONE_AT
                                 THEN Got(h, end(c) + 2) ELSE Nothing(h)]
           nxt == [c \in Nat |-> c + SegmentLen(m, c)]
           I == {c \in Nat : \/ \E d \in C : c = h + d
                             \/ ~all /\ c + 1 >= len /\ At(m, c) = 0}
<1>1. Len(b) \in Nat /\ p <= n
  OBVIOUS
<1>2. m \in Seq(Byte) /\ len = n - p /\ len \in Nat
  <2>1. m \in Seq(Byte) /\ Len(m) = n - p
    BY <1>1, ElementsOf
  <2> QED  BY <1>1, <2>1
<1>3. \A c \in Nat : SegmentLen(m, c) \in Nat
  BY <1>2, SegmentLenIsNat
<1>4. ASSUME NEW d \in C, h + d + 4 <= len
      PROVE  /\ SegmentLen(m, h + d) = SegmentLen(b, p + h + d)
             /\ At(m, h + d + 1) = At(b, p + h + d + 1)
  <2>1. h + d \in Nat /\ p + (h + d) + 4 <= n /\ p + (h + d) = p + h + d
    <3> HIDE DEF len, m
    <3> QED  BY <1>1, <1>2, <1>4
  <2>2. \A i \in Nat : p + i + 4 <= n =>
           SegmentLen(m, i) = SegmentLen(b, p + i) /\ At(m, i + 1) = At(b, p + i + 1)
    BY <1>1, SegmentInPart
  <2> HIDE DEF m
  <2>3. /\ SegmentLen(m, h + d) = SegmentLen(b, p + (h + d))
        /\ At(m, h + d + 1) = At(b, p + (h + d) + 1)
    BY <2>1, <2>2
  <2> QED  BY <2>1, <2>3
<1>5. ASSUME NEW i \in Nat, i < len PROVE At(m, i) = At(b, p + i)
  <2>1. \A k \in Nat : p + k < n => At(m, k) = At(b, p + k)
    BY <1>1, ReadInPart
  <2> HIDE DEF m, len
  <2> QED  BY <1>1, <1>2, <1>5, <2>1
<1>6. ASSUME NEW i \in Nat, i + 2 <= len
      PROVE  Occurs(m, i, EOI) <=> Occurs(b, p + i, EOI)
  <2>1. Len(EOI) = 2
    BY DEF EOI
  <2>2. p + i + Len(EOI) <= n /\ Len(EOI) \in Nat
    <3> HIDE DEF m, len
    <3> QED  BY <1>1, <1>2, <1>6, <2>1
  <2> QED  BY <1>1, <2>2, OccursInPart
<1>7. ASSUME NEW c \in Nat
      PROVE  \/ end(c) = NONE_AT /\ \A i \in c .. len - 2 : ~Occurs(m, i, EOI)
             \/ /\ end(c) \in c .. len - 2 /\ Occurs(m, end(c), EOI)
                /\ \A i \in c .. end(c) - 1 : ~Occurs(m, i, EOI)
  <2>1. len \in Nat
    BY <1>2
  <2> HIDE DEF m, len
  <2>2. \/ /\ end(c) = NONE_AT
           /\ \A i \in c .. len - 2 : ~Occurs(m, i, EOI)
        \/ \E q \in c .. len - 2 :
              /\ end(c) = q /\ Occurs(m, q, EOI)
              /\ \A i \in c .. q - 1 : ~Occurs(m, i, EOI)
    BY <2>1, EndMarker
  <2> HIDE DEF end
  <2> QED  BY <2>2
<1>8. \A g : \A c \in Nat : JpegSegment(m, h, g, c) = IF c \in stop THEN val[c] ELSE g[nxt[c]]
  BY DEF JpegSegment
<1> HIDE DEF m, len, end, all
<1>9. Walk(Nat, Place, len + 1, stop, nxt)
  <2>1. nxt \in [Nat -> Nat] /\ stop \in SUBSET Nat
    <3>1. ASSUME NEW c \in Nat PROVE c + SegmentLen(m, c) \in Nat
      <4>1. PICK l \in Nat : l = SegmentLen(m, c)
        BY <1>3
      <4> QED  BY <4>1
    <3> QED  BY <3>1
  <2>2. ASSUME NEW c \in Nat, c \notin stop PROVE c < nxt[c] /\ c < len + 1
    <3>1. SegmentLen(m, c) \in Nat /\ SegmentLen(m, c) # 0 /\ ~(len < c)
      BY <1>3, <2>2
    <3>2. c < c + SegmentLen(m, c) /\ c < len + 1
      BY <1>2, <3>1
    <3> QED  BY <3>2
  <2>3. len + 1 \in Nat
    BY <1>2
  <2> HIDE DEF stop, nxt
  <2>4. Place \in [Nat -> Nat] /\ \A c \in Nat : Place[c] = c
    BY DEF Place
  <2> QED  BY <2>1, <2>2, <2>3, <2>4 DEF Walk
\* Reads behind the data.
<1>10. \A c \in Nat : c >= len => At(m, c) = 0
  BY <1>2 DEF At, len
<1>11. ASSUME NEW c \in Nat, At(m, c) = 0 PROVE SegmentLen(m, c) = 0
  BY <1>11 DEF SegmentLen
<1>12. ASSUME NEW d \in C
       PROVE  /\ d \in Nat /\ h + d \in Nat /\ h + d + 1 \in Nat /\ p + (h + d + 1) = p + h + d + 1
              /\ all => h + d + 4 <= len
  BY <1>1, <1>2 DEF all
<1>13. StaysIn(I, Nat, stop, nxt) /\ h + 2 \in I
  <2>1. ASSUME NEW c \in I, c \notin stop PROVE nxt[c] \in I
    <3>1. c \in Nat /\ At(m, c + 1) # SOS /\ SegmentLen(m, c) # 0 /\ SegmentLen(m, c) \in Nat
      BY <1>3, <2>1
    <3>2. PICK d \in C : c = h + d
      BY <1>11, <3>1
    <3>3. CASE c + 4 <= len
      <4>1. SegmentLen(m, c) = SegmentLen(b, p + h + d) /\ At(b, p + h + d + 1) # SOS
        BY <1>4, <3>1, <3>2, <3>3
      <4>2. d + SegmentLen(m, c) \in C
        BY <4>1
      <4>3. c + SegmentLen(m, c) = h + (d + SegmentLen(m, c)) /\ c + SegmentLen(m, c) \in Nat
        BY <3>1, <3>2
      <4> QED  BY <3>1, <4>2, <4>3
    <3>4. CASE ~(c + 4 <= len)
      <4>1. ~all
        BY <1>12, <3>2, <3>4
      <4>2. /\ c + SegmentLen(m, c) \in Nat /\ At(m, c + SegmentLen(m, c)) = 0
            /\ c + SegmentLen(m, c) + 1 >= len
        BY <1>2, <3>1, <3>4, SegmentCut DEF len
      <4> QED  BY <3>1, <4>1, <4>2
    <3> QED  BY <3>3, <3>4
  <2>2. h + 2 \in I
    BY <1>12
  <2> QED  BY <2>1, <2>2 DEF StaysIn
<1>14. ASSUME NEW c \in I, c \in stop
       PROVE  val[c] = IF all THEN Got(h, h + z) ELSE Nothing(h)
  <2>1. CASE ~all /\ c + 1 >= len /\ At(m, c) = 0
    <3>1. At(m, c + 1) # SOS
      <4>1. c + 1 \in Nat
        OBVIOUS
      <4> QED  BY <1>10, <2>1, <4>1 DEF SOS
    <3> QED  BY <2>1, <3>1
  <2>2. CASE \E d \in C : c = h + d
    <3>1. PICK d \in C : c = h + d
      BY <2>2
    <3>2. /\ d \in Nat /\ c \in Nat /\ d + 4 <= z /\ c + 1 \in Nat
          /\ p + (c + 1) = p + h + d + 1
      BY <1>12, <3>1
    <3>3. CASE ~(len < c) /\ At(m, c + 1) = SOS
      <4>1. c + 1 < len
        BY <1>2, <1>10, <3>2, <3>3 DEF SOS
      <4>2. At(b, p + h + d + 1) = SOS
        BY <1>5, <3>2, <3>3, <4>1
      <4>3. /\ Occurs(b, p + h + z - 2, EOI)
            /\ \A i \in p + h + d .. p + h + z - 3 : ~Occurs(b, i, EOI)
        BY <4>2
      <4>4. ASSUME NEW i \in Nat, c <= i, i + 2 <= len, i + 2 < h + z
            PROVE  ~Occurs(m, i, EOI)
        <5>1. p + i \in p + h + d .. p + h + z - 3
          BY <3>1, <3>2, <4>4
        <5> QED  BY <1>6, <4>3, <4>4, <5>1
      <4>5. CASE all
        <5>1. PICK e \in Nat : e = (h + z) - 2 /\ c <= e /\ e + 2 <= len /\ e + 2 = h + z
                               /\ p + e = p + h + z - 2
          <6>1. (h + z) - 2 \in Nat /\ c <= (h + z) - 2 /\ ((h + z) - 2) + 2 <= len
            BY <1>1, <1>2, <3>1, <3>2, <4>5 DEF all
          <6>2. ((h + z) - 2) + 2 = h + z /\ p + ((h + z) - 2) = p + h + z - 2
            OBVIOUS
          <6> QED  BY <6>1, <6>2
        <5>2. Occurs(m, e, EOI)
          BY <1>6, <4>3, <5>1
        <5>3. e \in c .. len - 2
          BY <1>2, <3>2, <5>1
        <5>4. PICK k : k = end(c)
          OBVIOUS
        <5>5. /\ k \in c .. len - 2 /\ Occurs(m, k, EOI)
              /\ \A i \in c .. k - 1 : ~Occurs(m, i, EOI)
          BY <1>7, <3>2, <5>2, <5>3, <5>4
        <5>6. ~(k < e)
          <6> SUFFICES ASSUME k < e PROVE FALSE
            OBVIOUS
          <6>1. k \in Nat /\ c <= k /\ k + 2 <= len /\ k + 2 < h + z
            BY <1>2, <3>2, <5>1, <5>5
          <6> QED  BY <4>4, <5>5, <6>1
        <5>7. ~(e < k)
          <6> SUFFICES ASSUME e < k PROVE FALSE
            OBVIOUS
          <6>1. e \in c .. k - 1
            BY <1>2, <3>2, <5>1, <5>5
          <6> QED  BY <5>2, <5>5, <6>1
        <5>8. k = e /\ k # NONE_AT /\ k + 2 = h + z
          BY <1>2, <3>2, <5>1, <5>5, <5>6, <5>7 DEF NONE_AT
        <5>9. val[c] = Got(h, end(c) + 2)
          BY <3>2, <3>3, <5>4, <5>8
        <5> QED  BY <4>5, <5>4, <5>8, <5>9
      <4>6. CASE ~all
        <5>1. ASSUME NEW i \in c .. len - 2 PROVE ~Occurs(m, i, EOI)
          <6>1. i \in Nat /\ c <= i /\ i + 2 <= len /\ i + 2 < h + z
            BY <1>1, <1>2, <3>2, <4>6 DEF all
          <6> QED  BY <4>4, <6>1
        <5>2. end(c) = NONE_AT
          BY <1>7, <3>2, <5>1
        <5>3. val[c] = Nothing(h)
          BY <3>2, <5>2
        <5> QED  BY <4>6, <5>3
      <4> QED  BY <4>5, <4>6
    <3>4. CASE ~(~(len < c) /\ At(m, c + 1) = SOS)
      <4>1. val[c] = Nothing(h)
        BY <3>2, <3>4
      <4>2. ~all
        <5> SUFFICES ASSUME all PROVE FALSE
          OBVIOUS
        <5>1. h + d + 4 <= len /\ ~(len < c)
          BY <1>2, <1>12, <3>1, <3>2
        <5>2. SegmentLen(m, c) = 0 /\ At(m, c + 1) # SOS
          BY <1>14, <3>2, <3>4, <5>1
        <5>3. SegmentLen(b, p + h + d) = 0 /\ At(b, p + h + d + 1) # SOS
          BY <1>4, <3>1, <5>1, <5>2
        <5> QED  BY <5>3
      <4> QED  BY <4>1, <4>2
    <3> QED  BY <3>3, <3>4
  <2> QED  BY <2>1, <2>2
<1> HIDE DEF stop, val, nxt, I
<1>15. \E g : g = [c \in Nat |-> JpegSegment(m, h, g, c)]
  <2>1. PICK g : Follows(g, Nat, stop, val, nxt)
    BY <1>9, WalkExists
  <2> QED  BY <1>8, <2>1 DEF Follows
<1>16. PICK g : g = [c \in Nat |-> JpegSegment(m, h, g, c)] /\ JpegSegments(m, h) = g[h + 2]
  BY <1>15 DEF JpegSegments
<1>17. Follows(g, Nat, stop, val, nxt)
  BY <1>8, <1>16 DEF Follows
<1>18. PICK c \in I : c \in stop /\ g[h + 2] = val[c]
  <2>1. WalksFrom(h + 2, Nat, Place, len + 1, stop, val, nxt, g, I)
    BY <1>9, <1>13, <1>17 DEF WalksFrom
  <2>2. EndsIn(h + 2, stop, val, g, I)
    BY <2>1, WalkEnds
  <2> QED  BY <2>2 DEF EndsIn
<1> QED  BY <1>14, <1>16, <1>18 DEF m, all

\* find_jpeg_image finds a JPEG of the stream when all of it has arrived.
LEMMA JpegFileFound ==
    ASSUME NEW s, s.bytes \in Seq(Byte), NEW p \in Nat, NEW n \in Nat, n <= Len(s.bytes),
           NEW f, WholeFile(s, f), JpegFile(s.bytes, f), p <= f.at, f.at <= n
    PROVE  JpegSegments(SubSeq(s.bytes, p + 1, n), f.at - p) =
              IF f.ends <= n THEN Got(f.at - p, f.ends - p) ELSE Nothing(f.at - p)
<1>1. PICK b \in Seq(Byte) : b = s.bytes
  OBVIOUS
<1>2. PICK x \in Nat, z \in Nat : x = f.at /\ z = f.size /\ f.ends = x + z /\ x + z <= Len(b)
  BY <1>1 DEF WholeFile
<1>3. PICK h \in Nat : h = x - p /\ p + h = x
  <2>1. x - p \in Nat /\ p + (x - p) = x
    BY <1>2
  <2> QED  BY <2>1
<1>4. PICK C : C = f.parts
  OBVIOUS
<1>5. /\ 2 \in C /\ C \subseteq 2 .. z - 4
      /\ \A d \in C :
            IF At(b, x + d + 1) = SOS
            THEN /\ Occurs(b, x + z - 2, EOI)
                 /\ \A i \in x + d .. x + z - 3 : ~Occurs(b, i, EOI)
            ELSE SegmentLen(b, x + d) # 0 /\ d + SegmentLen(b, x + d) \in C
  <2>1. 2 \in C /\ C \subseteq 2 .. z - 4
    BY <1>2, <1>4 DEF JpegFile
  <2>2. ASSUME NEW d \in C
        PROVE  IF At(b, x + d + 1) = SOS
               THEN /\ Occurs(b, x + z - 2, EOI)
                    /\ \A i \in x + d .. x + z - 3 : ~Occurs(b, i, EOI)
               ELSE SegmentLen(b, x + d) # 0 /\ d + SegmentLen(b, x + d) \in C
    <3>1. IF At(s.bytes, f.at + d + 1) = SOS
          THEN /\ Occurs(s.bytes, f.ends - 2, EOI)
               /\ \A i \in f.at + d .. f.ends - 3 : ~Occurs(s.bytes, i, EOI)
          ELSE /\ SegmentLen(s.bytes, f.at + d) # 0
               /\ d + SegmentLen(s.bytes, f.at + d) \in f.parts
      BY <1>4 DEF JpegFile
    <3>2. IF At(b, x + d + 1) = SOS
          THEN /\ Occurs(b, (x + z) - 2, EOI)
               /\ \A i \in x + d .. (x + z) - 3 : ~Occurs(b, i, EOI)
          ELSE SegmentLen(b, x + d) # 0 /\ d + SegmentLen(b, x + d) \in C
      <4>1. s.bytes = b /\ f.at = x /\ f.ends = x + z /\ f.parts = C
        BY <1>1, <1>2, <1>4
      <4> QED  BY <3>1, <4>1, ZenonT(30)
    <3> QED  BY <3>2
  <2> QED  BY <2>1, <2>2
<1>6. C \in SUBSET Nat /\ \A d \in C : d + 4 <= z
  <2>1. \A d \in 2 .. z - 4 : d \in Nat /\ d + 4 <= z
    BY <1>2
  <2>2. C \subseteq 2 .. z - 4
    BY <1>5
  <2> QED  BY <2>1, <2>2
<1>7. \A d \in C :
         IF At(b, p + h + d + 1) = SOS
         THEN /\ Occurs(b, p + h + z - 2, EOI)
              /\ \A i \in p + h + d .. p + h + z - 3 : ~Occurs(b, i, EOI)
         ELSE SegmentLen(b, p + h + d) # 0 /\ d + SegmentLen(b, p + h + d) \in C
  BY <1>3, <1>5
<1>8. p + h <= n /\ n <= Len(b) /\ p + h + z <= Len(b)
  BY <1>1, <1>2, <1>3
<1>9. JpegSegments(SubSeq(b, p + 1, n), h) =
         IF p + h + z <= n THEN Got(h, h + z) ELSE Nothing(h)
  BY <1>5, <1>6, <1>7, <1>8, SegmentsLead
<1>10. h + z = (x + z) - p /\ p + h + z = x + z
  <2>1. p + h = x /\ h \in Nat /\ x \in Nat /\ z \in Nat
    BY <1>3
  <2> QED  BY <2>1, SMTT(30)
<1> QED  BY <1>1, <1>2, <1>3, <1>9, <1>10

\* It is right on a stream of JPEGs, whatever part of it has arrived.
LEMMA JpegIsRight ==
    ASSUME NEW s, PictureStream(s), s.driver = "jpeg", s.bytes \in Seq(Byte),
           NEW p \in Nat, NEW n \in Nat, p < n, n <= Len(s.bytes), Between(s, p)
    PROVE  FindsNext(s, p, n)
<1> DEFINE m == SubSeq(s.bytes, p + 1, n)
           h == Memstr(m, 0, Len(m), SOI)
<1>1. /\ Separate(s) /\ \A f \in s.files : WholeFile(s, f)
      /\ Marked(s, SOI) /\ \A f \in s.files : JpegFile(s.bytes, f)
  BY DEF PictureStream
<1>2. Len(SOI) = 2 /\ Len(SOI) \in Nat
  BY DEF SOI
<1>3. Len(m) = n - p /\ p <= n /\ s.driver # "HTTP"
  <2>1. p <= n
    OBVIOUS
  <2> QED  BY <2>1, ElementsOf
<1>4. \A f \in s.files : f.at \in Nat /\ f.ends \in Nat /\ f.at + 2 <= f.ends
  <2>1. \A f \in s.files : f.at \in Nat /\ f.size \in Nat /\ f.ends = f.at + f.size
    BY <1>1 DEF WholeFile
  <2>2. \A f \in s.files : Len(SOI) <= f.size
    BY <1>1, <1>2 DEF Marked
  <2> QED  BY <1>2, <2>1, <2>2
<1>5. Finder(s.driver, m) = IF h = NONE_AT THEN Nothing(Len(m) - 1) ELSE JpegSegments(m, h)
  BY DEF Finder, FindJpeg
<1>6. \/ h = NONE_AT /\ \A f \in s.files : p <= f.at => n < f.at + 2
      \/ \E f \in s.files : NextFile(s, p, n, f) /\ h = f.at - p /\ f.at + 2 <= n
  BY <1>1, <1>2, <1>3, SignatureFound
<1> HIDE DEF m, h
<1>7. CASE h = NONE_AT /\ \A f \in s.files : p <= f.at => n < f.at + 2
  <2>1. PICK q : q = Len(m) - 1
    OBVIOUS
  <2>2. q \in Nat /\ p + q = n - 1
    BY <1>3, <2>1
  <2>3. \A f \in s.files : p <= f.at => p + q <= f.at /\ n < f.ends
    BY <1>4, <1>7, <2>2
  <2>4. Finder(s.driver, m) = Nothing(q)
    BY <1>5, <1>7, <2>1
  <2> QED  BY <1>1, <1>3, <2>2, <2>3, <2>4, NothingIsRight DEF m
<1>8. CASE \E f \in s.files : NextFile(s, p, n, f) /\ h = f.at - p
  <2>1. PICK f \in s.files : NextFile(s, p, n, f) /\ h = f.at - p
    BY <1>8
  <2>2. p <= f.at /\ f.at <= n /\ h # NONE_AT
    BY <1>4, <2>1 DEF NextFile, NONE_AT
  <2>3. Finder(s.driver, m) = IF f.ends <= n THEN Got(f.at - p, f.ends - p) ELSE Nothing(f.at - p)
    <3>1. JpegSegments(m, f.at - p) =
             IF f.ends <= n THEN Got(f.at - p, f.ends - p) ELSE Nothing(f.at - p)
      BY <1>1, <2>2, JpegFileFound DEF m
    <3> QED  BY <1>5, <2>1, <2>2, <3>1
  <2>4. CASE f.ends <= n
    BY <1>1, <1>3, <2>1, <2>3, <2>4, FindingIsRight DEF m
  <2>5. CASE ~(f.ends <= n)
    <3>1. n < f.ends
      BY <1>4, <2>5
    <3> QED  BY <1>1, <1>3, <2>1, <2>3, <2>5, <3>1, WaitingIsRight DEF m
  <2> QED  BY <2>4, <2>5
<1> QED  BY <1>6, <1>7, <1>8

-----------------------------------------------------------------------------
\* find_webp_image is right on a stream of nothing but WebPs.
LEMMA WebpIsRight ==
    ASSUME NEW s, PictureStream(s), s.driver = "webp", s.bytes \in Seq(Byte),
           NEW p \in Nat, NEW n \in Nat, p < n, n <= Len(s.bytes), Between(s, p)
    PROVE  FindsNext(s, p, n)
<1> DEFINE m == SubSeq(s.bytes, p + 1, n)
           h == Memstr(m, 0, Len(m), RIFF)
           whole == /\ Len(m) >= 20 /\ h # NONE_AT /\ Len(m) - h >= 20
                    /\ Occurs(m, h + 8, WEBP) /\ Occurs(m, h + 12, VP8)
                    /\ \/ /\ At(m, h + 15) \in {32, 76}
                          /\ Uint32LE(m, h + 4) = Uint32LE(m, h + 16) + 12
                       \/ At(m, h + 15) = 88
                    /\ Uint32LE(m, h + 4) + 8 <= Len(m)
<1>1. /\ Separate(s) /\ \A f \in s.files : WholeFile(s, f)
      /\ Filled(s) /\ \A f \in s.files : WebpFile(s.bytes, f)
  BY DEF PictureStream
<1>2. /\ Len(m) = n - p /\ p <= n /\ s.driver # "HTTP" /\ Len(s.bytes) \in Nat
      /\ Len(m) \in Nat
  <2>1. p <= n /\ Len(s.bytes) \in Nat
    OBVIOUS
  <2>2. Len(m) = n - p
    BY <2>1, ElementsOf
  <2> HIDE DEF m
  <2> QED  BY <2>1, <2>2
<1>3. Finder(s.driver, m) = IF whole THEN Got(h, h + Uint32LE(m, h + 4) + 8) ELSE Nothing(0)
  BY DEF Finder, FindWebp
<1>4. PICK f \in s.files : f.at = p
  <2>1. p \in 0 .. Len(s.bytes) - 1
    BY <1>2
  <2>2. PICK f \in s.files : f.at <= p /\ p < f.ends
    BY <1>1, <2>1 DEF Filled
  <2>3. f.at \in Nat /\ f.ends \in Nat
    BY <1>1 DEF WholeFile
  <2> QED  BY <2>2, <2>3 DEF Between
<1>5. PICK z \in Nat : z = f.size /\ f.ends = p + z /\ z >= 20
  <2>1. f.size \in Nat /\ f.ends = f.at + f.size
    BY <1>1, <1>4 DEF WholeFile
  <2>2. f.size >= 20
    BY <1>1, <1>4 DEF WebpFile
  <2> QED  BY <1>4, <2>1, <2>2
<1>6. \A g \in s.files : g.at \in Nat /\ g.ends \in Nat /\ g.at + 20 <= g.ends
  <2>1. \A g \in s.files : g.at \in Nat /\ g.size \in Nat /\ g.ends = g.at + g.size
    BY <1>1 DEF WholeFile
  <2>2. \A g \in s.files : g.size >= 20
    BY <1>1 DEF WebpFile
  <2> QED  BY <2>1, <2>2
<1>7. NextFile(s, p, n, f)
  BY <1>4 DEF NextFile
<1>8. CASE n < p + 20
  <2>1. Finder(s.driver, m) = Nothing(0)
    <3>1. ~(Len(m) >= 20)
      <4> HIDE DEF m
      <4> QED  BY <1>2, <1>8
    <3> HIDE DEF m, h
    <3> QED  BY <1>3, <3>1
  <2>2. \A g \in s.files : p <= g.at => p + 0 <= g.at /\ n < g.ends
    BY <1>6, <1>8
  <2> QED  BY <1>1, <1>2, <2>1, <2>2, NothingIsRight
<1>9. CASE n >= p + 20
  <2>1. /\ Uint32LE(s.bytes, p + 4) + 8 = z
        /\ Occurs(s.bytes, p, RIFF) /\ Occurs(s.bytes, p + 8, WEBP) /\ Occurs(s.bytes, p + 12, VP8)
        /\ \/ /\ At(s.bytes, p + 15) \in {32, 76}
              /\ Uint32LE(s.bytes, p + 4) = Uint32LE(s.bytes, p + 16) + 12
           \/ At(s.bytes, p + 15) = 88
    BY <1>1, <1>4, <1>5 DEF WebpFile
  <2>2. Len(RIFF) = 4 /\ Len(WEBP) = 4 /\ Len(VP8) = 3
    BY DEF RIFF, WEBP, VP8
  <2>3. Occurs(m, 0, RIFF)
    <3>1. p + 0 + Len(RIFF) <= n /\ Len(RIFF) \in Nat /\ p + 0 = p
      BY <1>9, <2>2
    <3>2. Occurs(m, 0, RIFF) <=> Occurs(s.bytes, p + 0, RIFF)
      BY <1>2, <3>1, OccursInPart
    <3> QED  BY <2>1, <3>1, <3>2
  <2>4. Occurs(m, 8, WEBP) /\ Occurs(m, 12, VP8)
    <3>1. /\ p + 8 + Len(WEBP) <= n /\ Len(WEBP) \in Nat
          /\ p + 12 + Len(VP8) <= n /\ Len(VP8) \in Nat
      BY <1>9, <2>2
    <3>2. Occurs(m, 8, WEBP) <=> Occurs(s.bytes, p + 8, WEBP)
      BY <1>2, <3>1, OccursInPart
    <3>3. Occurs(m, 12, VP8) <=> Occurs(s.bytes, p + 12, VP8)
      BY <1>2, <3>1, OccursInPart
    <3> QED  BY <2>1, <3>2, <3>3
  <2>5. At(m, 15) = At(s.bytes, p + 15)
    <3>1. \A i \in Nat : p + i < n => At(m, i) = At(s.bytes, p + i)
      BY <1>2, ReadInPart
    <3> HIDE DEF m
    <3> QED  BY <1>9, <3>1
  <2>6. /\ Uint32LE(m, 4) = Uint32LE(s.bytes, p + 4)
        /\ Uint32LE(m, 16) = Uint32LE(s.bytes, p + 16)
    <3>1. p + 4 + 4 <= n /\ p + 16 + 4 <= n
      BY <1>9
    <3>2. Uint32LE(m, 4) = Uint32LE(s.bytes, p + 4)
      BY <1>2, <3>1, Uint32InPart
    <3>3. Uint32LE(m, 16) = Uint32LE(s.bytes, p + 16)
      BY <1>2, <3>1, Uint32InPart
    <3> QED  BY <3>2, <3>3
  <2>7. Len(m) >= 20
    <3> HIDE DEF m
    <3> QED  BY <1>2, <1>9
  <2>8. h = 0
    <3> HIDE DEF m
    <3>1. \/ h = NONE_AT /\ \A i \in 0 .. Len(m) - Len(RIFF) : ~Occurs(m, i, RIFF)
          \/ /\ h \in 0 .. Len(m) - Len(RIFF)
             /\ \A i \in 0 .. h - 1 : ~Occurs(m, i, RIFF)
      <4>1. Len(RIFF) \in Nat
        BY <2>2
      <4> QED  BY <1>2, <4>1, MemstrFinds
    <3> HIDE DEF h
    <3>2. 0 \in 0 .. Len(m) - Len(RIFF)
      BY <1>2, <2>2, <2>7
    <3>3. h \in Nat /\ ~(0 \in 0 .. h - 1)
      BY <1>2, <2>2, <2>3, <3>1, <3>2
    <3> QED  BY <3>3
  <2> HIDE DEF m, h
  <2>9. whole <=> z <= Len(m)
    <3>1. h + 8 = 8 /\ h + 12 = 12 /\ h + 15 = 15 /\ h + 4 = 4 /\ h + 16 = 16
          /\ Len(m) - h = Len(m) /\ h # NONE_AT
      BY <1>2, <2>8 DEF NONE_AT
    <3> QED  BY <2>1, <2>4, <2>5, <2>6, <2>7, <3>1
  <2>10. h + Uint32LE(m, h + 4) + 8 = z
    <3>1. PICK u \in Nat : u = Uint32LE(m, 4)
      <4>1. p + 4 \in Nat
        OBVIOUS
      <4> QED  BY <2>6, <4>1, Uint32IsNat
    <3>2. h + 4 = 4 /\ h + u + 8 = u + 8 /\ u + 8 = z
      BY <2>1, <2>6, <2>8, <3>1
    <3> QED  BY <3>1, <3>2
  <2>11. Finder(s.driver, m) = IF z <= Len(m) THEN Got(0, z) ELSE Nothing(0)
    <3> HIDE DEF whole
    <3> QED  BY <1>3, <2>8, <2>9, <2>10
  <2>12. f.at - p = 0 /\ f.ends - p = z /\ (z <= Len(m) <=> f.ends <= n)
    BY <1>2, <1>4, <1>5
  <2>13. CASE z <= Len(m)
    BY <1>1, <1>2, <1>7, <2>11, <2>12, <2>13, FindingIsRight DEF m
  <2>14. CASE ~(z <= Len(m))
    <3>1. n < f.ends
      BY <1>6, <2>12, <2>14
    <3> QED  BY <1>1, <1>2, <1>7, <2>11, <2>12, <2>14, <3>1, WaitingIsRight DEF m
  <2> QED  BY <2>13, <2>14
<1> QED  BY <1>8, <1>9

-----------------------------------------------------------------------------
\* All streams are streams of pictures.
Pictures == \A i \in DOMAIN Streams : PictureStream(Streams[i])

\* Then the finders are right on every part of them.
LEMMA PicturesAreFound == ASSUME Pictures PROVE StreamsDescribed /\ FindersRight
<1>1. StreamsDescribed
  BY DEF Pictures, PictureStream, WholeFile, StreamsDescribed
<1>2. ASSUME NEW i \in DOMAIN Streams, NEW n \in 1 .. Len(Streams[i].bytes),
             NEW p \in 0 .. Len(Streams[i].bytes) - 1, p < n, Between(Streams[i], p)
      PROVE  FindsNext(Streams[i], p, n)
  <2>1. PICK s : s = Streams[i]
    OBVIOUS
  <2>2. PictureStream(s) /\ s.driver \in {"png", "jpeg", "webp"}
    BY <2>1 DEF Pictures, PictureStream
  <2>3. s.bytes \in Seq(Byte)
    BY <2>1, <2>2, BytesOf
  <2>4. p \in Nat /\ n \in Nat /\ p < n /\ n <= Len(s.bytes) /\ Between(s, p)
    BY <1>2, <2>1, <2>3
  <2>5. FindsNext(s, p, n)
    BY <2>2, <2>3, <2>4, PngIsRight, JpegIsRight, WebpIsRight
  <2> QED  BY <2>1, <2>5
<1>3. FindersRight
  BY <1>2 DEF FindersRight
<1> QED  BY <1>1, <1>3

-----------------------------------------------------------------------------
(* Streams whose files the finders find. *)

\* What is dispatched for a file.
Dispatched(f) == [at |-> f.at, size |-> f.size, text |-> f.text]
Dispatches == {Dispatched(f) : f \in Files}

\* The data received are the beginning of the stream, and the search resumes
\* between two files.
SearchPlace ==
    /\ sent \in 0 .. Len(Bytes) /\ got = SubSeq(Bytes, 1, sent)
    /\ moff \in Nat /\ Between(Streams[stream], moff)

\* What was dispatched are files that are there, before that place.
FoundBehind ==
    /\ found \in Seq(Dispatches)
    /\ \A i \in 1 .. Len(found) : \E f \in Files :
          found[i] = Dispatched(f) /\ f.needs <= sent /\ f.ends <= moff

\* Every file before the place was dispatched.
NoneSkipped == \A f \in Files : f.at < moff => \E i \in 1 .. Len(found) : found[i] = Dispatched(f)

\* When the search is over, no file behind the place is complete.
NoneLeft == ~dirty => \A f \in Files : moff <= f.at => sent < f.ends

ArrivalInv ==
    /\ stream \in DOMAIN Streams
    /\ odd = {} => SearchPlace /\ FoundBehind /\ NoneSkipped /\ NoneLeft

-----------------------------------------------------------------------------
\* The beginning of a sequence, a part of it from p on, and the next k elements.
LEMMA BeginningOf ==
    ASSUME NEW S, NEW b \in Seq(S), NEW n \in 0 .. Len(b), NEW p \in 0 .. n,
           NEW k \in Nat, n + k <= Len(b)
    PROVE  /\ Len(SubSeq(b, 1, n)) = n /\ SubSeq(b, 1, n) \in Seq(S)
           /\ SubSeq(SubSeq(b, 1, n), 1, n) = SubSeq(b, 1, n)
           /\ SubSeq(SubSeq(b, 1, n), p + 1, n) = SubSeq(b, p + 1, n)
           /\ SubSeq(b, 1, n) \o SubSeq(b, n + 1, n + k) = SubSeq(b, 1, n + k)
           /\ SubSeq(b, p + 1, n) = <<>> <=> p = n
<1>1. /\ Len(SubSeq(b, 1, n)) = n /\ SubSeq(b, 1, n) \in Seq(S)
      /\ \A i \in 1 .. n : SubSeq(b, 1, n)[i] = b[i]
  OBVIOUS
<1>2. SubSeq(SubSeq(b, 1, n), 1, n) = SubSeq(b, 1, n)
  BY <1>1
<1>3. SubSeq(SubSeq(b, 1, n), p + 1, n) = SubSeq(b, p + 1, n)
  BY <1>1
<1>4. SubSeq(b, 1, n) \o SubSeq(b, n + 1, n + k) = SubSeq(b, 1, n + k)
  OBVIOUS
<1>5. SubSeq(b, p + 1, n) = <<>> <=> p = n
  OBVIOUS
<1> QED  BY <1>1, <1>2, <1>3, <1>4, <1>5

\* What the assumptions say of the stream under way.
LEMMA StreamFacts ==
    ASSUME StreamsDescribed, stream \in DOMAIN Streams
    PROVE  /\ Bytes \in Seq({Bytes[i] : i \in DOMAIN Bytes}) /\ Len(Bytes) \in Nat
           /\ \A f \in Files : /\ f.at \in Nat /\ f.size \in Nat /\ f.ends \in Nat
                               /\ f.needs \in Nat /\ f.size > 0 /\ f.at + f.size <= f.ends
<1>1. /\ Bytes \in Seq({Bytes[i] : i \in DOMAIN Bytes})
      /\ \A f \in Files : /\ f.at \in Nat /\ f.size \in Nat /\ f.ends \in Nat
                          /\ f.needs \in Nat /\ f.size > 0 /\ f.at + f.size <= f.ends
  BY StreamsAssumption DEF StreamsDescribed, Bytes, Files
<1> QED  BY <1>1

\* ArrivalInv holds before the first packet.
LEMMA ArrivalInit == ASSUME StreamsDescribed, Init PROVE ArrivalInv
<1>1. stream \in DOMAIN Streams /\ sent = 0 /\ got = <<>> /\ moff = 0 /\ ~dirty /\ found = <<>>
  BY DEF Init
<1>2. /\ Len(Bytes) \in Nat /\ SubSeq(Bytes, 1, 0) = <<>>
      /\ \A f \in Files : f.at \in Nat /\ f.size > 0 /\ f.size \in Nat /\ f.ends \in Nat
                          /\ f.at + f.size <= f.ends
  BY <1>1, StreamFacts
<1>3. SearchPlace
  BY <1>1, <1>2 DEF SearchPlace, Between, Files
<1>4. FoundBehind
  BY <1>1 DEF FoundBehind
<1>5. NoneSkipped /\ NoneLeft
  BY <1>1, <1>2 DEF NoneSkipped, NoneLeft
<1> QED  BY <1>1, <1>3, <1>4, <1>5 DEF ArrivalInv

-----------------------------------------------------------------------------
\* A packet that is read right adds its bytes to the data, and everything found
\* stays there.
LEMMA PacketStep ==
    ASSUME StreamsDescribed, ArrivalInv, NEW f \in Framings, NEW k \in Sizes, Packet(f, k)
    PROVE  ArrivalInv'
<1>1. stream \in DOMAIN Streams /\ stream' = stream
  BY DEF ArrivalInv, Packet, vars
<1>2. CASE odd' # {}
  BY <1>1, <1>2 DEF ArrivalInv
<1>3. CASE odd' = {}
  <2>1. odd = {} /\ SearchPlace /\ FoundBehind /\ NoneSkipped /\ NoneLeft
    BY <1>3 DEF ArrivalInv, Packet, vars
  <2>2. CASE UNCHANGED vars
    BY <2>1, <2>2 DEF ArrivalInv, vars, SearchPlace, FoundBehind, NoneSkipped, NoneLeft,
                      Files, Bytes, Between, Dispatches, Dispatched
  <2>3. CASE ~UNCHANGED vars
    <3>1. PICK pad : /\ pad = <<>>
                     /\ got' = SubSeq(got, 1, sent) \o SubSeq(Bytes, sent + 1, sent + k) \o pad
                     /\ sent' = sent + k /\ dirty' = TRUE /\ UNCHANGED <<moff, found>>
                     /\ sent + k <= Len(Bytes)
      BY <1>3, <2>3 DEF Packet
    <3>2. k \in Nat /\ sent \in 0 .. Len(Bytes) /\ Len(Bytes) \in Nat
      BY <2>1, <1>1, StreamFacts, SizesAssumption DEF SearchPlace
    <3>3. got' = SubSeq(Bytes, 1, sent + k)
      <4> DEFINE S == {Bytes[i] : i \in DOMAIN Bytes}
                 now == SubSeq(Bytes, 1, sent + k)
      <4>1. got = SubSeq(Bytes, 1, sent) /\ Bytes \in Seq(S)
        BY <2>1, <1>1, StreamFacts DEF SearchPlace
      <4> HIDE DEF S
      <4>2. sent + k \in 0 .. Len(Bytes) /\ 0 \in 0 .. sent /\ 0 \in Nat
            /\ (sent + k) + 0 <= Len(Bytes) /\ 0 \in 0 .. (sent + k)
        BY <3>1, <3>2
      <4>3. /\ SubSeq(SubSeq(Bytes, 1, sent), 1, sent) = SubSeq(Bytes, 1, sent)
            /\ SubSeq(Bytes, 1, sent) \o SubSeq(Bytes, sent + 1, sent + k) = now
        BY <3>1, <3>2, <4>1, <4>2, BeginningOf, SMTT(30)
      <4>4. now \in Seq(S)
        BY <4>1, <4>2, BeginningOf
      <4> HIDE DEF now
      <4>5. now \o <<>> = now
        BY <4>4
      <4>6. got' = SubSeq(got, 1, sent) \o SubSeq(Bytes, sent + 1, sent + k) \o <<>>
        BY <3>1
      <4>7. got' = now \o <<>>
        BY <4>1, <4>3, <4>6
      <4> QED  BY <4>5, <4>7 DEF now
    <3>4. SearchPlace'
      <4>1. Bytes' = Bytes /\ Streams[stream]' = Streams[stream] /\ moff' = moff
        BY <1>1, <3>1 DEF Bytes
      <4>2. sent + k \in 0 .. Len(Bytes) /\ sent' = sent + k
        BY <3>1, <3>2
      <4>3. moff \in Nat /\ Between(Streams[stream], moff)
        BY <2>1 DEF SearchPlace
      <4>4. Between(Streams[stream], moff)'
        BY <4>1, <4>3 DEF Between
      <4> QED  BY <4>1, <4>2, <4>3, <4>4, <3>3 DEF SearchPlace
    <3>5. FoundBehind'
      <4>1. /\ found' = found /\ moff' = moff /\ Files' = Files /\ Dispatches' = Dispatches
            /\ sent' = sent + k
        BY <1>1, <3>1 DEF Files, Dispatches, Dispatched
      <4>2. \A g \in Files : g.needs <= sent => g.needs <= sent + k
        BY <3>2, <1>1, StreamFacts
      <4>3. ASSUME NEW i \in 1 .. Len(found)
            PROVE  \E g \in Files : found[i] = Dispatched(g) /\ g.needs <= sent + k
                                    /\ g.ends <= moff
        BY <2>1, <4>2 DEF FoundBehind
      <4> QED  BY <2>1, <4>1, <4>3 DEF FoundBehind, Dispatched
    <3>6. NoneSkipped' /\ NoneLeft'
      BY <1>1, <2>1, <3>1 DEF NoneSkipped, NoneLeft, Files, Dispatched
    <3> QED  BY <1>1, <3>4, <3>5, <3>6 DEF ArrivalInv
  <2> QED  BY <2>2, <2>3
<1> QED  BY <1>2, <1>3

-----------------------------------------------------------------------------
\* A turn of the search finds nothing and passes nothing, or finds the one file
\* that it passes; it ends the search only when no file behind is complete.
LEMMA SearchResult ==
    ASSUME StreamsDescribed, FindersRight, stream \in DOMAIN Streams, SearchPlace, Search
    PROVE  \E next \in Nat :
              /\ moff' = moff + next
              /\ Between(Streams[stream], moff + next)
              /\ ~dirty' => \A f \in Files : moff + next <= f.at => sent < f.ends
              /\ \/ /\ found' = found
                    /\ \A f \in Files : moff <= f.at => moff + next <= f.at
                 \/ \E f \in Files :
                       /\ found' = Append(found, Dispatched(f))
                       /\ f.needs <= sent /\ moff <= f.at /\ f.at < moff + next
                       /\ \A g \in Files : moff <= g.at /\ g.at < moff + next => g = f
<1> DEFINE S == {Bytes[i] : i \in DOMAIN Bytes}
<1>1. /\ Bytes \in Seq(S) /\ sent \in 0 .. Len(Bytes) /\ Len(Bytes) \in Nat
      /\ got = SubSeq(Bytes, 1, sent) /\ moff \in Nat /\ Between(Streams[stream], moff)
  BY StreamFacts DEF SearchPlace
<1> HIDE DEF S
<1>2. Len(got) = sent /\ got \in Seq(S)
  <2>1. 0 \in 0 .. sent /\ 0 \in Nat /\ sent + 0 <= Len(Bytes)
    BY <1>1
  <2> QED  BY <1>1, <2>1, BeginningOf
<1>3. CASE moff >= sent
  <2>1. SubSeq(got, moff + 1, Len(got)) = <<>>
    BY <1>1, <1>2, <1>3
  <2>2. moff' = moff + 0 /\ ~dirty' /\ found' = found
    BY <2>1 DEF Search, Nothing, Resume
  <2>3. moff + 0 = moff
    BY <1>1
  <2>4. \A f \in Files : moff <= f.at => sent < f.ends
    BY <1>1, <1>3, StreamFacts
  <2> QED  BY <1>1, <2>2, <2>3, <2>4
<1>4. CASE moff < sent
  <2> DEFINE s == Streams[stream]
             m == SubSeq(Bytes, moff + 1, sent)
             r == Finder(Driver, m)
             text == IF Driver # "HTTP" THEN <<>>
                     ELSE Url(SubSeq(m, r.at + 1, r.at + r.size))
             passed == {f \in Files : moff <= f.at /\ f.at < moff + r.next}
  <2>1. SubSeq(got, moff + 1, Len(got)) = m /\ m # <<>>
    <3>1. /\ moff \in 0 .. sent /\ 0 \in Nat /\ sent + 0 <= Len(Bytes)
          /\ moff # sent
      BY <1>1, <1>4
    <3> QED  BY <1>1, <1>2, <3>1, BeginningOf
  <2>2. FindsNext(s, moff, sent)
    <3>1. sent \in 1 .. Len(Bytes) /\ moff \in 0 .. Len(Bytes) - 1
      BY <1>1, <1>4
    <3> QED  BY <1>1, <1>4, <3>1 DEF FindersRight, Bytes
  <2>3. /\ r.next \in Nat /\ Between(s, moff + r.next)
        /\ IF r.size = 0 THEN passed = {}
           ELSE \E f \in Files : /\ passed = {f} /\ f.needs <= sent
                                 /\ f.at = moff + r.at /\ f.size = r.size /\ f.text = text
        /\ r.next = 0 => \A f \in Files : moff <= f.at => sent < f.ends
    BY <2>2 DEF FindsNext, Bytes, Driver, Files
  <2>4. /\ moff' = moff + r.next
        /\ dirty' = (r.next # 0 /\ moff + r.next < sent)
        /\ found' = IF r.size = 0 THEN found
                    ELSE Append(found, [at |-> moff + r.at, size |-> r.size, text |-> text])
    BY <2>1, <1>2 DEF Search, Resume
  <2> HIDE DEF s, m, r, text
  <2>5. ~dirty' => \A f \in Files : moff + r.next <= f.at => sent < f.ends
    <3> SUFFICES ASSUME ~dirty', NEW f \in Files, moff + r.next <= f.at PROVE sent < f.ends
      OBVIOUS
    <3>1. f.at \in Nat /\ f.ends \in Nat /\ f.at < f.ends
      BY StreamFacts
    <3>2. CASE r.next = 0
      BY <3>2, <3>1, <2>3, <1>1
    <3>3. CASE moff + r.next >= sent
      BY <3>3, <3>1, <2>3, <1>1
    <3>4. ~(r.next # 0 /\ moff + r.next < sent)
      BY <2>4
    <3>5. r.next = 0 \/ moff + r.next >= sent
      BY <3>4, <2>3, <1>1
    <3> QED  BY <3>2, <3>3, <3>5
  <2>6. CASE r.size = 0
    <3>1. \A f \in Files : moff <= f.at => moff + r.next <= f.at
      <4> SUFFICES ASSUME NEW f \in Files, moff <= f.at PROVE moff + r.next <= f.at
        OBVIOUS
      <4>1. f \notin passed /\ f.at \in Nat
        BY <2>6, <2>3, StreamFacts
      <4> QED  BY <4>1, <1>1, <2>3
    <3>2. found' = found
      BY <2>4, <2>6
    <3> QED  BY <2>3, <2>4, <2>5, <3>1, <3>2 DEF s
  <2>7. CASE r.size # 0
    <3>1. PICK f \in Files : /\ passed = {f} /\ f.needs <= sent
                             /\ f.at = moff + r.at /\ f.size = r.size /\ f.text = text
      BY <2>3, <2>7
    <3>2. moff <= f.at /\ f.at < moff + r.next
      BY <3>1
    <3>3. \A g \in Files : moff <= g.at /\ g.at < moff + r.next => g = f
      BY <3>1
    <3>4. found' = Append(found, Dispatched(f))
      BY <2>4, <2>7, <3>1 DEF Dispatched
    <3> QED  BY <2>3, <2>4, <2>5, <3>1, <3>2, <3>3, <3>4 DEF s
  <2> QED  BY <2>6, <2>7
<1>5. moff >= sent \/ moff < sent
  BY <1>1
<1> QED  BY <1>3, <1>4, <1>5

\* A turn of the search preserves ArrivalInv.
LEMMA SearchStep ==
    ASSUME StreamsDescribed, FindersRight, ArrivalInv, Search
    PROVE  ArrivalInv'
<1>1. /\ stream \in DOMAIN Streams /\ stream' = stream /\ sent' = sent /\ got' = got
      /\ odd' = odd
  BY DEF ArrivalInv, Search
<1>2. CASE odd # {}
  BY <1>1, <1>2 DEF ArrivalInv
<1>3. CASE odd = {}
  <2>1. SearchPlace /\ FoundBehind /\ NoneSkipped
    BY <1>3 DEF ArrivalInv
  <2>2. PICK next \in Nat :
           /\ moff' = moff + next
           /\ Between(Streams[stream], moff + next)
           /\ ~dirty' => \A f \in Files : moff + next <= f.at => sent < f.ends
           /\ \/ /\ found' = found
                 /\ \A f \in Files : moff <= f.at => moff + next <= f.at
              \/ \E f \in Files :
                    /\ found' = Append(found, Dispatched(f))
                    /\ f.needs <= sent /\ moff <= f.at /\ f.at < moff + next
                    /\ \A g \in Files : moff <= g.at /\ g.at < moff + next => g = f
    BY <1>1, <2>1, SearchResult
  <2>3. /\ Bytes' = Bytes /\ Files' = Files /\ Dispatches' = Dispatches
        /\ Streams[stream]' = Streams[stream]
    BY <1>1 DEF Bytes, Files, Dispatches, Dispatched
  <2>4. /\ moff \in Nat /\ sent \in Nat
        /\ \A f \in Files : /\ f.at \in Nat /\ f.size \in Nat /\ f.ends \in Nat
                            /\ f.needs \in Nat /\ f.size > 0 /\ f.at + f.size <= f.ends
    BY <1>1, <2>1, StreamFacts DEF SearchPlace
  <2>5. SearchPlace'
    <3>1. Between(Streams[stream], moff)'
      BY <2>2, <2>3 DEF Between
    <3> QED  BY <1>1, <2>1, <2>2, <2>3, <2>4, <3>1 DEF SearchPlace
  <2>6. NoneLeft'
    BY <1>1, <2>2, <2>3 DEF NoneLeft
  <2>7. CASE /\ found' = found
             /\ \A f \in Files : moff <= f.at => moff + next <= f.at
    <3>1. FoundBehind'
      <4>1. ASSUME NEW i \in 1 .. Len(found)
            PROVE  \E f \in Files : found[i] = Dispatched(f) /\ f.needs <= sent
                                    /\ f.ends <= moff + next
        BY <2>1, <2>4 DEF FoundBehind
      <4> QED  BY <1>1, <2>1, <2>2, <2>3, <2>7, <4>1 DEF FoundBehind, Dispatched
    <3>2. NoneSkipped'
      <4>1. \A f \in Files : f.at < moff + next => f.at < moff
        BY <2>4, <2>7
      <4> QED  BY <2>1, <2>2, <2>3, <2>7, <4>1 DEF NoneSkipped, Dispatched
    <3> QED  BY <1>1, <2>5, <2>6, <3>1, <3>2 DEF ArrivalInv
  <2>8. CASE \E f \in Files :
                /\ found' = Append(found, Dispatched(f))
                /\ f.needs <= sent /\ moff <= f.at /\ f.at < moff + next
                /\ \A g \in Files : moff <= g.at /\ g.at < moff + next => g = f
    <3>1. PICK f \in Files :
             /\ found' = Append(found, Dispatched(f))
             /\ f.needs <= sent /\ moff <= f.at /\ f.at < moff + next
             /\ \A g \in Files : moff <= g.at /\ g.at < moff + next => g = f
      BY <2>8
    <3>2. found \in Seq(Dispatches) /\ Dispatched(f) \in Dispatches
      BY <2>1 DEF FoundBehind, Dispatches
    <3>3. PICK n : n = Len(found)
      OBVIOUS
    <3>4. /\ found' \in Seq(Dispatches) /\ Len(found') = n + 1 /\ n \in Nat
          /\ \A i \in 1 .. n : found'[i] = found[i]
          /\ found'[n + 1] = Dispatched(f)
      BY <3>1, <3>2, <3>3, Appended
    <3>5. f.ends <= moff + next
      BY <2>2, <2>4, <3>1 DEF Between, Files
    <3>6. FoundBehind'
      <4>1. ASSUME NEW i \in 1 .. n
            PROVE  \E g \in Files : found[i] = Dispatched(g) /\ g.needs <= sent
                                    /\ g.ends <= moff + next
        <5>1. PICK g \in Files : found[i] = Dispatched(g) /\ g.needs <= sent /\ g.ends <= moff
          BY <2>1, <3>3 DEF FoundBehind
        <5>2. g.ends <= moff + next
          BY <2>4, <3>1, <5>1
        <5> QED  BY <5>1, <5>2
      <4>2. ASSUME NEW i \in 1 .. (n + 1)
            PROVE  \E g \in Files : found'[i] = Dispatched(g) /\ g.needs <= sent
                                    /\ g.ends <= moff + next
        <5>1. CASE i = n + 1
          BY <5>1, <3>1, <3>4, <3>5
        <5>2. CASE i \in 1 .. n
          BY <5>2, <3>4, <4>1
        <5> QED  BY <5>1, <5>2, <3>4
      <4>3. Dispatches' = Dispatches
        BY <2>3
      <4> QED  BY <1>1, <2>2, <2>3, <3>4, <4>2, <4>3 DEF FoundBehind, Dispatched
    <3>7. NoneSkipped'
      <4>1. ASSUME NEW g \in Files, g.at < moff + next
            PROVE  \E i \in 1 .. (n + 1) : found'[i] = Dispatched(g)
        <5>1. CASE g.at < moff
          <6>1. PICK i \in 1 .. n : found[i] = Dispatched(g)
            BY <5>1, <2>1, <3>3 DEF NoneSkipped
          <6> QED  BY <6>1, <3>4
        <5>2. CASE moff <= g.at
          <6>1. g = f /\ n + 1 \in 1 .. (n + 1)
            BY <5>2, <4>1, <3>1, <3>4
          <6> QED  BY <6>1, <3>4
        <5> QED  BY <5>1, <5>2, <2>4
      <4> QED  BY <2>2, <2>3, <3>4, <4>1 DEF NoneSkipped, Dispatched
    <3> QED  BY <1>1, <2>5, <2>6, <3>6, <3>7 DEF ArrivalInv
  <2> QED  BY <2>2, <2>7, <2>8
<1> QED  BY <1>2, <1>3

\* ArrivalInv is an invariant.
LEMMA ArrivalInvariance ==
    ASSUME StreamsDescribed, FindersRight PROVE Spec => []ArrivalInv
<1>1. Init => ArrivalInv
  BY ArrivalInit
<1>2. ArrivalInv /\ [Next]_vars => ArrivalInv'
  <2>1. ASSUME ArrivalInv, UNCHANGED vars PROVE ArrivalInv'
    BY <2>1 DEF ArrivalInv, vars, SearchPlace, FoundBehind, NoneSkipped, NoneLeft,
                Files, Bytes, Between, Dispatches, Dispatched
  <2> QED  BY <2>1, PacketStep, SearchStep DEF Next
<1> QED  BY <1>1, <1>2, PTL DEF Spec

\* If single calls of the finders are right, every file that is dispatched is one
\* of the stream's.
LEMMA RightCallsFindFiles ==
    ASSUME StreamsDescribed, FindersRight PROVE Spec => []FindsWholeFiles
<1>1. ArrivalInv /\ Apart => FindsWholeFiles
  <2> SUFFICES ASSUME ArrivalInv, odd = {}
               PROVE  \A i \in DOMAIN found : \E f \in Files :
                         SameFile(f, found[i]) /\ f.needs <= Len(got) /\ f.text = found[i].text
    BY DEF FindsWholeFiles
  <2>1. SearchPlace /\ FoundBehind /\ stream \in DOMAIN Streams
    BY DEF ArrivalInv
  <2>2. DOMAIN found = 1 .. Len(found)
    BY <2>1 DEF FoundBehind
  <2>3. Len(got) = sent
    <3>1. Bytes \in Seq({Bytes[i] : i \in DOMAIN Bytes}) /\ sent \in 0 .. Len(Bytes)
      BY <2>1, StreamFacts DEF SearchPlace
    <3> QED  BY <2>1, <3>1 DEF SearchPlace
  <2>4. ASSUME NEW i \in 1 .. Len(found)
        PROVE  \E f \in Files : SameFile(f, found[i]) /\ f.needs <= Len(got)
                                /\ f.text = found[i].text
    <3>1. PICK f \in Files : found[i] = Dispatched(f) /\ f.needs <= sent
      BY <2>1 DEF FoundBehind
    <3>2. SameFile(f, found[i]) /\ f.text = found[i].text
      BY <3>1 DEF Dispatched, SameFile
    <3> QED  BY <2>3, <3>1, <3>2
  <2> QED  BY <2>2, <2>4
<1> QED  BY <1>1, ArrivalInvariance, FilesApart, PTL

\* And once a file has arrived and the search is over it has been found: no place
\* a search resumes at lies behind the beginning of a file still to come.
LEMMA RightCallsFindAtOnce ==
    ASSUME StreamsDescribed, FindersRight PROVE Spec => []FoundAtOnce
<1>1. ArrivalInv => FoundAtOnce
  <2> SUFFICES ASSUME ArrivalInv, odd = {}, ~dirty, NEW f \in Files, f.ends <= Len(got)
               PROVE  \E i \in DOMAIN found : SameFile(f, found[i])
    BY DEF FoundAtOnce
  <2>1. /\ SearchPlace /\ FoundBehind /\ NoneSkipped /\ NoneLeft
        /\ stream \in DOMAIN Streams
    BY DEF ArrivalInv
  <2>2. DOMAIN found = 1 .. Len(found)
    BY <2>1 DEF FoundBehind
  <2>3. Len(got) = sent /\ sent \in Nat /\ moff \in Nat
    <3>1. Bytes \in Seq({Bytes[i] : i \in DOMAIN Bytes}) /\ sent \in 0 .. Len(Bytes)
      BY <2>1, StreamFacts DEF SearchPlace
    <3> QED  BY <2>1, <3>1 DEF SearchPlace
  <2>4. f.at \in Nat /\ f.ends \in Nat
    BY <2>1, StreamFacts
  <2>5. f.at < moff
    BY <2>1, <2>3, <2>4 DEF NoneLeft
  <2>6. PICK i \in 1 .. Len(found) : found[i] = Dispatched(f)
    BY <2>1, <2>5 DEF NoneSkipped
  <2> QED  BY <2>2, <2>6 DEF Dispatched, SameFile
<1> QED  BY <1>1, ArrivalInvariance, PTL

\* In a stream of PNGs, of JPEGs or of WebPs, whatever is in them and between them,
\* what is dispatched is a file of the stream, all of it has been received, and
\* each comes once and in order, for every sequence of segment sizes and framings.
\* (find_png_image, find_jpeg_image, find_webp_image, extract_media's loop, moff)
THEOREM WholeFilesFound == ASSUME Pictures PROVE Spec => []FindsWholeFiles
BY PicturesAreFound, RightCallsFindFiles

\* Once such a file has arrived and the search is over it has been found, however
\* it was cut into segments.  (find_png_image, find_jpeg_image, find_webp_image)
THEOREM FilesFoundAtOnce == ASSUME Pictures PROVE Spec => []FoundAtOnce
BY PicturesAreFound, RightCallsFindAtOnce

-----------------------------------------------------------------------------
(* Frames the code knows. *)

\* No packet was taken for one of another connection.
ReadRight == "misread" \notin odd

\* Without extension headers none is.  (process_packet, layer3_find_tcp)
THEOREM NothingMisread == ASSUME \A f \in Framings : Plain(f) PROVE Spec => []ReadRight
<1>1. Init => ReadRight
  BY DEF Init, ReadRight
<1>2. ReadRight /\ [Next]_vars => ReadRight'
  <2>1. ASSUME ReadRight, NEW f \in Framings, NEW k \in Sizes, Packet(f, k) PROVE ReadRight'
    <3>1. DataOffset(f) \in {IGNORED, DataAt(f)}
      BY FramingsAssumption, DataIsWhereItIsRead
    <3> QED  BY <2>1, <3>1 DEF Packet, vars, ReadRight
  <2> QED  BY <2>1 DEF Next, Search, vars, ReadRight
<1> QED  BY <1>1, <1>2, PTL DEF Spec

\* Once a file has arrived and the search is over, the file has been found.
EveryFileFound ==
    ~dirty => \A f \in Files : f.ends <= Len(got) => \E i \in DOMAIN found : SameFile(f, found[i])

\* In frames that are not padded and have no extension header the exceptions of
\* FoundAtOnce never arise: every picture is found as soon as it is there.
\* (process_packet, extract_media, find_png_image, find_jpeg_image, find_webp_image)
THEOREM KnownFramesLoseNothing ==
    ASSUME Pictures, \A f \in Framings : Plain(f) /\ ~f.padded
    PROVE  Spec => []EveryFileFound
<1>1. Init => odd = {}
  BY DEF Init
<1>2. odd = {} /\ [Next]_vars => (odd = {})'
  <2>1. ASSUME odd = {}, NEW f \in Framings, NEW k \in Sizes, Packet(f, k) PROVE odd' = {}
    <3>1. DataOffset(f) \in {IGNORED, DataAt(f)}
      BY FramingsAssumption, DataIsWhereItIsRead
    <3>2. Padding(f, k) = <<>>
      BY DEF Padding
    <3> QED  BY <2>1, <3>1, <3>2 DEF Packet, vars
  <2> QED  BY <2>1 DEF Next, Search, vars
<1>3. odd = {} /\ FoundAtOnce => EveryFileFound
  BY DEF FoundAtOnce, EveryFileFound
<1> QED  BY <1>1, <1>2, <1>3, FilesFoundAtOnce, PTL DEF Spec
=============================================================================
