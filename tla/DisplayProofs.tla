---------------------------- MODULE DisplayProofs ----------------------------
(***************************************************************************)
(* The GTK display (Display), for every set of images and window sizes,    *)
(* every pipe and every number of names read at a time: files live as long *)
(* as their images, and images lie inside the window and apart.            *)
(***************************************************************************)
EXTENDS Display, ProofLemmas

-----------------------------------------------------------------------------
(* Tables of rectangles. *)

\* u holds some of what t holds, all of it d further down.
Kept(t, u, d) ==
    /\ u \in Seq(Rect) /\ Used(u) \subseteq Used(t)
    /\ \A i \in Used(u) : /\ u[i].file = t[i].file /\ u[i].x = t[i].x /\ u[i].y = t[i].y + d
                          /\ u[i].w = t[i].w /\ u[i].h = t[i].h

\* No file twice; no two images over one another but for what flag allows.
Distinct(t) == \A i, j \in Used(t) : t[i].file = t[j].file => i = j
Apart(t, flag) ==
    \A i, j \in Used(t) : i # j /\ Overlap(t[i], t[j]) =>
        /\ flag
        /\ \/ t[i].y + t[i].h - t[j].y <= BORDER
           \/ t[j].y + t[j].h - t[i].y <= BORDER

\* What is in use is a rectangle.
LEMMA UsedRect ==
    ASSUME NEW t \in Seq(Rect)
    PROVE  /\ Len(t) \in Nat /\ DOMAIN t = 1 .. Len(t)
           /\ Used(t) \subseteq 1 .. Len(t)
           /\ \A i \in 1 .. Len(t) : t[i] \in Rect /\ (i \notin Used(t) => t[i].file = 0)
           /\ \A i \in Used(t) : /\ t[i] \in Rect /\ t[i].file \in Nat \ {0} /\ t[i].x \in Int
                                 /\ t[i].y \in Int /\ t[i].w \in Nat /\ t[i].h \in Nat
<1>1. Len(t) \in Nat /\ DOMAIN t = 1 .. Len(t) /\ \A i \in 1 .. Len(t) : t[i] \in Rect
  OBVIOUS
<1>2. Used(t) \subseteq 1 .. Len(t) /\ \A i \in 1 .. Len(t) : i \in Used(t) <=> t[i].file # 0
  BY <1>1 DEF Used
<1>3. \A r \in Rect : r.file \in Nat /\ r.x \in Int /\ r.y \in Int /\ r.w \in Nat /\ r.h \in Nat
  BY DEF Rect
<1> QED  BY <1>1, <1>2, <1>3

\* How two rectangles lie does not change when both move.
LEMMA MovedTogether ==
    ASSUME NEW a \in Rect, NEW b \in Rect, NEW d \in Int, NEW c, NEW e,
           c.x = a.x, c.y = a.y + d, c.w = a.w, c.h = a.h,
           e.x = b.x, e.y = b.y + d, e.w = b.w, e.h = b.h
    PROVE  /\ Overlap(c, e) <=> Overlap(a, b)
           /\ c.y + c.h - e.y = a.y + a.h - b.y
           /\ e.y + e.h - c.y = b.y + b.h - a.y
<1>1. /\ a.x \in Int /\ a.y \in Int /\ a.w \in Int /\ a.h \in Int
      /\ b.x \in Int /\ b.y \in Int /\ b.w \in Int /\ b.h \in Int
  BY DEF Rect
<1>2. /\ c.x < e.x + e.w <=> a.x < b.x + b.w
      /\ e.x < c.x + c.w <=> b.x < a.x + a.w
  BY <1>1
<1>3. /\ c.y < e.y + e.h <=> a.y < b.y + b.h
      /\ e.y < c.y + c.h <=> b.y < a.y + a.h
  BY <1>1
<1>4. /\ c.y + c.h - e.y = a.y + a.h - b.y
      /\ e.y + e.h - c.y = b.y + b.h - a.y
  BY <1>1
<1> QED  BY <1>2, <1>3, <1>4 DEF Overlap

\* Moving, and letting go of some.
LEMMA MovedKept ==
    ASSUME NEW t \in Seq(Rect), NEW d \in Int, NEW out
    PROVE  Kept(t, Without(Moved(t, d), out), d)
<1>1. Len(t) \in Nat /\ DOMAIN t = 1 .. Len(t) /\ \A i \in 1 .. Len(t) : t[i] \in Rect
  OBVIOUS
<1>2. NoRect \in Rect
  BY DEF NoRect, Rect
<1> DEFINE m == Moved(t, d)
           u == Without(m, out)
<1>3. DOMAIN m = 1 .. Len(t)
      /\ \A i \in 1 .. Len(t) :
           m[i] = IF t[i].file = 0 THEN NoRect ELSE [t[i] EXCEPT !.y = @ + d]
  BY <1>1 DEF Moved
<1>4. ASSUME NEW i \in 1 .. Len(t)
      PROVE  /\ m[i] \in Rect
             /\ m[i].file # 0 => /\ m[i].file = t[i].file /\ m[i].x = t[i].x /\ m[i].y = t[i].y + d
                                 /\ m[i].w = t[i].w /\ m[i].h = t[i].h
  <2>1. CASE t[i].file = 0
    BY <1>2, <1>3, <2>1 DEF NoRect
  <2>2. CASE t[i].file # 0
    <3>1. t[i] \in Rect
      BY <1>1
    <3>2. m[i] = [t[i] EXCEPT !.y = @ + d]
      BY <1>3, <2>2
    <3> HIDE DEF m
    <3>3. ASSUME NEW r \in Rect
          PROVE  LET s == [r EXCEPT !.y = @ + d]
                 IN /\ s \in Rect /\ s.file = r.file /\ s.x = r.x /\ s.y = r.y + d
                    /\ s.w = r.w /\ s.h = r.h
      <4>1. PICK s : s = [r EXCEPT !.y = @ + d]
        OBVIOUS
      <4>2. /\ r.file \in Nat /\ r.x \in Int /\ r.y \in Int /\ r.w \in Nat /\ r.h \in Nat
            /\ r = [file |-> r.file, x |-> r.x, y |-> r.y, w |-> r.w, h |-> r.h]
        BY DEF Rect
      <4>3. s = [file |-> r.file, x |-> r.x, y |-> r.y + d, w |-> r.w, h |-> r.h]
        BY <4>1, <4>2
      <4>4. r.y + d \in Int
        BY <4>2
      <4>5. s \in Rect
        BY <4>2, <4>3, <4>4 DEF Rect
      <4> QED  BY <4>1, <4>3, <4>5
    <3> QED  BY <3>1, <3>2, <3>3
  <2> QED  BY <2>1, <2>2
<1> HIDE DEF m
<1>5. u = [i \in 1 .. Len(t) |-> IF m[i] \in out THEN NoRect ELSE m[i]]
  BY <1>3 DEF Without
<1>6. u \in Seq(Rect) /\ DOMAIN u = 1 .. Len(t)
  <2>1. u \in [1 .. Len(t) -> Rect]
    BY <1>2, <1>4, <1>5
  <2> QED  BY <1>1, <2>1, ListOf
<1>7. \A i \in 1 .. Len(t) : u[i].file # 0 => u[i] = m[i]
  BY <1>5 DEF NoRect
<1> HIDE DEF u
<1>8. ASSUME NEW i \in Used(u)
      PROVE  /\ i \in Used(t)
             /\ u[i].file = t[i].file /\ u[i].x = t[i].x /\ u[i].y = t[i].y + d
             /\ u[i].w = t[i].w /\ u[i].h = t[i].h
  <2>1. i \in 1 .. Len(t) /\ u[i].file # 0
    BY <1>6 DEF Used
  <2>2. u[i] = m[i] /\ m[i].file # 0
    BY <1>7, <2>1
  <2>3. /\ u[i].file = t[i].file /\ u[i].x = t[i].x /\ u[i].y = t[i].y + d
        /\ u[i].w = t[i].w /\ u[i].h = t[i].h
    BY <1>4, <2>1, <2>2
  <2> QED  BY <1>1, <2>1, <2>3 DEF Used
<1>9. Kept(t, u, d)
  BY <1>6, <1>8 DEF Kept
<1> QED  BY <1>9 DEF u, m

\* Rows moved up by dy ...
LEMMA ScrolledKept ==
    ASSUME NEW t \in Seq(Rect), NEW dy \in Int
    PROVE  Kept(t, Scrolled(t, dy), -dy)
<1>1. -dy \in Int
  OBVIOUS
<1> QED  BY <1>1, MovedKept DEF Scrolled

\* ... or moved by the change of height and cut at the new width ...
LEMMA ResizedKept ==
    ASSUME NEW t \in Seq(Rect), NEW dh \in Int, NEW width
    PROVE  Kept(t, Resized(t, dh, width), dh)
BY MovedKept DEF Resized

\* ... or left where they are stay the rows of the same images.
LEMMA NotMovedKept ==
    ASSUME NEW t \in Seq(Rect) PROVE Kept(t, t, 0)
BY UsedRect DEF Kept

\* What is kept has its files, and lies as it lay.
LEMMA KeptOf ==
    ASSUME NEW t \in Seq(Rect), NEW u, NEW d \in Int, Kept(t, u, d)
    PROVE  /\ Files(u) \subseteq Files(t)
           /\ Distinct(t) => Distinct(u)
           /\ \A flag \in BOOLEAN : Apart(t, flag) => Apart(u, flag)
<1>1. Files(u) \subseteq Files(t)
  BY DEF Kept, Files
<1>2. Distinct(t) => Distinct(u)
  BY DEF Kept, Distinct
<1>3. ASSUME NEW flag \in BOOLEAN, Apart(t, flag), NEW i \in Used(u), NEW j \in Used(u), i # j,
             Overlap(u[i], u[j])
      PROVE  /\ flag
             /\ \/ u[i].y + u[i].h - u[j].y <= BORDER
                \/ u[j].y + u[j].h - u[i].y <= BORDER
  <2>1. /\ i \in Used(t) /\ j \in Used(t)
        /\ u[i].x = t[i].x /\ u[i].y = t[i].y + d /\ u[i].w = t[i].w /\ u[i].h = t[i].h
        /\ u[j].x = t[j].x /\ u[j].y = t[j].y + d /\ u[j].w = t[j].w /\ u[j].h = t[j].h
    BY DEF Kept
  <2>2. t[i] \in Rect /\ t[j] \in Rect
    BY <2>1, UsedRect
  <2>3. /\ Overlap(u[i], u[j]) <=> Overlap(t[i], t[j])
        /\ u[i].y + u[i].h - u[j].y = t[i].y + t[i].h - t[j].y
        /\ u[j].y + u[j].h - u[i].y = t[j].y + t[j].h - t[i].y
    <3>1. PICK a, b, c, e : a = t[i] /\ b = t[j] /\ c = u[i] /\ e = u[j]
      OBVIOUS
    <3>2. /\ Overlap(c, e) <=> Overlap(a, b)
          /\ c.y + c.h - e.y = a.y + a.h - b.y
          /\ e.y + e.h - c.y = b.y + b.h - a.y
      <4>1. /\ a \in Rect /\ b \in Rect
            /\ c.x = a.x /\ c.y = a.y + d /\ c.w = a.w /\ c.h = a.h
            /\ e.x = b.x /\ e.y = b.y + d /\ e.w = b.w /\ e.h = b.h
        BY <2>1, <2>2, <3>1
      <4> QED  BY <4>1, MovedTogether
    <3> QED  BY <3>1, <3>2
  <2>4. /\ flag
        /\ \/ t[i].y + t[i].h - t[j].y <= BORDER
           \/ t[j].y + t[j].h - t[i].y <= BORDER
    BY <1>3, <2>1, <2>3 DEF Apart
  <2> QED  BY <2>3, <2>4
<1> QED  BY <1>1, <1>2, <1>3 DEF Apart

\* A rectangle added takes a place of its own and moves no other.
LEMMA AddedOf ==
    ASSUME NEW t \in Seq(Rect), NEW r \in Rect, r.file # 0
    PROVE  /\ Added(t, r) \in Seq(Rect)
           /\ \E k : /\ k \notin Used(t) /\ Used(Added(t, r)) = Used(t) \cup {k}
                     /\ Added(t, r)[k] = r
                     /\ \A i \in Used(t) : Added(t, r)[i] = t[i]
<1>1. Len(t) \in Nat /\ DOMAIN t = 1 .. Len(t) /\ \A i \in 1 .. Len(t) : t[i] \in Rect
  OBVIOUS
<1> DEFINE free == DOMAIN t \ Used(t)
<1>2. CASE free # {}
  <2>1. free \in SUBSET Nat
    BY <1>1
  <2>2. \E i \in free : \A j \in free : i <= j
    BY <1>2, <2>1, SmallestExists
  <2>3. PICK k : k = CHOOSE i \in free : \A j \in free : i <= j
    OBVIOUS
  <2>4. k \in free
    BY <2>2, <2>3
  <2>5. Added(t, r) = [t EXCEPT ![k] = r]
    BY <1>2, <2>3 DEF Added
  <2>6. Added(t, r) \in [1 .. Len(t) -> Rect]
    BY <1>1, <2>5
  <2>7. Added(t, r) \in Seq(Rect)
    BY <1>1, <2>6
  <2>8. Added(t, r)[k] = r /\ \A i \in DOMAIN t : i # k => Added(t, r)[i] = t[i]
    BY <2>4, <2>5
  <2>9. DOMAIN Added(t, r) = DOMAIN t
    BY <1>1, <2>6
  <2>10. Used(Added(t, r)) = Used(t) \cup {k} /\ k \notin Used(t)
    BY <2>4, <2>8, <2>9 DEF Used
  <2> QED  BY <2>7, <2>8, <2>10 DEF Used
<1>3. CASE free = {}
  <2> DEFINE n == Len(t)
             one == <<r>>
  <2>0. n \in Nat
    BY <1>1
  <2>1. PICK fresh \in Seq(Rect) : /\ fresh = [i \in 1 .. n - 1 |-> NoRect]
                                   /\ \A i \in 1 .. Len(fresh) : fresh[i].file = 0
    <3> DEFINE f == [i \in 1 .. n - 1 |-> NoRect]
    <3>1. NoRect \in Rect /\ NoRect.file = 0
      BY DEF NoRect, Rect
    <3>2. PICK m \in Nat : 1 .. n - 1 = 1 .. m
      <4>1. CASE n = 0
        BY <4>1
      <4>2. CASE n # 0
        <5>1. n - 1 \in Nat
          BY <2>0, <4>2
        <5> QED  BY <5>1
      <4> QED  BY <4>1, <4>2
    <3>3. f \in [1 .. m -> Rect] /\ \A i \in 1 .. m : f[i].file = 0
      BY <3>1, <3>2
    <3> HIDE DEF f
    <3>4. f \in Seq(Rect) /\ Len(f) = m
      BY <3>3, ListOf
    <3> QED  BY <3>3, <3>4 DEF f
  <2>2. one \in Seq(Rect) /\ Len(one) = 1 /\ one[1] = r
    OBVIOUS
  <2>3. Added(t, r) = (t \o one) \o fresh
    BY <1>3, <2>1 DEF Added
  <2> HIDE DEF one, n
  <2>4. PICK u : u = t \o one
    OBVIOUS
  <2>5. u \in Seq(Rect) /\ Len(u) = n + 1 /\ u[n + 1] = r /\ \A i \in 1 .. n : u[i] = t[i]
    <3>1. /\ u \in Seq(Rect) /\ Len(u) = Len(t) + 1
          /\ \A i \in 1 .. Len(t) : u[i] = t[i]
          /\ \A i \in 1 .. (Len(t) + 1) : i > Len(t) => u[i] = one[i - Len(t)]
      <4>1. /\ t \o one \in Seq(Rect) /\ Len(t \o one) = Len(t) + Len(one)
            /\ \A i \in 1 .. Len(t) : (t \o one)[i] = t[i]
            /\ \A i \in 1 .. (Len(t) + Len(one)) : i > Len(t) => (t \o one)[i] = one[i - Len(t)]
        BY <2>2, Joined
      <4> QED  BY <2>2, <2>4, <4>1
    <3>2. n + 1 \in 1 .. (n + 1) /\ n + 1 > n /\ (n + 1) - n = 1
      BY <2>0
    <3> QED  BY <2>2, <3>1, <3>2 DEF n
  <2>6. Len(fresh) \in Nat
    OBVIOUS
  <2>7. /\ Added(t, r) \in Seq(Rect) /\ Len(Added(t, r)) = n + 1 + Len(fresh)
        /\ \A i \in 1 .. n + 1 : Added(t, r)[i] = u[i]
        /\ \A i \in 1 .. (n + 1 + Len(fresh)) : i > n + 1 => Added(t, r)[i] = fresh[i - (n + 1)]
    <3>1. /\ u \o fresh \in Seq(Rect) /\ Len(u \o fresh) = Len(u) + Len(fresh)
          /\ \A i \in 1 .. Len(u) : (u \o fresh)[i] = u[i]
          /\ \A i \in 1 .. (Len(u) + Len(fresh)) : i > Len(u) => (u \o fresh)[i] = fresh[i - Len(u)]
      BY <2>5, Joined
    <3> QED  BY <2>3, <2>4, <2>5, <3>1
  <2>8. Used(t) = 1 .. n
    BY <1>1, <1>3 DEF Used, n
  <2>9. DOMAIN Added(t, r) = 1 .. (n + 1 + Len(fresh))
    BY <2>7
  <2>10. ASSUME NEW i \in 1 .. (n + 1 + Len(fresh)), i \notin 1 .. n, i # n + 1
         PROVE  Added(t, r)[i].file = 0
    <3>1. i - (n + 1) \in 1 .. Len(fresh) /\ i > n + 1
      BY <2>0, <2>6, <2>10
    <3> QED  BY <2>1, <2>7, <3>1
  <2>11. Added(t, r)[n + 1] = r /\ \A i \in 1 .. n : Added(t, r)[i] = t[i]
    BY <2>0, <2>5, <2>7
  <2>12. Used(Added(t, r)) = Used(t) \cup {n + 1}
    <3>1. \A i \in 1 .. n : t[i].file # 0
      BY <2>8 DEF Used
    <3>2. 1 .. n \subseteq 1 .. (n + 1 + Len(fresh)) /\ n + 1 \in 1 .. (n + 1 + Len(fresh))
      BY <2>0, <2>6
    <3>3. \A i \in 1 .. (n + 1 + Len(fresh)) : Added(t, r)[i].file # 0 <=> i \in 1 .. n \cup {n + 1}
      BY <2>10, <2>11, <3>1, <3>2
    <3> QED  BY <2>8, <2>9, <3>2, <3>3 DEF Used
  <2>13. n + 1 \notin 1 .. n
    BY <2>0
  <2> QED  BY <2>7, <2>8, <2>11, <2>12, <2>13
<1> QED  BY <1>2, <1>3

-----------------------------------------------------------------------------
(* The invariant, action by action. *)

\* The parts that are about files and names.
FilesInv == TypeOK /\ NamesOK /\ FileLivesWithItsImage

\* What the invariant says of the types.
LEMMA Typed ==
    ASSUME DisplayInv
    PROVE  /\ img \in Seq(Images) /\ Len(img) \in Nat /\ DOMAIN img = 1 .. Len(img)
           /\ disk \subseteq 1 .. Len(img) /\ ToSet(pipe) \subseteq 1 .. Len(img)
           /\ pipe \in Seq(Nat) /\ Len(pipe) \in Nat /\ Len(pipe) <= CAPACITY /\ IsInjective(pipe)
           /\ rects \in Seq(Rect) /\ Files(rects) \subseteq 1 .. Len(img) /\ Distinct(rects)
           /\ Files(rects) \subseteq Read
           /\ {CAPACITY, BATCH, TABLE} \subseteq Nat \ {0}
           /\ wrx \in Int /\ wry \in Int /\ rowheight \in Int /\ resized \in BOOLEAN
           /\ backing \in Sizes \cup {<<0, 0>>} /\ win = backing
           /\ Apart(rects, resized)
<1>1. img \in Seq(Images) /\ Len(img) \in Nat /\ DOMAIN img = 1 .. Len(img)
  BY DEF DisplayInv, TypeOK
<1> QED  BY <1>1, DisplayAssumption, SMTT(30)
         DEF DisplayInv, TypeOK, NamesOK, RowOK, ImagesApart, Distinct, Apart, DisplayAssumption

\* What is read is of the files written and not in the pipe.
LEMMA ReadIs ==
    ASSUME DisplayInv
    PROVE  \A n : n \in Read <=> /\ n \in 1 .. Len(img) /\ n \notin ToSet(pipe)
                                 /\ (n = Len(img) => wpc # "send")
BY Typed DEF Read

\* Steps that leave the layout alone.
LEMMA SameLayout ==
    ASSUME DisplayInv, UNCHANGED layout PROVE RowOK' /\ ImagesApart'
<1>1. /\ win' = win /\ backing' = backing /\ rects' = rects /\ wrx' = wrx /\ wry' = wry
      /\ rowheight' = rowheight /\ resized' = resized
  BY DEF layout
<1>2. RowOK /\ ImagesApart
  BY DEF DisplayInv
<1>3. Used(rects)' = Used(rects)
  BY <1>1
<1>4. RowOK'
  BY <1>1, <1>2, <1>3 DEF RowOK, Bottom, Right
<1>5. ImagesApart'
  BY <1>1, <1>2, <1>3 DEF ImagesApart, Overlap
<1> QED  BY <1>4, <1>5

\* A file written has a number of its own, and its name is not yet read.
LEMMA WriteFileInv ==
    ASSUME DisplayInv, NEW i \in Images, WriteFile(i) PROVE FilesInv'
<1>1. /\ wpc = "capture" /\ wpc' = "send" /\ img' = Append(img, i)
      /\ disk' \in {disk, disk \cup {Len(img) + 1}}
      /\ pipe' = pipe /\ mode' = mode /\ nimgs' = nimgs /\ win' = win /\ backing' = backing
      /\ rects' = rects /\ resized' = resized /\ click' = click
  BY DEF WriteFile, layout, saving
<1>2. PICK n : n = Len(img)
  OBVIOUS
<1>3. /\ n \in Nat /\ img' \in Seq(Images) /\ Len(img') = n + 1 /\ DOMAIN img' = 1 .. (n + 1)
      /\ \A k \in 1 .. n : img'[k] = img[k]
  BY <1>1, <1>2, Typed
<1>4. 1 .. n \subseteq 1 .. (n + 1) /\ n + 1 \in 1 .. (n + 1) /\ n + 1 \notin 1 .. n /\ n + 1 # 0
      /\ 1 .. (n + 1) = 1 .. n \cup {n + 1}
  BY <1>3
<1>5. disk \subseteq 1 .. n /\ ToSet(pipe) \subseteq 1 .. n /\ Files(rects) \subseteq 1 .. n
  BY <1>2, Typed
<1>6. TypeOK'
  BY <1>1, <1>3, <1>4, <1>5 DEF DisplayInv, TypeOK
<1>7. Read' = Read
  <2>1. \A k : k \in Read' <=> k \in 1 .. (n + 1) /\ k \notin ToSet(pipe) /\ k # n + 1
    BY <1>1, <1>3 DEF Read
  <2>2. \A k : k \in Read <=> k \in 1 .. n /\ k \notin ToSet(pipe)
    BY <1>1, <1>2, ReadIs
  <2> QED  BY <1>4, <2>1, <2>2
<1>8. NamesOK'
  BY <1>1, <1>3, <1>4, <1>5, <1>7, Typed DEF NamesOK
<1>9. FileLivesWithItsImage'
  <2>1. FileLivesWithItsImage
    BY DEF DisplayInv
  <2>2. Read \subseteq 1 .. n
    BY <1>2, ReadIs
  <2>3. Read \cap disk' = Read \cap disk /\ disk' \cap Files(rects) = disk \cap Files(rects)
    BY <1>1, <1>2, <1>4, <1>5, <2>2
  <2>4. \A k \in Read \cap disk : Interesting(img'[k]) <=> Interesting(img[k])
    BY <1>3, <2>2
  <2>5. {k \in Read' \cap disk' : Interesting(img'[k])} = {k \in Read \cap disk : Interesting(img[k])}
    BY <1>7, <2>3, <2>4
  <2>6. Files(rects)' = Files(rects)
    BY <1>1
  <2> QED  BY <1>1, <2>1, <2>3, <2>5, <2>6 DEF FileLivesWithItsImage
<1> QED  BY <1>6, <1>8, <1>9 DEF FilesInv

\* A name sent was not in the pipe and is not read.
LEMMA SendNameInv ==
    ASSUME DisplayInv, SendName PROVE FilesInv'
<1>1. /\ wpc = "send" /\ wpc' = "capture" /\ img' = img /\ disk' = disk
      /\ mode' = mode /\ nimgs' = nimgs /\ win' = win /\ backing' = backing
      /\ rects' = rects /\ resized' = resized /\ click' = click
      /\ \/ mode = "dead" /\ pipe' = pipe
         \/ mode # "dead" /\ Len(pipe) < CAPACITY /\ pipe' = Append(pipe, Len(img))
  BY DEF SendName, layout, saving
<1>2. PICK n : n = Len(img)
  OBVIOUS
<1>3. n \in Nat /\ n # 0 /\ n \notin ToSet(pipe) /\ n \in 1 .. n
  BY <1>1, <1>2, Typed DEF DisplayInv, NamesOK
<1>4. FileLivesWithItsImage /\ TypeOK /\ NamesOK
  BY DEF DisplayInv
<1>5. CASE mode = "dead"
  <2>1. TypeOK'
    BY <1>1, <1>4, <1>5 DEF TypeOK
  <2>2. Read \subseteq Read'
    BY <1>1, <1>5 DEF Read
  <2>3. NamesOK'
    BY <1>1, <1>4, <1>5, <2>2 DEF NamesOK
  <2>4. FileLivesWithItsImage'
    BY <1>1, <1>4, <1>5 DEF FileLivesWithItsImage
  <2> QED  BY <2>1, <2>3, <2>4 DEF FilesInv
<1>6. CASE mode # "dead"
  <2>1. PICK m : m = Len(pipe)
    OBVIOUS
  <2>2. /\ m \in Nat /\ pipe' \in Seq(Nat) /\ Len(pipe') = m + 1 /\ m + 1 <= CAPACITY
        /\ pipe'[m + 1] = n /\ \A k \in 1 .. m : pipe'[k] = pipe[k]
        /\ DOMAIN pipe' = 1 .. (m + 1) /\ DOMAIN pipe = 1 .. m
    <3>1. pipe \in Seq(Nat) /\ m \in Nat /\ CAPACITY \in Nat /\ m < CAPACITY /\ DOMAIN pipe = 1 .. m
      BY <1>1, <1>6, <2>1, Typed
    <3>2. pipe' = Append(pipe, n)
      BY <1>1, <1>2, <1>6
    <3>3. /\ pipe' \in Seq(Nat) /\ Len(pipe') = m + 1
          /\ pipe'[m + 1] = n /\ \A k \in 1 .. m : pipe'[k] = pipe[k]
      BY <1>3, <2>1, <3>1, <3>2, Appended
    <3>4. m + 1 <= CAPACITY
      BY <3>1
    <3>5. DOMAIN pipe' = 1 .. (m + 1)
      BY <3>3
    <3> QED  BY <3>1, <3>3, <3>4, <3>5
  <2>3. 1 .. (m + 1) = 1 .. m \cup {m + 1}
    BY <2>2
  <2>4. ToSet(pipe') = ToSet(pipe) \cup {n}
    <3>1. \A k \in 1 .. m : pipe[k] \in ToSet(pipe)
      BY <2>2 DEF ToSet
    <3>2. ASSUME NEW x \in ToSet(pipe') PROVE x \in ToSet(pipe) \cup {n}
      BY <2>2, <2>3, <3>1 DEF ToSet
    <3>3. ASSUME NEW x \in ToSet(pipe) \cup {n} PROVE x \in ToSet(pipe')
      <4>1. \E k \in 1 .. (m + 1) : pipe'[k] = x
        BY <2>2, <2>3 DEF ToSet
      <4> QED  BY <2>2, <4>1 DEF ToSet
    <3> QED  BY <3>2, <3>3
  <2>5. IsInjective(pipe')
    <3>1. \A k \in 1 .. m : pipe[k] # n
      BY <1>3, <2>2 DEF ToSet
    <3>2. \A j, k \in 1 .. m : pipe[j] = pipe[k] => j = k
      BY <2>2, Typed DEF IsInjective
    <3>3. ASSUME NEW j \in 1 .. (m + 1), NEW k \in 1 .. (m + 1), pipe'[j] = pipe'[k] PROVE j = k
      BY <2>2, <2>3, <3>1, <3>2, <3>3
    <3> QED  BY <2>2, <3>3 DEF IsInjective
  <2>6. Read' = Read
    <3>1. \A k : k \in Read' <=> k \in 1 .. n /\ k \notin ToSet(pipe) \cup {n}
      BY <1>1, <1>2, <2>4, Typed DEF Read
    <3>2. \A k : k \in Read <=> k \in 1 .. n /\ k \notin ToSet(pipe) /\ k # n
      BY <1>1, <1>2, ReadIs
    <3> QED  BY <3>1, <3>2
  <2>7. TypeOK'
    <3>1. ToSet(pipe)' \subseteq DOMAIN img' /\ Len(pipe') <= CAPACITY
      BY <1>1, <1>2, <1>3, <2>2, <2>4, Typed
    <3> QED  BY <1>1, <1>4, <3>1 DEF TypeOK
  <2>8. NamesOK'
    BY <1>1, <1>4, <2>2, <2>5, <2>6 DEF NamesOK
  <2>9. FileLivesWithItsImage'
    BY <1>1, <1>4, <2>6 DEF FileLivesWithItsImage
  <2> QED  BY <2>7, <2>8, <2>9 DEF FilesInv
<1> QED  BY <1>5, <1>6

\* driftnet ends: nothing is promised of the files it clears away.
LEMMA CleanInv ==
    ASSUME DisplayInv, Clean \/ Exit PROVE FilesInv'
<1>1. /\ wpc' \in {"cleaned", "gone"} /\ img' = img /\ disk' \subseteq disk /\ pipe' = pipe
      /\ mode' = mode /\ nimgs' = nimgs /\ win' = win /\ backing' = backing
      /\ rects' = rects /\ resized' = resized /\ click' = click
  BY DEF Clean, Exit, layout, saving
<1>2. FileLivesWithItsImage /\ TypeOK /\ NamesOK
  BY DEF DisplayInv
<1>3. TypeOK'
  BY <1>1, <1>2 DEF TypeOK
<1>4. Read \subseteq Read'
  BY <1>1 DEF Read
<1>5. NamesOK'
  BY <1>1, <1>2, <1>4 DEF NamesOK
<1>6. FileLivesWithItsImage'
  BY <1>1, <1>2 DEF FileLivesWithItsImage
<1> QED  BY <1>3, <1>5, <1>6 DEF FilesInv

\* Callbacks that neither read a name nor delete a file.
LEMMA CallbackInv ==
    ASSUME DisplayInv, UNCHANGED <<driftnet, rects, win, backing, resized>>,
           mode' \in {"main", "event", "quit", "dead"}, nimgs' \in 0 .. BATCH,
           mode' = "dead" <=> mode = "dead",
           click' \in Points \cup {<<0, 0>>}
    PROVE  FilesInv'
<1>1. /\ wpc' = wpc /\ img' = img /\ disk' = disk /\ pipe' = pipe
      /\ win' = win /\ backing' = backing /\ rects' = rects /\ resized' = resized
  BY DEF driftnet
<1>2. FileLivesWithItsImage /\ TypeOK /\ NamesOK
  BY DEF DisplayInv
<1>3. TypeOK'
  BY <1>1, <1>2 DEF TypeOK
<1>4. Read' = Read
  BY <1>1 DEF Read
<1>5. NamesOK'
  BY <1>1, <1>2, <1>4 DEF NamesOK
<1>6. FileLivesWithItsImage'
  BY <1>1, <1>2, <1>4 DEF FileLivesWithItsImage
<1> QED  BY <1>3, <1>5, <1>6 DEF FilesInv

\* The display ends, and the files of all its images with it.
LEMMA FinishInv ==
    ASSUME DisplayInv, Finish PROVE FilesInv'
<1>1. /\ wpc' = wpc /\ img' = img /\ pipe' = pipe /\ mode' = "dead" /\ nimgs' = nimgs
      /\ disk' = disk \ Files(rects) /\ win' = win /\ backing' = backing
      /\ rects' = rects /\ resized' = resized /\ click' = click
  BY DEF Finish, layout, saving
<1>2. TypeOK /\ NamesOK
  BY DEF DisplayInv
<1>3. TypeOK'
  BY <1>1, <1>2 DEF TypeOK
<1>4. Read' = Read
  BY <1>1 DEF Read
<1>5. NamesOK'
  BY <1>1, <1>2, <1>4 DEF NamesOK
<1>6. FileLivesWithItsImage'
  BY <1>1 DEF FileLivesWithItsImage
<1> QED  BY <1>3, <1>5, <1>6 DEF FilesInv
\* A size is a pair of numbers, and none is that of a backing image that is not there.
LEMMA SizesAre ==
    ASSUME NEW s \in Sizes
    PROVE  s[1] \in Nat /\ s[2] \in Nat /\ s[1] >= 332 /\ s[2] >= 252 /\ s # <<0, 0>>
<1>1. s \in Nat \X Nat /\ s[1] >= 332 /\ s[2] >= 252
  BY DisplayAssumption DEF DisplayAssumption
<1>2. <<0, 0>>[1] = 0
  OBVIOUS
<1>3. s[1] \in Nat /\ s[2] \in Nat
  BY <1>1
<1> QED  BY <1>1, <1>2, <1>3

\* After a change of size the row at the bottom begins anew, below all images.
LEMMA ExposeInv ==
    ASSUME DisplayInv, NEW s \in Sizes, Expose(s) PROVE DisplayInv'
<1>1. /\ wpc' = wpc /\ img' = img /\ pipe' = pipe /\ mode = "main" /\ mode' = mode
      /\ nimgs' = nimgs /\ click' = click
      /\ win' = s /\ backing' = s
      /\ rects' = IF backing = <<0, 0>> THEN rects
                  ELSE Resized(rects, s[2] - backing[2], s[1])
      /\ disk' = disk \ (Files(rects) \ Files(rects'))
      /\ wrx' = BORDER /\ wry' = s[2] - BORDER /\ rowheight' = 2 * BORDER
      /\ resized' = (backing # <<0, 0>>)
  BY DEF Expose, saving
<1>2. TypeOK /\ NamesOK /\ FileLivesWithItsImage /\ RowOK
  BY DEF DisplayInv
<1>3. s[1] \in Nat /\ s[2] \in Nat /\ s # <<0, 0>>
  BY SizesAre
<1>4. PICK d \in Int : /\ Kept(rects, rects', d)
                       /\ backing # <<0, 0>> => d = s[2] - backing[2] /\ backing[2] \in Nat
  <2>1. CASE backing = <<0, 0>>
    BY <1>1, <2>1, NotMovedKept, Typed
  <2>2. CASE backing # <<0, 0>>
    <3>1. backing \in Sizes
      BY <2>2, Typed
    <3>2. backing[2] \in Nat
      BY <3>1, SizesAre
    <3>3. s[2] - backing[2] \in Int
      BY <1>3, <3>2
    <3> QED  BY <1>1, <2>2, <3>2, <3>3, ResizedKept, Typed
  <2> QED  BY <2>1, <2>2
<1>5. PICK u : u = rects'
  OBVIOUS
<1>6. /\ u \in Seq(Rect) /\ Used(u) \subseteq Used(rects)
      /\ \A i \in Used(u) : /\ u[i].y = rects[i].y + d /\ u[i].h = rects[i].h
  BY <1>4, <1>5 DEF Kept
<1>7. Files(u) \subseteq Files(rects) /\ Distinct(u)
  BY <1>4, <1>5, KeptOf, Typed
<1>8. Read' = Read
  BY <1>1 DEF Read
<1>9. TypeOK'
  <2>1. Distinct(rects)'
    BY <1>5, <1>7 DEF Distinct
  <2>2. Files(rects') \subseteq DOMAIN img'
    BY <1>1, <1>5, <1>7, <1>2 DEF TypeOK
  <2>3. disk' \subseteq DOMAIN img'
    BY <1>1, <1>2 DEF TypeOK
  <2>4. resized' \in BOOLEAN
    BY <1>1
  <2> QED  BY <1>1, <1>2, <2>1, <2>2, <2>3, <2>4 DEF TypeOK, Distinct
<1>10. NamesOK'
  BY <1>1, <1>2, <1>5, <1>7, <1>8 DEF NamesOK
<1>11. FileLivesWithItsImage'
  <2>1. ASSUME wpc \in {"capture", "send"}
        PROVE  Files(rects') = {n \in Read \cap disk' : Interesting(img[n])}
    <3>1. Files(rects) = {n \in Read \cap disk : Interesting(img[n])}
      BY <1>1, <1>2, <2>1 DEF FileLivesWithItsImage
    <3> QED  BY <1>1, <1>5, <1>7, <3>1
  <2> QED  BY <1>1, <1>8, <2>1 DEF FileLivesWithItsImage
<1>12. RowOK'
  <2>1. ASSUME NEW i \in Used(u)
        PROVE  resized' /\ u[i].y + u[i].h <= s[2] - BORDER
    <3>1. backing # <<0, 0>> /\ i \in Used(rects)
      BY <1>2, <1>6 DEF RowOK
    <3>2. rects[i].y + rects[i].h <= wry /\ wry = backing[2] - BORDER
      BY <1>2, <3>1 DEF RowOK, Bottom
    <3>3. rects[i].y \in Int /\ rects[i].h \in Nat
      BY <3>1, UsedRect, Typed
    <3>4. PICK y, h : y = rects[i].y /\ h = rects[i].h
      OBVIOUS
    <3>5. u[i].y = y + d /\ u[i].h = h
      BY <1>6, <3>4
    <3>6. d = s[2] - backing[2] /\ backing[2] \in Nat
      BY <1>4, <3>1
    <3>7. (y + d) + h <= s[2] - BORDER
      BY <1>3, <3>2, <3>3, <3>4, <3>6 DEF BORDER
    <3> QED  BY <1>1, <3>1, <3>5, <3>7
  <2>2. s[2] - BORDER = (s[2] - BORDER) - 2 * BORDER + 2 * BORDER /\ s[2] - BORDER \in Int
    BY <1>3 DEF BORDER
  <2>3. wrx' \in Int /\ wry' \in Int /\ rowheight' \in Int /\ wrx' >= BORDER
    BY <1>1, <2>2 DEF BORDER
  <2>4. \A i \in Used(u) : /\ Bottom(u[i]) <= wry'
                           /\ Bottom(u[i]) <= wry' - rowheight' + (IF resized' THEN 2 * BORDER ELSE 0)
    BY <1>1, <2>1, <2>2 DEF Bottom
  <2> QED  BY <1>1, <1>3, <1>5, <1>6, <2>3, <2>4 DEF RowOK
<1>13. ImagesApart'
  <2>1. Apart(u, resized')
    <3>1. CASE backing = <<0, 0>>
      <4>1. Used(u) = {}
        BY <1>2, <1>6, <3>1 DEF RowOK
      <4> QED  BY <4>1 DEF Apart
    <3>2. CASE backing # <<0, 0>>
      <4>1. Apart(rects, TRUE)
        BY Typed DEF Apart
      <4>2. Apart(u, TRUE)
        BY <1>4, <1>5, <4>1, KeptOf, Typed
      <4>3. resized' = TRUE
        BY <1>1, <3>2
      <4> QED  BY <4>2, <4>3
    <3> QED  BY <3>1, <3>2
  <2> QED  BY <1>5, <2>1 DEF Apart, ImagesApart
<1> QED  BY <1>9, <1>10, <1>11, <1>12, <1>13 DEF DisplayInv
\* The first of a list without repetitions, taken.
LEMMA FirstTaken ==
    ASSUME NEW q \in Seq(Nat), q # <<>>, IsInjective(q)
    PROVE  /\ Head(q) \in ToSet(q) /\ Tail(q) \in Seq(Nat) /\ Len(Tail(q)) = Len(q) - 1
           /\ IsInjective(Tail(q)) /\ ToSet(Tail(q)) = ToSet(q) \ {Head(q)}
<1>1. PICK m, t : m = Len(q) /\ t = Tail(q)
  OBVIOUS
<1>2. /\ m \in Nat /\ m # 0 /\ DOMAIN q = 1 .. m /\ Head(q) = q[1]
      /\ t \in Seq(Nat) /\ Len(t) = m - 1 /\ \A i \in 1 .. m - 1 : t[i] = q[i + 1]
  BY <1>1
<1>3. DOMAIN t = 1 .. m - 1
  BY <1>2
<1>4. /\ 1 \in 1 .. m /\ \A i \in 1 .. m - 1 : i + 1 \in 1 .. m /\ i + 1 # 1
      /\ \A i \in 1 .. m : i # 1 => i - 1 \in 1 .. m - 1 /\ (i - 1) + 1 = i
      /\ \A i, j \in 1 .. m - 1 : i + 1 = j + 1 => i = j
  BY <1>2
<1>5. \A i, j \in 1 .. m : q[i] = q[j] => i = j
  BY <1>2 DEF IsInjective
<1>6. \A x : x \in ToSet(q) <=> \E i \in 1 .. m : q[i] = x
  BY <1>2 DEF ToSet
<1>7. \A x : x \in ToSet(t) <=> \E i \in 1 .. m - 1 : t[i] = x
  BY <1>3 DEF ToSet
<1>8. IsInjective(t)
  <2>1. \A i, j \in 1 .. m - 1 : t[i] = t[j] => i = j
    BY <1>2, <1>4, <1>5
  <2> QED  BY <1>3, <2>1 DEF IsInjective
<1>9. ASSUME NEW x \in ToSet(t) PROVE x \in ToSet(q) /\ x # q[1]
  <2>1. PICK i \in 1 .. m - 1 : t[i] = x
    BY <1>7
  <2>2. i + 1 \in 1 .. m /\ i + 1 # 1 /\ q[i + 1] = x
    BY <1>2, <1>4, <2>1
  <2> QED  BY <1>4, <1>5, <1>6, <2>2
<1>10. ASSUME NEW x \in ToSet(q), x # q[1] PROVE x \in ToSet(t)
  <2>1. PICK i \in 1 .. m : q[i] = x
    BY <1>6
  <2>2. i - 1 \in 1 .. m - 1 /\ (i - 1) + 1 = i
    BY <1>4, <1>10, <2>1
  <2>3. t[i - 1] = x
    BY <1>2, <2>1, <2>2
  <2> QED  BY <1>7, <2>2, <2>3
<1> QED  BY <1>1, <1>2, <1>4, <1>6, <1>8, <1>9, <1>10

\* A name read is of a file written, and was neither read before nor waits to be sent.
LEMMA NameRead ==
    ASSUME DisplayInv, pipe # <<>>, pipe' = Tail(pipe), img' = img, wpc' = wpc
    PROVE  /\ Head(pipe) \in 1 .. Len(img) /\ Head(pipe) \in Nat \ {0} /\ Head(pipe) \notin Read
           /\ Read' = Read \cup {Head(pipe)}
           /\ pipe' \in Seq(Nat) /\ IsInjective(pipe') /\ ToSet(pipe') \subseteq ToSet(pipe)
           /\ Len(pipe') <= CAPACITY
           /\ wpc' = "send" => Len(img') # 0 /\ Len(img') \notin ToSet(pipe')
<1>1. PICK n, m : n = Head(pipe) /\ m = Len(img)
  OBVIOUS
<1>2. /\ n \in ToSet(pipe) /\ pipe' \in Seq(Nat) /\ Len(pipe') = Len(pipe) - 1
      /\ IsInjective(pipe') /\ ToSet(pipe') = ToSet(pipe) \ {n}
  BY <1>1, FirstTaken, Typed
<1>3. n \in 1 .. m /\ n \in Nat \ {0}
  BY <1>1, <1>2, Typed
<1>4. wpc = "send" => m # 0 /\ m \notin ToSet(pipe)
  BY <1>1 DEF DisplayInv, NamesOK
<1>5. Len(pipe') <= CAPACITY
  <2>1. Len(pipe) \in Nat /\ CAPACITY \in Nat /\ Len(pipe) <= CAPACITY
    BY Typed
  <2> QED  BY <1>2, <2>1
<1>6. \A k : k \in Read <=> k \in 1 .. m /\ k \notin ToSet(pipe) /\ (k = m => wpc # "send")
  BY <1>1, ReadIs
<1>7. \A k : k \in Read' <=> k \in 1 .. m /\ k \notin ToSet(pipe') /\ (k = m => wpc # "send")
  BY <1>1, Typed DEF Read
<1>8. n = m => wpc # "send"
  BY <1>2, <1>4
<1>9. Read' = Read \cup {n} /\ n \notin Read
  BY <1>2, <1>3, <1>6, <1>7, <1>8
<1> QED  BY <1>1, <1>2, <1>3, <1>4, <1>5, <1>9

\* A file that is not there or not shown, or, when nothing was ever drawn, the
\* end of the display.
LEMMA PassOverInv ==
    ASSUME DisplayInv, pipe # <<>>, pipe' = Tail(pipe), nimgs < BATCH,
           mode \in {"main", "event"}, UNCHANGED <<wpc, img, saving, disk, layout>>,
           \/ /\ ~(Head(pipe) \in disk /\ Interesting(img[Head(pipe)]))
              /\ mode' = "event" /\ nimgs' = nimgs + 1
           \/ /\ backing = <<0, 0>>
              /\ mode' = "dead" /\ nimgs' = 0
    PROVE  DisplayInv'
<1>1. /\ wpc' = wpc /\ img' = img /\ disk' = disk /\ click' = click /\ rects' = rects
      /\ win' = win /\ backing' = backing /\ resized' = resized
  BY DEF saving, layout
<1>2. TypeOK /\ NamesOK /\ FileLivesWithItsImage
  BY DEF DisplayInv
<1>3. PICK n : n = Head(pipe)
  OBVIOUS
<1>4. /\ Read' = Read \cup {n} /\ n \notin Read
      /\ pipe' \in Seq(Nat) /\ IsInjective(pipe') /\ ToSet(pipe') \subseteq ToSet(pipe)
      /\ Len(pipe') <= CAPACITY
      /\ wpc' = "send" => Len(img') # 0 /\ Len(img') \notin ToSet(pipe')
  BY <1>1, <1>3, NameRead
<1>5. nimgs' \in 0 .. BATCH /\ mode' \in {"event", "dead"}
  <2>1. nimgs \in 0 .. BATCH /\ BATCH \in Nat
    BY <1>2, Typed DEF TypeOK
  <2> QED  BY <2>1
<1>6. TypeOK'
  BY <1>1, <1>2, <1>4, <1>5 DEF TypeOK
<1>7. NamesOK'
  BY <1>1, <1>2, <1>4 DEF NamesOK
<1>8. FileLivesWithItsImage'
  <2>1. CASE ~(n \in disk /\ Interesting(img[n])) /\ mode' = "event"
    <3>1. {k \in Read' \cap disk : Interesting(img[k])} = {k \in Read \cap disk : Interesting(img[k])}
      BY <1>4, <2>1
    <3> QED  BY <1>1, <1>2, <2>1, <3>1 DEF FileLivesWithItsImage
  <2>2. CASE backing = <<0, 0>> /\ mode' = "dead"
    BY <1>1, <2>2 DEF FileLivesWithItsImage
  <2> QED  BY <1>3, <2>1, <2>2
<1> QED  BY <1>6, <1>7, <1>8, SameLayout DEF DisplayInv

\* Where a new image goes: inside the window, on this row or on a new one, in
\* a row that is high enough.
SlotOK(at) ==
    /\ at.x \in Int /\ at.w \in Nat /\ at.h \in Nat /\ at.dy \in Nat /\ at.rowheight \in Int
    /\ at.w > 0 /\ at.h > 0 /\ at.h <= backing[2] - 2 * BORDER
    /\ at.x >= BORDER /\ at.x + at.w <= backing[1]
    /\ at.rowheight >= at.h + BORDER
    /\ \/ at.dy = at.h + BORDER /\ at.rowheight = at.h + BORDER
       \/ at.x = wrx /\ at.rowheight = rowheight + at.dy

\* Where pipe_event puts the next image: behind the last of the row, or in a new one.
LEMMA LayoutIs ==
    ASSUME DisplayInv, backing # <<0, 0>>, NEW i \in Images, Interesting(i)
    PROVE  SlotOK(Layout(i))
<1>1. win = backing /\ backing[1] \in Nat /\ backing[2] \in Nat /\ backing[1] >= 332 /\ backing[2] >= 252
  BY SizesAre, Typed
<1>2. PICK W, H : W = backing[1] /\ H = backing[2]
  OBVIOUS
<1>3. PICK a, b : a = i.w /\ b = i.h
  OBVIOUS
<1>4. a \in Nat /\ b \in Nat /\ a > 8 /\ b > 8
  BY <1>3, DisplayAssumption DEF DisplayAssumption, Interesting
<1>5. wrx \in Int /\ rowheight \in Int /\ wrx >= BORDER
  BY DEF DisplayInv, RowOK
<1>6. PICK w : w = IF a > W - 2 * BORDER THEN W - 2 * BORDER ELSE a
  OBVIOUS
<1>7. PICK h : h = IF b > H - 2 * BORDER THEN H - 2 * BORDER ELSE b
  OBVIOUS
<1>8. w \in Nat /\ h \in Nat /\ w > 0 /\ h > 0 /\ w <= W - 2 * BORDER /\ h <= H - 2 * BORDER
  BY <1>1, <1>2, <1>4, <1>6, <1>7 DEF BORDER
<1>9. PICK at : at = Layout(i)
  OBVIOUS
<1>10. /\ at.w = w /\ at.h = h
       /\ at.x = IF W - wrx < w THEN BORDER ELSE wrx
       /\ at.dy = IF W - wrx < w THEN h + BORDER
                  ELSE IF rowheight < h + BORDER THEN h + BORDER - rowheight ELSE 0
       /\ at.rowheight = IF W - wrx < w \/ rowheight < h + BORDER THEN h + BORDER ELSE rowheight
  BY <1>1, <1>2, <1>3, <1>6, <1>7, <1>9 DEF Layout
<1>11. CASE W - wrx < w
  <2>1. at.x = BORDER /\ at.dy = h + BORDER /\ at.rowheight = h + BORDER
    BY <1>10, <1>11
  <2>2. BORDER + w <= W /\ h + BORDER \in Nat /\ BORDER \in Int
    BY <1>1, <1>2, <1>8 DEF BORDER
  <2>3. at.x + at.w <= backing[1] /\ at.h <= backing[2] - 2 * BORDER
    BY <1>2, <1>8, <1>10, <2>1, <2>2
  <2>4. at.x >= BORDER /\ at.x \in Int /\ at.dy \in Nat /\ at.rowheight \in Int
        /\ at.rowheight >= at.h + BORDER /\ at.dy = at.h + BORDER /\ at.rowheight = at.h + BORDER
    BY <1>10, <2>1, <2>2
  <2> QED  BY <1>8, <1>9, <1>10, <2>3, <2>4 DEF SlotOK
<1>12. CASE ~(W - wrx < w)
  <2>1. at.x = wrx /\ wrx + w <= W
    BY <1>1, <1>2, <1>5, <1>8, <1>10, <1>12
  <2>2. at.dy \in Nat /\ at.rowheight \in Int /\ at.rowheight >= h + BORDER
        /\ at.rowheight = rowheight + at.dy
    <3>1. CASE rowheight < h + BORDER
      <4>1. at.dy = h + BORDER - rowheight /\ at.rowheight = h + BORDER
        BY <1>10, <1>12, <3>1
      <4> QED  BY <1>5, <1>8, <3>1, <4>1 DEF BORDER
    <3>2. CASE ~(rowheight < h + BORDER)
      <4>1. at.dy = 0 /\ at.rowheight = rowheight
        BY <1>10, <1>12, <3>2
      <4> QED  BY <1>5, <1>8, <3>2, <4>1 DEF BORDER
    <3> QED  BY <3>1, <3>2
  <2> QED  BY <1>2, <1>5, <1>8, <1>9, <1>10, <2>1, <2>2 DEF SlotOK
<1> QED  BY <1>9, <1>11, <1>12
\* What Show does: others moved up or let go of, and one rectangle added.
LEMMA Shown ==
    ASSUME DisplayInv, NEW n \in 1 .. Len(img), n # 0, Interesting(img[n]),
           backing # <<0, 0>>, Show(n)
    PROVE  \E at, u, r, k :
             /\ SlotOK(at) /\ Kept(rects, u, -at.dy)
             /\ r \in Rect /\ r.file = n /\ r.x = at.x /\ r.y = wry - at.h /\ r.w = at.w /\ r.h = at.h
             /\ rects' \in Seq(Rect) /\ k \notin Used(u) /\ Used(rects') = Used(u) \cup {k}
             /\ rects'[k] = r /\ \A i \in Used(u) : rects'[i] = u[i]
             /\ disk' = disk \ (Files(rects) \ Files(u))
             /\ wrx' = at.x + at.w + BORDER /\ rowheight' = at.rowheight
             /\ wry' = wry /\ win' = win /\ backing' = backing /\ resized' = resized
<1>1. PICK at : at = Layout(img[n])
  OBVIOUS
<1>2. SlotOK(at)
  BY <1>1, LayoutIs, Typed
<1>3. PICK u : u = IF at.dy = 0 THEN rects ELSE Scrolled(rects, at.dy)
  OBVIOUS
<1>4. PICK r : r = [file |-> n, x |-> at.x, y |-> wry - at.h, w |-> at.w, h |-> at.h]
  OBVIOUS
<1>5. /\ rects' = Added(u, r)
      /\ disk' = disk \ (Files(rects) \ Files(u))
      /\ wrx' = at.x + at.w + BORDER /\ rowheight' = at.rowheight
      /\ wry' = wry /\ win' = win /\ backing' = backing /\ resized' = resized
  BY <1>1, <1>3, <1>4 DEF Show
<1>6. Kept(rects, u, -at.dy)
  <2>1. CASE at.dy = 0
    <3>1. u = rects
      BY <1>3, <2>1
    <3>2. Kept(rects, u, 0)
      BY <3>1, NotMovedKept, Typed
    <3>3. (-at.dy) = 0
      <4>1. \A x \in Nat : (-x) = 0 - x
        OBVIOUS
      <4>2. at.dy \in Nat
        BY <1>2 DEF SlotOK
      <4>3. (-at.dy) = 0 - at.dy
        BY <4>1, <4>2
      <4> QED  BY <2>1, <4>3
    <3> QED  BY <3>2, <3>3
  <2>2. CASE at.dy # 0
    <3>1. u = Scrolled(rects, at.dy) /\ at.dy \in Int
      BY <1>2, <1>3, <2>2 DEF SlotOK
    <3> QED  BY <3>1, ScrolledKept, Typed
  <2> QED  BY <2>1, <2>2
<1>7. r \in Rect
  <2>1. n \in Nat /\ wry - at.h \in Int
    BY <1>2, Typed DEF SlotOK, DisplayInv, RowOK
  <2> QED  BY <1>2, <1>4, <2>1 DEF SlotOK, Rect
<1>8. r.file = n /\ r.x = at.x /\ r.y = wry - at.h /\ r.w = at.w /\ r.h = at.h
  BY <1>4
<1>9. u \in Seq(Rect) /\ r.file # 0
  BY <1>6, <1>8 DEF Kept
<1>10. PICK k : /\ rects' \in Seq(Rect) /\ k \notin Used(u) /\ Used(rects') = Used(u) \cup {k}
                /\ rects'[k] = r /\ \A i \in Used(u) : rects'[i] = u[i]
  <2>1. PICK v : v = Added(u, r)
    OBVIOUS
  <2>2. /\ v \in Seq(Rect)
        /\ \E k : /\ k \notin Used(u) /\ Used(v) = Used(u) \cup {k}
                  /\ v[k] = r /\ \A i \in Used(u) : v[i] = u[i]
    <3>1. /\ Added(u, r) \in Seq(Rect)
          /\ \E k : /\ k \notin Used(u) /\ Used(Added(u, r)) = Used(u) \cup {k}
                    /\ Added(u, r)[k] = r
                    /\ \A i \in Used(u) : Added(u, r)[i] = u[i]
      BY <1>7, <1>9, AddedOf
    <3> QED  BY <2>1, <3>1
  <2>3. v = rects'
    BY <1>5, <2>1
  <2> QED  BY <2>2, <2>3
<1> WITNESS at, u, r, k
<1> QED  BY <1>2, <1>5, <1>6, <1>7, <1>8, <1>10

\* Where the others come to lie beside the new one.
LEMMA Beside ==
    ASSUME DisplayInv, backing # <<0, 0>>, NEW at, SlotOK(at),
           NEW u, Kept(rects, u, -at.dy), NEW i \in Used(u)
    PROVE  /\ Right(u[i]) \in Int /\ Bottom(u[i]) \in Int /\ wry \in Int
           /\ Bottom(u[i]) <= wry
           /\ \/ at.x = wrx /\ Right(u[i]) + BORDER <= at.x
              \/ Bottom(u[i]) <= wry - at.rowheight + (IF resized THEN 2 * BORDER ELSE 0)
<1>1. i \in Used(rects) /\ u[i].x = rects[i].x /\ u[i].y = rects[i].y - at.dy
      /\ u[i].w = rects[i].w /\ u[i].h = rects[i].h
  <2>1. i \in Used(rects) /\ u[i].x = rects[i].x /\ u[i].y = rects[i].y + (-at.dy)
        /\ u[i].w = rects[i].w /\ u[i].h = rects[i].h
    BY DEF Kept
  <2>2. rects[i].y \in Int /\ at.dy \in Int
    BY <2>1, UsedRect, Typed, SMTT(30) DEF SlotOK
  <2> QED  BY <2>1, <2>2
<1>2. rects[i].x \in Int /\ rects[i].y \in Int /\ rects[i].w \in Nat /\ rects[i].h \in Nat
  BY <1>1, UsedRect, Typed
<1>3. PICK x, y, w, h : x = rects[i].x /\ y = rects[i].y /\ w = rects[i].w /\ h = rects[i].h
  OBVIOUS
<1>4. PICK slack : slack = IF resized THEN 2 * BORDER ELSE 0
  OBVIOUS
<1>5. slack \in Nat
  BY <1>4 DEF BORDER
<1>6. /\ wry \in Int /\ wrx \in Int /\ rowheight \in Int
      /\ y + h <= wry
      /\ x + w + BORDER <= wrx \/ y + h <= wry - rowheight + slack
  BY <1>1, <1>3, <1>4 DEF DisplayInv, RowOK, Bottom, Right
<1>7. x \in Int /\ y \in Int /\ w \in Nat /\ h \in Nat
  BY <1>2, <1>3
<1>8. Right(u[i]) = x + w /\ Bottom(u[i]) = (y - at.dy) + h
  BY <1>1, <1>3 DEF Right, Bottom
<1>9. PICK dy, hh, rh : dy = at.dy /\ hh = at.h /\ rh = at.rowheight
  OBVIOUS
<1>10. dy \in Nat /\ hh \in Nat /\ rh \in Int
       /\ \/ dy = hh + BORDER /\ rh = hh + BORDER
          \/ at.x = wrx /\ rh = rowheight + dy
  BY <1>9 DEF SlotOK
<1>11. x + w \in Int /\ (y - dy) + h \in Int /\ (y - dy) + h <= wry
  BY <1>6, <1>7, <1>10
<1>12. CASE dy = hh + BORDER /\ rh = hh + BORDER
  <2>1. (y - dy) + h <= wry - rh + slack
    BY <1>5, <1>6, <1>7, <1>10, <1>12 DEF BORDER
  <2> QED  BY <1>4, <1>6, <1>8, <1>9, <1>11, <2>1
<1>13. CASE at.x = wrx /\ rh = rowheight + dy
  <2>1. y + h <= wry - rowheight + slack => (y - dy) + h <= wry - rh + slack
    BY <1>5, <1>6, <1>7, <1>10, <1>13
  <2> QED  BY <1>4, <1>6, <1>8, <1>9, <1>11, <1>13, <2>1
<1> QED  BY <1>10, <1>12, <1>13
\* A new image: the table holds its file, its row holds it, and it covers no
\* other but for what a change of size allows.
LEMMA ShowInv ==
    ASSUME DisplayInv, pipe # <<>>, pipe' = Tail(pipe), nimgs < BATCH,
           mode \in {"main", "event"}, mode' = "event", nimgs' = nimgs + 1,
           UNCHANGED <<wpc, img, saving>>, backing # <<0, 0>>,
           Head(pipe) \in disk, Interesting(img[Head(pipe)]), Show(Head(pipe))
    PROVE  DisplayInv'
<1>1. wpc' = wpc /\ img' = img /\ click' = click
  BY DEF saving
<1>2. TypeOK /\ NamesOK /\ FileLivesWithItsImage /\ RowOK
  BY DEF DisplayInv
<1>3. PICK n : n = Head(pipe)
  OBVIOUS
<1>4. /\ n \in 1 .. Len(img) /\ n # 0 /\ n \notin Read /\ Read' = Read \cup {n}
      /\ pipe' \in Seq(Nat) /\ IsInjective(pipe') /\ ToSet(pipe') \subseteq ToSet(pipe)
      /\ Len(pipe') <= CAPACITY
      /\ wpc' = "send" => Len(img') # 0 /\ Len(img') \notin ToSet(pipe')
  BY <1>1, <1>3, NameRead
<1>5. PICK at, u, r, k :
             /\ SlotOK(at) /\ Kept(rects, u, -at.dy)
             /\ r \in Rect /\ r.file = n /\ r.x = at.x /\ r.y = wry - at.h /\ r.w = at.w /\ r.h = at.h
             /\ rects' \in Seq(Rect) /\ k \notin Used(u) /\ Used(rects') = Used(u) \cup {k}
             /\ rects'[k] = r /\ \A i \in Used(u) : rects'[i] = u[i]
             /\ disk' = disk \ (Files(rects) \ Files(u))
             /\ wrx' = at.x + at.w + BORDER /\ rowheight' = at.rowheight
             /\ wry' = wry /\ win' = win /\ backing' = backing /\ resized' = resized
  BY <1>3, <1>4, Shown
<1>6. PICK v : v = rects'
  OBVIOUS
<1>7. /\ v \in Seq(Rect) /\ k \notin Used(u) /\ Used(v) = Used(u) \cup {k}
      /\ v[k] = r /\ \A i \in Used(u) : v[i] = u[i]
  BY <1>5, <1>6
<1>8. Files(u) \subseteq Files(rects) /\ Distinct(u) /\ Apart(u, resized)
  <2>1. -at.dy \in Int
    BY <1>5 DEF SlotOK
  <2> QED  BY <1>5, <2>1, KeptOf, Typed, SMTT(30)
<1>9. Files(v) = Files(u) \cup {n}
  <2>1. Files(u) = {u[i].file : i \in Used(u)} /\ Files(v) = {v[i].file : i \in Used(v)}
    BY DEF Files
  <2>2. \A i \in Used(u) : v[i].file = u[i].file
    BY <1>7
  <2>3. v[k].file = n
    BY <1>5, <1>7
  <2> QED  BY <1>7, <2>1, <2>2, <2>3
<1>10. n \notin Files(rects) /\ Files(rects) \subseteq DOMAIN img /\ n \in DOMAIN img
  BY <1>2, <1>4, Typed DEF NamesOK
<1>11. TypeOK'
  <2>1. Distinct(v)
    <3>1. \A i \in Used(u) : u[i].file \in Files(u)
      BY DEF Files
    <3>2. \A i \in Used(u) : v[i].file # n
      BY <1>7, <1>8, <1>10, <3>1
    <3>3. \A i, j \in Used(u) : v[i].file = v[j].file => i = j
      BY <1>7, <1>8 DEF Distinct
    <3>4. v[k].file = n
      BY <1>5, <1>7
    <3> QED  BY <1>7, <3>2, <3>3, <3>4 DEF Distinct
  <2>2. Files(rects') \subseteq DOMAIN img' /\ disk' \subseteq DOMAIN img'
    BY <1>1, <1>2, <1>5, <1>6, <1>8, <1>9, <1>10 DEF TypeOK
  <2>3. nimgs' \in 0 .. BATCH
    <3>1. nimgs \in 0 .. BATCH /\ BATCH \in Nat
      BY <1>2, Typed DEF TypeOK
    <3> QED  BY <3>1
  <2>4. ToSet(pipe') \subseteq DOMAIN img'
    BY <1>1, <1>2, <1>4 DEF TypeOK
  <2>5. win' = backing' /\ backing' \in Sizes \cup {<<0, 0>>} /\ resized' \in BOOLEAN
    BY <1>2, <1>5 DEF TypeOK
  <2> QED  BY <1>1, <1>2, <1>4, <1>6, <2>1, <2>2, <2>3, <2>4, <2>5 DEF TypeOK, Distinct
<1>12. NamesOK'
  <2>1. Files(rects') \subseteq Read'
    BY <1>2, <1>4, <1>6, <1>8, <1>9 DEF NamesOK
  <2> QED  BY <1>4, <2>1 DEF NamesOK
<1>13. FileLivesWithItsImage'
  <2>1. ASSUME wpc \in {"capture", "send"}
        PROVE  Files(v) = {f \in Read' \cap disk' : Interesting(img[f])}
    <3>1. Files(rects) = {f \in Read \cap disk : Interesting(img[f])}
      BY <1>2, <2>1 DEF FileLivesWithItsImage
    <3>2. n \in disk' /\ n \in Read'
      BY <1>3, <1>4, <1>5, <1>10
    <3>3. ASSUME NEW f \in Files(v) PROVE f \in Read' \cap disk' /\ Interesting(img[f])
      BY <1>3, <1>4, <1>5, <1>8, <1>9, <3>1, <3>2
    <3>4. ASSUME NEW f \in Read' \cap disk', Interesting(img[f]) PROVE f \in Files(v)
      BY <1>4, <1>5, <1>9, <3>1, <3>4
    <3> QED  BY <3>3, <3>4
  <2> QED  BY <1>1, <1>6, <2>1 DEF FileLivesWithItsImage
<1>14. /\ at.x \in Int /\ at.w \in Nat /\ at.h \in Nat /\ at.rowheight \in Int
       /\ at.x >= BORDER /\ at.rowheight >= at.h + BORDER
  BY <1>5 DEF SlotOK
<1>15. wry \in Int /\ wry = backing[2] - BORDER
  BY <1>2 DEF RowOK
<1>16. Right(r) + BORDER = wrx' /\ Bottom(r) = wry
  <2>1. (wry - at.h) + at.h = wry
    BY <1>14, <1>15
  <2> QED  BY <1>5, <2>1 DEF Right, Bottom
<1>17. RowOK'
  <2>1. wrx' \in Int /\ wrx' >= BORDER /\ rowheight' \in Int
    BY <1>5, <1>14 DEF BORDER
  <2>2. ASSUME NEW i \in Used(u)
        PROVE  /\ Bottom(v[i]) <= wry'
               /\ \/ Right(v[i]) + BORDER <= wrx'
                  \/ Bottom(v[i]) <= wry' - rowheight' + (IF resized' THEN 2 * BORDER ELSE 0)
    <3>1. /\ Right(u[i]) \in Int /\ Bottom(u[i]) <= wry
          /\ \/ at.x = wrx /\ Right(u[i]) + BORDER <= at.x
             \/ Bottom(u[i]) <= wry - at.rowheight + (IF resized THEN 2 * BORDER ELSE 0)
      BY <1>5, Beside
    <3>2. Right(u[i]) + BORDER <= at.x => Right(u[i]) + BORDER <= at.x + at.w + BORDER
      BY <1>14, <3>1 DEF BORDER
    <3>3. v[i] = u[i]
      BY <1>7
    <3> QED  BY <1>5, <3>1, <3>2, <3>3
  <2>3. Bottom(v[k]) <= wry' /\ Right(v[k]) + BORDER <= wrx'
    <3>1. wry <= wry /\ at.x + at.w + BORDER <= at.x + at.w + BORDER
      BY <1>14, <1>15 DEF BORDER
    <3> QED  BY <1>5, <1>7, <1>16, <3>1
  <2>4. wry' \in Int /\ wry' = backing'[2] - BORDER /\ backing' # <<0, 0>>
    BY <1>5, <1>15
  <2> QED  BY <1>6, <1>7, <2>1, <2>2, <2>3, <2>4 DEF RowOK
<1>18. ImagesApart'
  <2>1. ASSUME NEW i \in Used(u), Overlap(r, u[i]) \/ Overlap(u[i], r)
        PROVE  resized /\ u[i].y + u[i].h - r.y <= BORDER
    <3>1. /\ Right(u[i]) \in Int /\ Bottom(u[i]) \in Int
          /\ \/ at.x = wrx /\ Right(u[i]) + BORDER <= at.x
             \/ Bottom(u[i]) <= wry - at.rowheight + (IF resized THEN 2 * BORDER ELSE 0)
      BY <1>5, Beside
    <3>2. at.x < Right(u[i]) /\ wry - at.h < Bottom(u[i])
      BY <1>5, <2>1 DEF Overlap, Right, Bottom
    <3>3. ~(Right(u[i]) + BORDER <= at.x)
      BY <1>14, <3>1, <3>2 DEF BORDER
    <3>4. CASE ~resized
      <4>1. Bottom(u[i]) <= wry - at.rowheight + 0
        BY <3>1, <3>3, <3>4
      <4>2. Bottom(u[i]) <= wry - at.h
        BY <1>14, <1>15, <3>1, <4>1, SMTT(30) DEF BORDER
      <4> QED  BY <1>14, <1>15, <3>1, <3>2, <4>2
    <3>5. CASE resized
      <4>1. Bottom(u[i]) <= wry - at.rowheight + 2 * BORDER
        BY <3>1, <3>3, <3>5
      <4>2. PICK b, y, h, rh : b = Bottom(u[i]) /\ y = wry /\ h = at.h /\ rh = at.rowheight
        OBVIOUS
      <4>3. b \in Int /\ y \in Int /\ h \in Int /\ rh \in Int /\ rh >= h + BORDER /\ b <= y - rh + 2 * BORDER
        BY <1>14, <1>15, <3>1, <4>1, <4>2
      <4>4. b - (y - h) <= BORDER
        BY <4>3 DEF BORDER
      <4>5. r.y = y - h /\ u[i].y + u[i].h = b
        BY <1>5, <4>2 DEF Bottom
      <4>6. u[i].y + u[i].h - r.y <= BORDER
        <5>1. u[i].y \in Int /\ u[i].h \in Int /\ r.y \in Int
          <6>1. u \in Seq(Rect)
            BY <1>7, <1>5 DEF Kept
          <6> QED  BY <4>3, <4>5, <6>1, UsedRect
        <5> QED  BY <4>3, <4>4, <4>5, <5>1, SMTT(30)
      <4>7. resized
        BY <3>5
      <4> QED  BY <4>6, <4>7
    <3> QED  BY <3>4, <3>5, Typed
  <2>2. Apart(v, resized)
    <3>1. ASSUME NEW i \in Used(v), NEW j \in Used(v), i # j, Overlap(v[i], v[j])
          PROVE  /\ resized
                 /\ \/ v[i].y + v[i].h - v[j].y <= BORDER
                    \/ v[j].y + v[j].h - v[i].y <= BORDER
      <4>1. CASE i \in Used(u) /\ j \in Used(u)
        <5>1. v[i] = u[i] /\ v[j] = u[j]
          BY <1>7, <4>1
        <5> QED  BY <1>8, <3>1, <4>1, <5>1 DEF Apart
      <4>2. CASE i = k /\ j \in Used(u)
        <5>1. v[i] = r /\ v[j] = u[j]
          BY <1>7, <4>2
        <5> QED  BY <2>1, <3>1, <4>2, <5>1
      <4>3. CASE j = k /\ i \in Used(u)
        <5>1. v[j] = r /\ v[i] = u[i]
          BY <1>7, <4>3
        <5> QED  BY <2>1, <3>1, <4>3, <5>1
      <4> QED  BY <1>7, <3>1, <4>1, <4>2, <4>3
    <3> QED  BY <3>1 DEF Apart
  <2>3. resized' = resized
    BY <1>5
  <2> QED  BY <1>6, <2>2, <2>3 DEF Apart, ImagesApart
<1> QED  BY <1>11, <1>12, <1>13, <1>17, <1>18 DEF DisplayInv

\* A turn of the loop that reads names.
LEMMA ReadNameInv ==
    ASSUME DisplayInv, ReadName PROVE DisplayInv'
<1>1. /\ mode \in {"main", "event"} /\ nimgs < BATCH /\ pipe # <<>> /\ pipe' = Tail(pipe)
      /\ UNCHANGED <<wpc, img, saving>>
  BY DEF ReadName
<1>2. CASE /\ ~(Head(pipe) \in disk /\ Interesting(img[Head(pipe)]))
           /\ mode' = "event" /\ nimgs' = nimgs + 1
           /\ UNCHANGED <<disk, layout>>
  BY <1>1, <1>2, PassOverInv
<1>3. CASE /\ Head(pipe) \in disk /\ Interesting(img[Head(pipe)]) /\ backing # <<0, 0>>
           /\ mode' = "event" /\ nimgs' = nimgs + 1
           /\ Show(Head(pipe))
  BY <1>1, <1>3, ShowInv
<1>4. CASE /\ backing = <<0, 0>>
           /\ mode' = "dead" /\ nimgs' = 0
           /\ UNCHANGED <<disk, layout>>
  BY <1>1, <1>4, PassOverInv
<1> QED  BY <1>2, <1>3, <1>4 DEF ReadName
\* The invariant holds before the window is drawn.
LEMMA InitDisplay ==
    ASSUME Init PROVE DisplayInv
<1>1. /\ wpc = "capture" /\ img = <<>> /\ disk = {} /\ pipe = <<>> /\ mode = "main" /\ nimgs = 0
      /\ win = <<0, 0>> /\ backing = <<0, 0>> /\ rects = [i \in 1 .. TABLE |-> NoRect]
      /\ wrx = 0 /\ wry = 0 /\ rowheight = 0 /\ click = <<0, 0>> /\ resized = FALSE
  BY DEF Init
<1>2. CAPACITY \in Nat /\ BATCH \in Nat /\ TABLE \in Nat
  BY DisplayAssumption DEF DisplayAssumption
<1>3. NoRect \in Rect /\ NoRect.file = 0
  BY DEF NoRect, Rect
<1>4. Used(rects) = {} /\ Files(rects) = {}
  <2>1. Used(rects) = {}
    BY <1>1, <1>3 DEF Used
  <2> QED  BY <2>1 DEF Files
<1>5. rects \in Seq(Rect)
  <2>1. rects \in [1 .. TABLE -> Rect]
    BY <1>1, <1>3
  <2> QED  BY <1>2, <2>1, ListOf
<1>6. ToSet(pipe) = {} /\ IsInjective(pipe) /\ pipe \in Seq(Nat) /\ Len(pipe) = 0
      /\ img \in Seq(Images) /\ DOMAIN img = {}
  BY <1>1 DEF ToSet, IsInjective
<1>7. TypeOK
  <2>1. nimgs \in 0 .. BATCH /\ Len(pipe) <= CAPACITY
    BY <1>1, <1>2, <1>6
  <2>2. resized \in BOOLEAN
    BY <1>1
  <2>3. wpc = "capture" /\ mode = "main" /\ disk = {} /\ backing = <<0, 0>> /\ win = backing
        /\ click = <<0, 0>>
    BY <1>1
  <2> QED  BY <1>4, <1>6, <2>1, <2>2, <2>3 DEF TypeOK
<1>8. NamesOK
  BY <1>1, <1>4, <1>6 DEF NamesOK
<1>9. FileLivesWithItsImage
  BY <1>1, <1>4 DEF FileLivesWithItsImage
<1>10. RowOK
  <2>1. wrx \in Int /\ wry \in Int /\ rowheight \in Int /\ backing = <<0, 0>>
    BY <1>1
  <2> QED  BY <1>4, <1>5, <2>1 DEF RowOK
<1>11. ImagesApart
  BY <1>4 DEF ImagesApart
<1> QED  BY <1>7, <1>8, <1>9, <1>10, <1>11 DEF DisplayInv

\* Every step keeps the invariant.
LEMMA NextDisplay ==
    ASSUME DisplayInv, [Next]_vars PROVE DisplayInv'
<1>1. ASSUME NEW i \in Images, WriteFile(i) PROVE DisplayInv'
  BY <1>1, WriteFileInv, SameLayout DEF WriteFile, FilesInv, DisplayInv
<1>2. CASE SendName
  BY <1>2, SendNameInv, SameLayout DEF SendName, FilesInv, DisplayInv
<1>3. CASE Clean \/ Exit
  BY <1>3, CleanInv, SameLayout DEF Clean, Exit, FilesInv, DisplayInv
<1>4. ASSUME NEW s \in Sizes, Expose(s) PROVE DisplayInv'
  BY <1>4, ExposeInv
<1>5. CASE ReadName
  BY <1>5, ReadNameInv
<1>6. ASSUME UNCHANGED <<driftnet, layout>>,
             mode' \in {"main", "event", "quit", "dead"}, nimgs' \in 0 .. BATCH,
             mode' = "dead" <=> mode = "dead",
             click' \in Points \cup {<<0, 0>>}
      PROVE  DisplayInv'
  <2>1. UNCHANGED <<driftnet, rects, win, backing, resized>>
    BY <1>6 DEF layout
  <2> QED  BY <1>6, <2>1, CallbackInv, SameLayout DEF FilesInv, DisplayInv
<1>7. click \in Points \cup {<<0, 0>>} /\ nimgs \in 0 .. BATCH /\ BATCH \in Nat
      /\ mode \in {"main", "event", "quit", "dead"}
  BY Typed DEF DisplayInv, TypeOK
<1>8. CASE EndEvent
  <2>1. /\ UNCHANGED <<driftnet, layout>> /\ click' = click /\ nimgs' = 0
        /\ mode \in {"event", "main"} /\ mode' \in {"quit", "main"}
    BY <1>8 DEF EndEvent, saving
  <2> QED  BY <1>6, <1>7, <2>1
<1>9. ASSUME NEW p \in Points, Press(p) \/ Release(p) PROVE DisplayInv'
  <2>1. /\ UNCHANGED <<driftnet, layout>> /\ click' \in {click, p}
        /\ nimgs' = nimgs /\ mode' = mode
    BY <1>9 DEF Press, Release
  <2> QED  BY <1>6, <1>7, <2>1
<1>10. CASE CloseWindow
  <2>1. /\ UNCHANGED <<driftnet, layout>> /\ click' = click
        /\ nimgs' = nimgs /\ mode = "main" /\ mode' = "quit"
    BY <1>10 DEF CloseWindow, saving
  <2> QED  BY <1>6, <1>7, <2>1
<1>11. CASE Finish
  BY <1>11, FinishInv, SameLayout DEF Finish, FilesInv, DisplayInv
<1>12. CASE UNCHANGED vars
  <2>1. UNCHANGED <<driftnet, layout>> /\ click' = click /\ nimgs' = nimgs /\ mode' = mode
    BY <1>12 DEF vars, saving
  <2> QED  BY <1>6, <1>7, <2>1
<1> QED  BY <1>1, <1>2, <1>3, <1>4, <1>5, <1>8, <1>9, <1>10, <1>11, <1>12 DEF Next

-----------------------------------------------------------------------------
(* What holds of every behaviour. *)

\* Names, files, rectangles and rows stay as described, whatever is written,
\* sent, shown, resized, clicked and closed, in any order.
THEOREM DisplayInvariance == Spec => []DisplayInv
<1>1. Init => DisplayInv
  BY InitDisplay
<1>2. DisplayInv /\ [Next]_vars => DisplayInv'
  BY NextDisplay
<1> QED  BY <1>1, <1>2, PTL DEF Spec

\* Every variable has its type, no file is in the table twice, and the pipe
\* holds no more names than it can.
THEOREM DisplayTypeOK == Spec => []TypeOK
<1>1. DisplayInv => TypeOK
  BY DEF DisplayInv
<1> QED  BY <1>1, DisplayInvariance, PTL

\* A file is deleted once its image has left the window, and no sooner (the
\* deletions of make_backing_image, scroll_backing_image and do_gtkdisplay).
THEOREM FilesLiveWithTheirImages == Spec => []FileLivesWithItsImage
<1>1. DisplayInv => FileLivesWithItsImage
  BY DEF DisplayInv
<1> QED  BY <1>1, DisplayInvariance, PTL

\* No image is drawn over another, but for BORDER lines after a change of size
\* (pipe_event's layout of rows, for every sequence of images and sizes).
THEOREM NoImageOverAnother == Spec => []ImagesApart
<1>1. DisplayInv => ImagesApart
  BY DEF DisplayInv
<1> QED  BY <1>1, DisplayInvariance, PTL

\* img_simple_blt is never asked for a rectangle that is not inside the backing
\* image, nor does an image reach into the lower border (pipe_event, which cuts
\* an image to the window and moves the others up).
THEOREM BlitsStayInBounds == Spec => BltInBounds
<1> DEFINE Step ==
      /\ \A i \in Used(rects') : rects'[i].y + rects'[i].h <= backing'[2] - BORDER
      /\ \A i \in Used(rects') : rects'[i].file \notin Files(rects) =>
            /\ rects'[i].x >= BORDER /\ rects'[i].x + rects'[i].w <= backing'[1]
            /\ rects'[i].y >= BORDER /\ rects'[i].w > 0 /\ rects'[i].h > 0
<1>1. ASSUME DisplayInv, DisplayInv', [Next]_vars PROVE Step
  <2>1. \A i \in Used(rects') : rects'[i].y + rects'[i].h <= backing'[2] - BORDER
    BY <1>1 DEF DisplayInv, RowOK, Bottom
  <2>2. \A i \in Used(rects') : rects'[i].file \in Files(rects')
    BY DEF Files
  <2>3. CASE Files(rects') \subseteq Files(rects)
    BY <2>1, <2>2, <2>3
  <2>4. ASSUME NEW n, n = Head(pipe), pipe # <<>>, pipe' = Tail(pipe), img' = img, wpc' = wpc,
               Interesting(img[n]), backing # <<0, 0>>, Show(n)
        PROVE  Step
    <3>1. n \in 1 .. Len(img) /\ n # 0
      BY <1>1, <2>4, NameRead
    <3>2. PICK at, u, r, k :
             /\ SlotOK(at) /\ Kept(rects, u, -at.dy)
             /\ r \in Rect /\ r.file = n /\ r.x = at.x /\ r.y = wry - at.h /\ r.w = at.w /\ r.h = at.h
             /\ rects' \in Seq(Rect) /\ k \notin Used(u) /\ Used(rects') = Used(u) \cup {k}
             /\ rects'[k] = r /\ \A i \in Used(u) : rects'[i] = u[i]
             /\ disk' = disk \ (Files(rects) \ Files(u))
             /\ wrx' = at.x + at.w + BORDER /\ rowheight' = at.rowheight
             /\ wry' = wry /\ win' = win /\ backing' = backing /\ resized' = resized
      BY <1>1, <2>4, <3>1, Shown
    <3>3. Files(u) \subseteq Files(rects)
      <4>1. -at.dy \in Int
        BY <3>2 DEF SlotOK
      <4> QED  BY <1>1, <3>2, <4>1, KeptOf, Typed
    <3>4. \A i \in Used(u) : rects'[i].file \in Files(rects)
      BY <3>2, <3>3 DEF Files
    <3>5. /\ at.x >= BORDER /\ at.x + at.w <= backing[1] /\ at.w > 0 /\ at.h > 0
          /\ wry - at.h >= BORDER
      <4>1. /\ at.h \in Nat /\ at.h <= backing[2] - 2 * BORDER
            /\ at.x >= BORDER /\ at.x + at.w <= backing[1] /\ at.w > 0 /\ at.h > 0
        BY <3>2 DEF SlotOK
      <4>2. wry = backing[2] - BORDER /\ wry \in Int
        BY <1>1, <2>4 DEF DisplayInv, RowOK
      <4>3. backing[2] \in Nat
        BY <1>1, <2>4, SizesAre, Typed
      <4>4. wry - at.h >= BORDER
        BY <4>1, <4>2, <4>3 DEF BORDER
      <4> QED  BY <4>1, <4>4
    <3>6. /\ rects'[k].x >= BORDER /\ rects'[k].x + rects'[k].w <= backing'[1]
          /\ rects'[k].y >= BORDER /\ rects'[k].w > 0 /\ rects'[k].h > 0
      BY <3>2, <3>5
    <3>7. Used(rects') = Used(u) \cup {k}
      BY <3>2
    <3> QED  BY <2>1, <3>4, <3>6, <3>7
  <2>5. CASE rects' = rects
    BY <2>3, <2>5
  <2>6. ASSUME NEW s \in Sizes, Expose(s) PROVE Step
    <3>1. Files(rects') \subseteq Files(rects)
      <4>1. CASE backing = <<0, 0>>
        BY <2>6, <4>1 DEF Expose
      <4>2. CASE backing # <<0, 0>>
        <5>1. backing[2] \in Nat /\ s[2] \in Nat
          BY <1>1, <4>2, SizesAre, Typed
        <5>2. s[2] - backing[2] \in Int
          BY <5>1
        <5>3. rects' = Resized(rects, s[2] - backing[2], s[1])
          BY <2>6, <4>2 DEF Expose
        <5>4. rects \in Seq(Rect)
          BY <1>1, Typed
        <5> QED  BY <5>2, <5>3, <5>4, ResizedKept, KeptOf
      <4> QED  BY <4>1, <4>2
    <3> QED  BY <2>3, <3>1
  <2>7. CASE ReadName
    <3>1. pipe # <<>> /\ pipe' = Tail(pipe) /\ img' = img /\ wpc' = wpc
      BY <2>7 DEF ReadName
    <3>2. \/ rects' = rects
          \/ Interesting(img[Head(pipe)]) /\ backing # <<0, 0>> /\ Show(Head(pipe))
      BY <2>7 DEF ReadName, layout
    <3> QED  BY <2>4, <2>5, <3>1, <3>2
  <2>8. CASE ~ReadName /\ ~\E s \in Sizes : Expose(s)
    <3>1. rects' = rects
      BY <1>1, <2>8 DEF Next, WriteFile, SendName, Clean, Exit, EndEvent, Press, Release,
            CloseWindow, Finish, vars, layout
    <3> QED  BY <2>5, <3>1
  <2> QED  BY <2>6, <2>7, <2>8
<1>2. DisplayInv /\ DisplayInv' /\ [Next]_vars => [Step]_vars
  BY <1>1
<1> QED  BY <1>2, DisplayInvariance, PTL DEF Spec, BltInBounds
=============================================================================
