---------------------------- MODULE ProofLemmas ----------------------------
(***************************************************************************)
(* Facts about natural numbers and sequences that walks over lists, loops  *)
(* with a counter and tables rest on, and about recursive functions that   *)
(* stand for loops.                                                        *)
(***************************************************************************)
EXTENDS Integers, Sequences, WellFoundedInduction, TLAPS

\* A nonempty set of natural numbers has a smallest one.
LEMMA SmallestExists ==
    ASSUME NEW S \in SUBSET Nat, S # {}
    PROVE  \E x \in S : \A y \in S : x <= y
<1> DEFINE less == {ss \in Nat \X Nat : ss[1] < ss[2]}
<1>1. IsWellFoundedOn(less, Nat)
  BY NatLessThanWellFounded DEF OpToRel
<1>2. \A x, y \in Nat : <<x, y>> \notin less => y <= x
  OBVIOUS
<1> HIDE DEF less
<1>3. \E x \in S : \A y \in S : ~(<<y, x>> \in less)
  BY <1>1, WFMin
<1> QED  BY <1>2, <1>3

\* A set that contains 0 and with each number the next up to N contains them all.
LEMMA UpTo ==
    ASSUME NEW N \in Nat, NEW S, 0 \in S, \A n \in 0 .. (N - 1) : n \in S => n + 1 \in S
    PROVE  0 .. N \subseteq S
<1> SUFFICES ASSUME ~(0 .. N \subseteq S) PROVE FALSE
  OBVIOUS
<1> DEFINE out == {n \in 0 .. N : n \notin S}
<1>1. out \in SUBSET Nat /\ out # {}
  OBVIOUS
<1>2. PICK x \in out : \A y \in out : x <= y
  BY <1>1, SmallestExists
<1>3. x \in 0 .. N /\ x # 0 /\ x - 1 \in 0 .. (N - 1) /\ x - 1 \notin out
  BY <1>2
<1> QED  BY <1>2, <1>3

\* Two sequences joined.
LEMMA Joined ==
    ASSUME NEW S, NEW x \in Seq(S), NEW y \in Seq(S)
    PROVE  /\ x \o y \in Seq(S) /\ Len(x \o y) = Len(x) + Len(y)
           /\ \A n \in 1 .. Len(x) : (x \o y)[n] = x[n]
           /\ \A n \in 1 .. (Len(x) + Len(y)) : n > Len(x) => (x \o y)[n] = y[n - Len(x)]
OBVIOUS

\* A function on the first n numbers is a sequence.
LEMMA ListOf ==
    ASSUME NEW S, NEW n \in Nat, NEW f \in [1 .. n -> S]
    PROVE  f \in Seq(S) /\ Len(f) = n
OBVIOUS

\* A sequence with one element more.
LEMMA Appended ==
    ASSUME NEW S, NEW x \in Seq(S), NEW e \in S
    PROVE  /\ Append(x, e) \in Seq(S) /\ Len(Append(x, e)) = Len(x) + 1
           /\ \A n \in 1 .. Len(x) : Append(x, e)[n] = x[n]
           /\ Append(x, e)[Len(x) + 1] = e
OBVIOUS

-----------------------------------------------------------------------------
\* A walk over D, from x to nxt[x], that takes place pos[x] on its way ever
\* higher and stops before place N; and what a function defined along it gives,
\* the value of the element where the walk ends.
Walk(D, pos, N, stop, nxt) ==
    /\ N \in Nat /\ pos \in [D -> Nat] /\ stop \in SUBSET D /\ nxt \in [D -> D]
    /\ \A x \in D \ stop : pos[x] < pos[nxt[x]] /\ pos[x] < N
Follows(f, D, stop, val, nxt) == f = [x \in D |-> IF x \in stop THEN val[x] ELSE f[nxt[x]]]
StaysIn(I, D, stop, nxt) == I \in SUBSET D /\ \A x \in I \ stop : nxt[x] \in I
WalksFrom(s, D, pos, N, stop, val, nxt, f, I) ==
    /\ Walk(D, pos, N, stop, nxt) /\ Follows(f, D, stop, val, nxt)
    /\ StaysIn(I, D, stop, nxt) /\ s \in I
EndsIn(s, stop, val, f, I) == \E x \in I : x \in stop /\ f[s] = val[x]

\* Along every walk such a function exists: recursive definitions of this form
\* are no empty ones.
LEMMA WalkExists ==
    ASSUME NEW D, NEW pos, NEW N, NEW stop, NEW val, NEW nxt, Walk(D, pos, N, stop, nxt)
    PROVE  \E f : Follows(f, D, stop, val, nxt)
<1>0. /\ N \in Nat /\ stop \in SUBSET D /\ nxt \in [D -> D] /\ pos \in [D -> Nat]
      /\ \A x \in D \ stop : pos[x] < pos[nxt[x]] /\ pos[x] < N
  BY DEF Walk
<1> DEFINE From(g, k) == [x \in D |-> IF x \in stop THEN val[x]
                                      ELSE IF pos[x] < N - k THEN 0 ELSE g[nxt[x]]]
           done == {k \in 0 .. N : \E g : g = From(g, k)}
<1>1. 0 \in done
  <2> DEFINE g == [x \in D |-> IF x \in stop THEN val[x] ELSE 0]
  <2>1. g = From(g, 0)
    BY <1>0
  <2> HIDE DEF g
  <2>2. 0 \in 0 .. N /\ \E gg : gg = From(gg, 0)
    BY <1>0, <2>1
  <2> QED  BY <2>2
<1>2. ASSUME NEW k \in 0 .. (N - 1), k \in done PROVE k + 1 \in done
  <2>1. PICK g : g = From(g, k)
    BY <1>2
  <2> DEFINE h == From(g, k + 1)
  <2>2. ASSUME NEW x \in D, x \notin stop, ~(pos[x] < N - (k + 1)) PROVE h[nxt[x]] = g[nxt[x]]
    <3>1. PICK y \in D : y = nxt[x] /\ pos[x] < pos[y] /\ pos[x] \in Nat /\ pos[y] \in Nat
      BY <1>0, <2>2
    <3>2. ~(pos[y] < N - k) /\ ~(pos[y] < N - (k + 1))
      BY <1>0, <3>1, <2>2
    <3>3. h[y] = IF y \in stop THEN val[y] ELSE g[nxt[y]]
      BY <3>2
    <3>4. g[y] = IF y \in stop THEN val[y] ELSE g[nxt[y]]
      BY <2>1, <3>2
    <3> QED  BY <3>1, <3>3, <3>4
  <2>3. h = From(h, k + 1)
    BY <2>2
  <2>4. k + 1 \in 0 .. N
    BY <1>0
  <2> QED  BY <2>3, <2>4
<1>3. 0 .. N \subseteq done
  <2> HIDE DEF done
  <2> QED  BY <1>0, <1>1, <1>2, UpTo
<1>4. PICK f : f = From(f, N)
  <2>1. N \in done
    <3> HIDE DEF done
    <3> QED  BY <1>0, <1>3
  <2> QED  BY <2>1
<1>5. ASSUME NEW x \in D
      PROVE  (IF x \in stop THEN val[x] ELSE IF pos[x] < N - N THEN 0 ELSE f[nxt[x]])
              = IF x \in stop THEN val[x] ELSE f[nxt[x]]
  BY <1>0
<1>6. From(f, N) = [x \in D |-> IF x \in stop THEN val[x] ELSE f[nxt[x]]]
  BY <1>5
<1> QED  BY <1>4, <1>6 DEF Follows

\* What it gives at a place is the value of a place where the walk stops, within
\* every set that the walk does not leave.
LEMMA WalkEnds ==
    ASSUME NEW D, NEW pos, NEW N, NEW stop, NEW val, NEW nxt, NEW f, NEW I, NEW start,
           WalksFrom(start, D, pos, N, stop, val, nxt, f, I)
    PROVE  EndsIn(start, stop, val, f, I)
<1>0. /\ N \in Nat /\ stop \in SUBSET D /\ nxt \in [D -> D] /\ pos \in [D -> Nat]
      /\ \A x \in D \ stop : pos[x] < pos[nxt[x]] /\ pos[x] < N
      /\ I \in SUBSET D /\ \A x \in I \ stop : nxt[x] \in I
      /\ \A x \in I : f[x] = IF x \in stop THEN val[x] ELSE f[nxt[x]]
      /\ start \in I
  BY DEF WalksFrom, Walk, StaysIn, Follows
<1> DEFINE Ends(x) == \E y \in I : y \in stop /\ f[x] = val[y]
           done == {k \in 0 .. N : \A x \in I : pos[x] >= N - k => Ends(x)}
<1>1. 0 \in done
  <2>1. \A x \in I : pos[x] >= N - 0 => x \in stop
    BY <1>0
  <2>2. \A x \in I : x \in stop => Ends(x)
    BY <1>0
  <2>3. 0 \in 0 .. N
    BY <1>0
  <2> QED  BY <2>1, <2>2, <2>3
<1>2. ASSUME NEW k \in 0 .. (N - 1), k \in done PROVE k + 1 \in done
  <2>1. ASSUME NEW x \in I, pos[x] >= N - (k + 1) PROVE Ends(x)
    <3>1. CASE x \in stop
      BY <3>1, <1>0
    <3>2. CASE x \notin stop
      <4>1. PICK y \in I : y = nxt[x] /\ pos[x] < pos[y]
        BY <1>0, <3>2
      <4>2. pos[y] >= N - k
        <5>1. pos[x] \in Nat /\ pos[y] \in Nat /\ N \in Nat
          BY <1>0
        <5> QED  BY <5>1, <2>1, <4>1
      <4>3. Ends(y)
        BY <1>2, <4>2
      <4>4. f[x] = f[y]
        BY <1>0, <3>2, <4>1
      <4> QED  BY <4>3, <4>4
    <3> QED  BY <3>1, <3>2
  <2>2. k + 1 \in 0 .. N
    BY <1>0
  <2> QED  BY <2>1, <2>2
<1>3. 0 .. N \subseteq done
  <2> HIDE DEF done
  <2> QED  BY <1>0, <1>1, <1>2, UpTo
<1>4. N \in done
  <2> HIDE DEF done
  <2> QED  BY <1>0, <1>3
<1>5. pos[start] >= N - N
  <2>1. pos[start] \in Nat
    BY <1>0
  <2> QED  BY <1>0, <2>1
<1>6. \E y \in I : y \in stop /\ f[start] = val[y]
  BY <1>0, <1>4, <1>5
<1> QED  BY <1>6 DEF EndsIn
-----------------------------------------------------------------------------
\* The places s of things that begin at x and have lengths l[1] to l[n].
Laid(s, x, l, n) == s = [i \in 1 .. n + 1 |-> IF i = 1 THEN x ELSE s[i - 1] + l[i - 1]]

\* Such places exist.
LEMMA LaidExists ==
    ASSUME NEW n \in Nat, NEW x \in Nat, NEW l \in [1 .. n -> Nat]
    PROVE  \E s : Laid(s, x, l, n)
<1> DEFINE Upto(s, k) == /\ s \in [1 .. k + 1 -> Nat]
                         /\ \A i \in 1 .. k + 1 : s[i] = IF i = 1 THEN x ELSE s[i - 1] + l[i - 1]
           done == {k \in 0 .. n : \E s : Upto(s, k)}
<1>1. 0 \in done
  <2>1. PICK s : s = [i \in 1 .. 0 + 1 |-> x]
    OBVIOUS
  <2>2. Upto(s, 0) /\ 0 \in 0 .. n
    BY <2>1
  <2> QED  BY <2>2
<1>2. ASSUME NEW k \in 0 .. (n - 1), k \in done PROVE k + 1 \in done
  <2>1. PICK s : Upto(s, k)
    BY <1>2
  <2> DEFINE h == [i \in 1 .. (k + 1) + 1 |-> IF i = k + 2 THEN s[k + 1] + l[k + 1] ELSE s[i]]
  <2>2. k \in Nat /\ l[k + 1] \in Nat /\ s[k + 1] \in Nat /\ k + 1 \in 0 .. n
    BY <2>1
  <2>3. h \in [1 .. (k + 1) + 1 -> Nat]
    BY <2>1, <2>2
  <2>4. ASSUME NEW i \in 1 .. (k + 1) + 1
        PROVE  h[i] = IF i = 1 THEN x ELSE h[i - 1] + l[i - 1]
    <3>1. CASE i = k + 2
      <4>1. i # 1 /\ i - 1 = k + 1 /\ i - 1 \in 1 .. (k + 1) + 1 /\ i - 1 # k + 2
        BY <2>2, <3>1
      <4> QED  BY <3>1, <4>1
    <3>2. CASE i # k + 2
      <4>1. i \in 1 .. k + 1 /\ h[i] = s[i]
        BY <2>2, <3>2
      <4>2. i # 1 => h[i - 1] = s[i - 1]
        BY <2>2, <3>2
      <4>3. s[i] = IF i = 1 THEN x ELSE s[i - 1] + l[i - 1]
        BY <2>1, <4>1
      <4> HIDE DEF h
      <4> QED  BY <4>1, <4>2, <4>3
    <3> QED  BY <3>1, <3>2
  <2> HIDE DEF h
  <2>5. Upto(h, k + 1)
    BY <2>3, <2>4
  <2> QED  BY <2>2, <2>5
<1>3. n \in done
  <2> HIDE DEF done
  <2>1. 0 .. n \subseteq done
    BY <1>1, <1>2, UpTo
  <2> QED  BY <2>1
<1>4. PICK s : Upto(s, n)
  BY <1>3
<1>5. s = [i \in 1 .. n + 1 |-> IF i = 1 THEN x ELSE s[i - 1] + l[i - 1]]
  BY <1>4
<1> QED  BY <1>5 DEF Laid

\* They begin at x, each is behind the one before by its length, and when no
\* length is 0 no two are the same.
LEMMA LaidInOrder ==
    ASSUME NEW n \in Nat, NEW x \in Nat, NEW l \in [1 .. n -> Nat \ {0}], NEW s, Laid(s, x, l, n)
    PROVE  /\ s[1] = x /\ \A i \in 1 .. n : s[i + 1] = s[i] + l[i]
           /\ \A i \in 1 .. n + 1 : s[i] \in Nat
           /\ \A i, j \in 1 .. n + 1 : i < j => s[i] < s[j]
<1>1. s[1] = x
  BY DEF Laid
<1>2. ASSUME NEW i \in 1 .. n PROVE s[i + 1] = s[i] + l[i]
  <2>1. i + 1 \in 1 .. n + 1 /\ i + 1 # 1 /\ (i + 1) - 1 = i
    OBVIOUS
  <2> QED  BY <2>1 DEF Laid
<1> DEFINE done == {k \in 0 .. n : /\ \A i \in 1 .. k + 1 : s[i] \in Nat
                                   /\ \A i, j \in 1 .. k + 1 : i < j => s[i] < s[j]}
<1>3. 0 \in done
  BY <1>1
<1>4. ASSUME NEW k \in 0 .. (n - 1), k \in done PROVE k + 1 \in done
  <2>1. k + 1 \in 1 .. n /\ k + 1 \in 0 .. n /\ (k + 1) + 1 = k + 2 /\ k \in Nat
    OBVIOUS
  <2>2. s[k + 1] \in Nat /\ l[k + 1] \in Nat /\ l[k + 1] > 0
    BY <1>4, <2>1
  <2>3. s[k + 2] = s[k + 1] + l[k + 1]
    BY <1>2, <2>1
  <2>4. s[k + 2] \in Nat /\ s[k + 1] < s[k + 2]
    BY <2>2, <2>3
  <2>5. ASSUME NEW i \in 1 .. (k + 1) + 1 PROVE s[i] \in Nat
    <3>1. i = k + 2 \/ i \in 1 .. k + 1
      BY <2>1
    <3> QED  BY <1>4, <2>4, <3>1
  <2>6. ASSUME NEW i \in 1 .. (k + 1) + 1, NEW j \in 1 .. (k + 1) + 1, i < j PROVE s[i] < s[j]
    <3>1. CASE j = k + 2
      <4>1. i = k + 1 \/ (i \in 1 .. k + 1 /\ i < k + 1 /\ k + 1 \in 1 .. k + 1)
        BY <2>1, <2>6, <3>1
      <4>2. i < k + 1 => s[i] < s[k + 1]
        BY <1>4, <4>1
      <4> QED  BY <2>2, <2>4, <2>5, <3>1, <4>1, <4>2
    <3>2. CASE j # k + 2
      <4>1. i \in 1 .. k + 1 /\ j \in 1 .. k + 1
        BY <2>1, <2>6, <3>2
      <4> QED  BY <1>4, <2>6, <4>1
    <3> QED  BY <3>1, <3>2
  <2> QED  BY <2>1, <2>5, <2>6
<1>5. n \in done
  <2> HIDE DEF done
  <2>1. 0 .. n \subseteq done
    BY <1>3, <1>4, UpTo
  <2> QED  BY <2>1
<1> QED  BY <1>1, <1>2, <1>5
=============================================================================
