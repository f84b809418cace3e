--------------------------- MODULE HttpRingProofs ---------------------------
(***************************************************************************)
(* The ring of the HTTP display (HttpRing), for every number of pages,     *)
(* every size of the ring and every interleaving of the two threads: what  *)
(* a page waits for is in the ring, it is given that and in order, and no  *)
(* page is forgotten.                                                      *)
(***************************************************************************)
EXTENDS HttpRing, ProofLemmas

-----------------------------------------------------------------------------
(* Around the ring. *)

\* The remainder of a number within one turn of the ring.
LEMMA Mod ==
    ASSUME NEW x \in Int, -SIZE <= x, x < 2 * SIZE
    PROVE  x % SIZE = IF x < 0 THEN x + SIZE ELSE IF x < SIZE THEN x ELSE x - SIZE
<1>1. SIZE \in Nat /\ SIZE > 1
  BY HttpRingAssumption DEF HttpRingAssumption
<1>2. CASE x < 0
  BY <1>1, <1>2, SMTT(30)
<1>3. CASE 0 <= x /\ x < SIZE
  BY <1>1, <1>3, SMTT(30)
<1>4. CASE SIZE <= x
  BY <1>1, <1>4, SMTT(30)
<1> QED  BY <1>1, <1>2, <1>3, <1>4

\* What waits at a tail, without remainders.
LEMMA WaitingIs ==
    ASSUME head \in Slots, NEW t \in Slots
    PROVE  Waiting(t) = IF head < t THEN head - t + SIZE ELSE head - t
<1>1. SIZE \in Nat /\ SIZE > 1
  BY HttpRingAssumption DEF HttpRingAssumption
<1> QED  BY <1>1, Mod DEF Waiting, Slots

\* What waits at a tail is less than the ring has slots; it tells where the
\* tail is; the next slot has one less waiting.
LEMMA WaitingOf ==
    ASSUME head \in Slots, NEW t \in Slots
    PROVE  /\ Waiting(t) \in Slots
           /\ (head - Waiting(t)) % SIZE = t
           /\ Waiting(t) = 0 <=> t = head
           /\ Bump(t) \in Slots
           /\ t # head => Waiting(Bump(t)) = Waiting(t) - 1
<1>1. SIZE \in Nat /\ SIZE > 1
  BY HttpRingAssumption DEF HttpRingAssumption
<1>2. Waiting(t) = IF head < t THEN head - t + SIZE ELSE head - t
  BY WaitingIs
<1>3. Waiting(t) \in Slots /\ (Waiting(t) = 0 <=> t = head)
  BY <1>1, <1>2 DEF Slots
<1>4. (head - Waiting(t)) % SIZE = t
  BY <1>1, <1>2, <1>3, Mod DEF Slots
<1>5. Bump(t) = IF t = SIZE - 1 THEN 0 ELSE t + 1
  BY <1>1, Mod DEF Bump, Slots
<1>6. Bump(t) \in Slots
  BY <1>1, <1>5 DEF Slots
<1>7. Waiting(Bump(t)) = IF head < Bump(t) THEN head - Bump(t) + SIZE ELSE head - Bump(t)
  BY <1>6, WaitingIs
<1> QED  BY <1>1, <1>2, <1>3, <1>4, <1>5, <1>6, <1>7 DEF Slots

\* What waits for a tail is never the whole ring.
LEMMA WaitingNat ==
    ASSUME head \in Slots
    PROVE  \A t \in Slots : Waiting(t) \in Nat /\ Waiting(t) <= SIZE - 1
<1>1. SIZE \in Nat /\ SIZE > 1
  BY HttpRingAssumption DEF HttpRingAssumption
<1>2. ASSUME NEW t \in Slots PROVE Waiting(t) \in Nat /\ Waiting(t) <= SIZE - 1
  <2>1. Waiting(t) \in Slots
    BY WaitingOf
  <2> QED  BY <1>1, <2>1 DEF Slots
<1> QED  BY <1>2

\* The slots as seen from the head.
LEMMA Behind ==
    ASSUME head \in Slots, NEW k \in 1 .. SIZE
    PROVE  /\ (head - k) % SIZE \in Slots
           /\ k < SIZE => Waiting((head - k) % SIZE) = k
           /\ (head - k) % SIZE = head <=> k = SIZE
<1>1. SIZE \in Nat /\ SIZE > 1
  BY HttpRingAssumption DEF HttpRingAssumption
<1> DEFINE i == (head - k) % SIZE
<1>2. i = IF head < k THEN head - k + SIZE ELSE head - k
  BY <1>1, Mod DEF Slots
<1>3. i \in Slots
  BY <1>1, <1>2 DEF Slots
<1>4. Waiting(i) = IF head < i THEN head - i + SIZE ELSE head - i
  BY <1>3, WaitingIs
<1> QED  BY <1>1, <1>2, <1>3, <1>4 DEF Slots

\* One message more waits at every tail, when the head moves on without
\* running into it.
LEMMA HeadMoves ==
    ASSUME head \in Slots, NEW t \in Slots, head' = Bump(head), Waiting(t) < SIZE - 1
    PROVE  Waiting(t)' = Waiting(t) + 1
<1>1. SIZE \in Nat /\ SIZE > 1
  BY HttpRingAssumption DEF HttpRingAssumption
<1>2. Waiting(t) = IF head < t THEN head - t + SIZE ELSE head - t
  BY WaitingIs
<1>3. head' = IF head = SIZE - 1 THEN 0 ELSE head + 1
  BY <1>1, Mod DEF Bump, Slots
<1>4. Waiting(t)' = (head' - t) % SIZE
  BY DEF Waiting
<1>5. (head' - t) % SIZE = IF head' < t THEN head' - t + SIZE ELSE head' - t
  BY <1>1, <1>3, Mod DEF Slots
<1> QED  BY <1>1, <1>2, <1>3, <1>4, <1>5 DEF Slots

\* The slots seen from the head, when the head moves on.
LEMMA HeadMovesOver ==
    ASSUME head \in Slots, head' = Bump(head), NEW k \in 1 .. SIZE
    PROVE  (head' - k) % SIZE = IF k = 1 THEN head ELSE (head - (k - 1)) % SIZE
<1>1. SIZE \in Nat /\ SIZE > 1
  BY HttpRingAssumption DEF HttpRingAssumption
<1>2. head' = IF head = SIZE - 1 THEN 0 ELSE head + 1
  BY <1>1, Mod DEF Bump, Slots
<1>3. (head' - k) % SIZE = IF head' < k THEN head' - k + SIZE ELSE head' - k
  BY <1>1, <1>2, Mod DEF Slots
<1>4. (head - (k - 1)) % SIZE = IF head < k - 1 THEN head - (k - 1) + SIZE ELSE head - (k - 1)
  BY <1>1, Mod DEF Slots
<1> QED  BY <1>1, <1>2, <1>3, <1>4 DEF Slots

\* A new oldest tail that is not behind the old one destroys what waited
\* there and does not wait at the new one.
LEMMA DestroyedOf ==
    ASSUME head \in Slots, oldest \in Slots, NEW t \in Slots,
           Waiting(t) <= Waiting(oldest), NEW k \in 1 .. SIZE
    PROVE  Destroyed(t)[(head - k) % SIZE] =
              IF Waiting(t) < k /\ k <= Waiting(oldest) THEN 0 ELSE slot[(head - k) % SIZE]
<1>1. SIZE \in Nat /\ SIZE > 1
  BY HttpRingAssumption DEF HttpRingAssumption
<1> DEFINE i == (head - k) % SIZE
<1>2. i = IF head < k THEN head - k + SIZE ELSE head - k
  BY <1>1, Mod DEF Slots
<1>3. i \in Slots
  BY <1>1, <1>2 DEF Slots
<1>4. (i - oldest) % SIZE = IF i < oldest THEN i - oldest + SIZE ELSE i - oldest
  BY <1>1, <1>3, Mod DEF Slots
<1>5. (t - oldest) % SIZE = IF t < oldest THEN t - oldest + SIZE ELSE t - oldest
  BY <1>1, Mod DEF Slots
<1>6. Waiting(t) = IF head < t THEN head - t + SIZE ELSE head - t
  BY WaitingIs
<1>7. Waiting(oldest) = IF head < oldest THEN head - oldest + SIZE ELSE head - oldest
  BY WaitingIs
<1>8. (i - oldest) % SIZE < (t - oldest) % SIZE <=> Waiting(t) < k /\ k <= Waiting(oldest)
  <2> HIDE DEF i
  <2> QED  BY <1>1, <1>2, <1>3, <1>4, <1>5, <1>6, <1>7 DEF Slots
<1>9. Destroyed(t)[i] = IF (i - oldest) % SIZE < (t - oldest) % SIZE THEN 0 ELSE slot[i]
  <2> HIDE DEF i
  <2> QED  BY <1>3 DEF Destroyed
<1> QED  BY <1>8, <1>9

-----------------------------------------------------------------------------
(* The list of sessions. *)

\* A session put first, where it was not listed.
LEMMA PutFirst ==
    ASSUME list \in Seq(Pages), IsInjective(list), NEW p \in Pages, p \notin Live,
           list' = <<p>> \o list
    PROVE  /\ list' \in Seq(Pages) /\ IsInjective(list') /\ Live' = Live \cup {p}
           /\ Len(list') = Len(list) + 1 /\ list'[1] = p
           /\ \A k \in 1 .. Len(list) : list'[k + 1] = list[k]
<1>1. /\ list' \in Seq(Pages) /\ Len(list') = Len(list) + 1 /\ list'[1] = p
      /\ Len(list) \in Nat /\ DOMAIN list' = 1 .. Len(list')
      /\ \A i \in 1 .. Len(list) : list'[i + 1] = list[i]
  OBVIOUS
<1>2. \A i \in 2 .. Len(list') : i - 1 \in 1 .. Len(list) /\ list'[i] = list[i - 1]
  BY <1>1
<1>3. \A i \in 1 .. Len(list) : list[i] # p
  BY DEF Live, ToSet
<1>4. IsInjective(list')
  <2> SUFFICES ASSUME NEW i \in 1 .. Len(list'), NEW j \in 1 .. Len(list'), list'[i] = list'[j]
               PROVE  i = j
    BY <1>1 DEF IsInjective
  <2>1. CASE i = 1 \/ j = 1
    BY <1>1, <1>2, <1>3, <2>1
  <2>2. CASE i # 1 /\ j # 1
    <3>1. i \in 2 .. Len(list') /\ j \in 2 .. Len(list')
      BY <1>1, <2>2
    <3>2. i - 1 = j - 1
      BY <1>2, <3>1 DEF IsInjective
    <3> QED  BY <1>1, <3>2
  <2> QED  BY <2>1, <2>2
<1>5. Live' = Live \cup {p}
  <2>1. ASSUME NEW q \in Live PROVE q \in Live'
    <3>1. PICK i \in 1 .. Len(list) : q = list[i]
      BY SMTT(30) DEF Live, ToSet
    <3>2. i + 1 \in 1 .. Len(list') /\ list'[i + 1] = q
      BY <1>1, <3>1
    <3> QED  BY <1>1, <3>2 DEF Live, ToSet
  <2>2. p \in Live'
    BY <1>1 DEF Live, ToSet
  <2>3. ASSUME NEW q \in Live' PROVE q \in Live \cup {p}
    <3>1. PICK i \in 1 .. Len(list') : q = list'[i]
      BY <1>1 DEF Live, ToSet
    <3>2. i = 1 \/ i \in 2 .. Len(list')
      BY <1>1
    <3> QED  BY <1>1, <1>2, <3>1, <3>2 DEF Live, ToSet
  <2> QED  BY <2>1, <2>2, <2>3
<1> QED  BY <1>1, <1>4, <1>5

\* A session taken out: no other is.
LEMMA TakenOut ==
    ASSUME list \in Seq(Pages), IsInjective(list), NEW p \in Pages, NEW i \in DOMAIN list,
           list[i] = p, list' = RemoveAt(list, i)
    PROVE  /\ list' \in Seq(Pages) /\ IsInjective(list') /\ Live' = Live \ {p}
           /\ Len(list') = Len(list) - 1
           /\ \A j \in 1 .. Len(list') : list'[j] = IF j < i THEN list[j] ELSE list[j + 1]
<1>1. Len(list) \in Nat /\ DOMAIN list = 1 .. Len(list)
  OBVIOUS
<1> DEFINE a == SubSeq(list, 1, i - 1)
           b == SubSeq(list, i + 1, Len(list))
<1>2. a \in Seq(Pages) /\ Len(a) = i - 1 /\ \A j \in 1 .. (i - 1) : a[j] = list[j]
  BY <1>1
<1>3. b \in Seq(Pages) /\ Len(b) = Len(list) - i
      /\ \A j \in 1 .. (Len(list) - i) : b[j] = list[i + j]
  BY <1>1, SMTT(30)
<1>4. list' = a \o b
  BY DEF RemoveAt
<1> HIDE DEF a, b
<1>5. list' \in Seq(Pages) /\ Len(list') = Len(list) - 1 /\ DOMAIN list' = 1 .. (Len(list) - 1)
  <2>1. a \o b \in Seq(Pages) /\ Len(a \o b) = Len(a) + Len(b)
    BY <1>2, <1>3, Joined
  <2>2. Len(a) + Len(b) = Len(list) - 1
    BY <1>1, <1>2, <1>3
  <2> QED  BY <1>4, <2>1, <2>2
<1>6. \A j \in 1 .. Len(list') : list'[j] = IF j < i THEN list[j] ELSE list[j + 1]
  <2> SUFFICES ASSUME NEW j \in 1 .. Len(list')
               PROVE  list'[j] = IF j < i THEN list[j] ELSE list[j + 1]
    OBVIOUS
  <2>1. CASE j < i
    <3>1. j \in 1 .. (i - 1)
      BY <1>1, <1>5, <2>1
    <3>2. (a \o b)[j] = a[j]
      BY <1>2, <1>3, <3>1, Joined
    <3> QED  BY <1>2, <1>4, <2>1, <3>1, <3>2
  <2>2. CASE i <= j
    <3>1. j - (i - 1) \in 1 .. (Len(list) - i) /\ i + (j - (i - 1)) = j + 1
      BY <1>1, <1>5, <2>2
    <3>2. list'[j] = b[j - (i - 1)]
      <4>1. j \in 1 .. (Len(a) + Len(b)) /\ j > Len(a)
        BY <1>1, <1>2, <1>3, <1>5, <2>2, SMTT(30)
      <4>2. (a \o b)[j] = b[j - Len(a)]
        BY <1>2, <1>3, <4>1, Joined
      <4> QED  BY <1>2, <1>4, <4>2
    <3>3. b[j - (i - 1)] = list[j + 1]
      BY <1>3, <3>1
    <3> QED  BY <1>1, <1>5, <2>2, <3>2, <3>3
  <2> QED  BY <1>1, <1>5, <2>1, <2>2
<1>7. IsInjective(list')
  <2> SUFFICES ASSUME NEW j \in 1 .. Len(list'), NEW k \in 1 .. Len(list'), list'[j] = list'[k]
               PROVE  j = k
    BY <1>5 DEF IsInjective
  <2>1. j \in DOMAIN list /\ k \in DOMAIN list /\ j + 1 \in DOMAIN list /\ k + 1 \in DOMAIN list
    BY <1>1, <1>5
  <2>2. \A m, n \in DOMAIN list : list[m] = list[n] => m = n
    BY DEF IsInjective
  <2> QED  BY <1>1, <1>5, <1>6, <2>1, <2>2
<1>8. Live' = Live \ {p}
  <2>1. ASSUME NEW q \in Live' PROVE q \in Live \ {p}
    <3>1. PICK j \in 1 .. Len(list') : q = list'[j]
      BY <1>5 DEF Live, ToSet
    <3>2. j \in DOMAIN list /\ j + 1 \in DOMAIN list /\ j \in Nat
      BY <1>1, <1>5
    <3>3. PICK m \in DOMAIN list : q = list[m] /\ m # i
      BY <1>1, <1>6, <3>1, <3>2
    <3> QED  BY <3>3 DEF Live, ToSet, IsInjective
  <2>2. ASSUME NEW q \in Live \ {p} PROVE q \in Live'
    <3>1. PICK m \in DOMAIN list : q = list[m] /\ m # i
      BY <2>2 DEF Live, ToSet
    <3>2. CASE m < i
      <4>1. m \in 1 .. Len(list') /\ list'[m] = q
        BY <1>1, <1>5, <1>6, <3>1, <3>2
      <4> QED  BY <1>5, <4>1 DEF Live, ToSet
    <3>3. CASE m > i
      <4>1. m - 1 \in 1 .. Len(list') /\ list'[m - 1] = q
        BY <1>1, <1>5, <1>6, <3>1, <3>3
      <4> QED  BY <1>5, <4>1 DEF Live, ToSet
    <3> QED  BY <1>1, <3>1, <3>2, <3>3
  <2> QED  BY <2>1, <2>2
<1> QED  BY <1>5, <1>6, <1>7, <1>8

-----------------------------------------------------------------------------
(* The invariant, action by action. *)

\* The ring and the sessions that start_http_display leaves.
LEMMA InitRing == Init => RingInv
<1>1. SIZE \in Nat /\ SIZE > 1
  BY HttpRingAssumption DEF HttpRingAssumption
<1> SUFFICES ASSUME Init PROVE RingInv
  OBVIOUS
<1>2. 0 \in Slots
  BY <1>1 DEF Slots
<1>3. Live = {}
  BY DEF Init, Live, ToSet
<1>4. VarsOK
  <2>1. list \in Seq(Pages) /\ todo \in Seq(Pages) /\ IsInjective(list)
    BY DEF Init, IsInjective
  <2>2. best \in [n : Nat, tail : Slots]
    BY <1>2 DEF Init, NothingBest
  <2>3. slot \in [Slots -> Nat] /\ tail \in [Pages -> Slots]
    BY <1>2 DEF Init
  <2>4. joined \in [Pages -> Nat] /\ last \in [Pages -> Nat]
    BY DEF Init
  <2>5. \A p \in Pages : joined[p] <= sent /\ last[p] = 0
    BY DEF Init
  <2> QED  BY <1>2, <2>1, <2>2, <2>3, <2>4, <2>5 DEF Init, VarsOK
<1>5. Waiting(0) = 0
  BY <1>2, WaitingIs DEF Init
<1>6. RingIsTheLastMessages
  <2> SUFFICES ASSUME NEW k \in 1 .. SIZE PROVE slot[(head - k) % SIZE] = 0 /\ ~(k <= Waiting(oldest))
    BY DEF RingIsTheLastMessages
  <2>1. (head - k) % SIZE \in Slots
    BY <1>2, Behind DEF Init
  <2> QED  BY <1>1, <1>5, <2>1 DEF Init
<1>7. NoneBehindOldest /\ TailFollowsLast /\ RecountOK
  BY <1>1, <1>3, <1>5 DEF Init, NoneBehindOldest, TailFollowsLast, RecountOK
<1> QED  BY <1>4, <1>6, <1>7 DEF RingInv

\* What the invariant says of the types.
LEMMA RingTypes ==
    ASSUME RingInv
    PROVE  /\ SIZE \in Nat /\ SIZE > 1
           /\ head \in Slots /\ oldest \in Slots /\ tail \in [Pages -> Slots] /\ sent \in Nat
           /\ slot \in [Slots -> Nat] /\ joined \in [Pages -> Nat] /\ last \in [Pages -> Nat]
           /\ best.n \in Nat /\ best.tail \in Slots /\ raced \in BOOLEAN
           /\ list \in Seq(Pages) /\ IsInjective(list) /\ Live \subseteq Pages
           /\ Len(list) \in Nat
BY HttpRingAssumption DEF HttpRingAssumption, RingInv, VarsOK, Live, ToSet

\* A message inserted.
LEMMA SendRing ==
    ASSUME RingInv, Send PROVE RingInv'
<1>1. SIZE \in Nat /\ SIZE > 1
  BY RingTypes
<1>2. /\ head' = Bump(head) /\ slot' = [slot EXCEPT ![head] = sent + 1] /\ sent' = sent + 1
      /\ raced' = (raced \/ (vpc = "recount" /\ todo \notin {<<>>, list}))
      /\ oldest' = oldest /\ list' = list /\ tail' = tail /\ vpc' = vpc /\ todo' = todo
      /\ best' = best /\ joined' = joined /\ last' = last
  BY DEF Send, sessions, service
<1>3. VarsOK
  BY DEF RingInv
<1>4. head \in Slots /\ oldest \in Slots /\ tail \in [Pages -> Slots] /\ sent \in Nat
      /\ slot \in [Slots -> Nat] /\ joined \in [Pages -> Nat] /\ last \in [Pages -> Nat]
      /\ best.tail \in Slots /\ raced \in BOOLEAN
  BY RingTypes
<1>5. head' \in Slots
  BY <1>2, <1>4, WaitingOf
<1>6. Live' = Live /\ Live \subseteq Pages
  BY <1>2, <1>3 DEF Live, ToSet, VarsOK
<1>7. VarsOK'
  BY <1>2, <1>3, <1>5, <1>6, SMTT(30) DEF VarsOK
<1>8. SUFFICES ASSUME ~raced'
               PROVE  /\ RingIsTheLastMessages'
                      /\ NoneBehindOldest' /\ TailFollowsLast' /\ RecountOK'
  BY <1>7 DEF RingInv
<1>9. ~raced /\ (vpc = "recount" => todo = <<>> \/ todo = list)
  BY <1>2, <1>4, <1>8
<1>10. RingIsTheLastMessages /\ NoneBehindOldest /\ TailFollowsLast /\ RecountOK
  BY <1>9 DEF RingInv
<1>11. \A t \in Slots : Waiting(t) \in Nat
  BY <1>4, WaitingNat
<1>12. Waiting(oldest) < SIZE - 1
  BY <1>1, <1>4, <1>11 DEF Send, Free
<1>13. ASSUME NEW t \in Slots, Waiting(t) <= Waiting(oldest)
       PROVE  (head' - t) % SIZE = Waiting(t) + 1
  <2>1. Waiting(t) < SIZE - 1
    BY <1>1, <1>4, <1>11, <1>12, <1>13
  <2>2. Waiting(t)' = Waiting(t) + 1
    BY <1>2, <1>4, <2>1, HeadMoves
  <2> QED  BY <2>2 DEF Waiting
<1>14. Waiting(oldest)' = Waiting(oldest) + 1
  <2>1. Waiting(oldest)' = (head' - oldest) % SIZE
    BY <1>2 DEF Waiting
  <2>2. Waiting(oldest) <= Waiting(oldest)
    BY <1>4, <1>11
  <2> QED  BY <1>4, <1>13, <2>1, <2>2
<1>15. RingIsTheLastMessages'
  <2>1. ASSUME NEW k \in 1 .. SIZE
        PROVE  slot'[(head' - k) % SIZE] =
                  IF k <= Waiting(oldest) + 1 THEN sent' + 1 - k ELSE 0
    <3>1. (head' - k) % SIZE = IF k = 1 THEN head ELSE (head - (k - 1)) % SIZE
      BY <1>2, <1>4, HeadMovesOver
    <3>2. CASE k = 1
      <4>1. slot'[head] = sent + 1 /\ 1 <= Waiting(oldest) + 1
        BY <1>2, <1>4, <1>11
      <4> QED  BY <1>2, <1>4, <3>1, <3>2, <4>1
    <3>3. CASE k # 1
      <4>1. k - 1 \in 1 .. SIZE /\ k - 1 # SIZE
        BY <1>1, <3>3
      <4>2. /\ (head - (k - 1)) % SIZE \in Slots
            /\ (head - (k - 1)) % SIZE # head
        BY <1>1, <1>4, <4>1, Behind
      <4>3. slot[(head - (k - 1)) % SIZE] =
               IF k - 1 <= Waiting(oldest) THEN sent + 1 - (k - 1) ELSE 0
        BY <1>9, <1>10, <4>1 DEF RingIsTheLastMessages
      <4>4. slot'[(head' - k) % SIZE] = slot[(head - (k - 1)) % SIZE]
        BY <1>2, <1>4, <3>1, <3>3, <4>2
      <4>5. /\ k - 1 <= Waiting(oldest) <=> k <= Waiting(oldest) + 1
            /\ sent + 1 - (k - 1) = sent' + 1 - k
        BY <1>1, <1>2, <1>4, <1>11
      <4> QED  BY <4>3, <4>4, <4>5
    <3> QED  BY <3>2, <3>3
  <2>2. ~raced /\ SIZE' = SIZE
    BY <1>9
  <2> QED  BY <1>14, <2>1 DEF RingIsTheLastMessages
<1>16. \A p \in Live : tail[p] \in Slots /\ Waiting(tail[p]) <= Waiting(oldest)
  BY <1>4, <1>6, <1>10 DEF NoneBehindOldest
<1>17. \A p \in Live : Waiting(tail[p])' = Waiting(tail[p]) + 1
  <2>1. \A p \in Live : Waiting(tail[p])' = (head' - tail[p]) % SIZE
    BY <1>2 DEF Waiting
  <2> QED  BY <1>13, <1>16, <2>1
<1>18. NoneBehindOldest'
  BY <1>2, <1>4, <1>6, <1>10, <1>11, <1>14, <1>16, <1>17 DEF NoneBehindOldest
<1>19. TailFollowsLast'
  <2>1. ASSUME NEW p \in Live
        PROVE  IF last'[p] = 0 THEN sent' - Waiting(tail[p])' <= joined'[p]
                               ELSE sent' - Waiting(tail[p])' = last'[p]
    <3>1. Waiting(tail[p])' = Waiting(tail[p]) + 1 /\ Waiting(tail[p]) \in Nat
      BY <1>11, <1>16, <1>17
    <3>2. sent' - Waiting(tail[p])' = sent - Waiting(tail[p])
      BY <1>2, <1>4, <3>1
    <3> QED  BY <1>2, <1>10, <3>2 DEF TailFollowsLast
  <2> QED  BY <1>6, <2>1 DEF TailFollowsLast
<1>20. RecountOK'
  <2> SUFFICES ASSUME vpc = "recount" PROVE RecountOK'
    BY <1>2 DEF RecountOK
  <2>1. /\ Live # {} /\ ToSet(todo) \subseteq Live /\ Len(todo) <= Len(list)
        /\ Waiting(best.tail) <= Waiting(oldest)
        /\ \A p \in Live \ ToSet(todo) : Waiting(tail[p]) <= Waiting(best.tail)
        /\ todo = list => best.n = 0
    BY <1>10 DEF RecountOK
  <2>2. Waiting(best.tail)' = Waiting(best.tail) + 1
    <3>1. Waiting(best.tail)' = (head' - best.tail) % SIZE
      BY <1>2 DEF Waiting
    <3> QED  BY <1>4, <1>13, <2>1, <3>1
  <2>3. Waiting(best.tail)' <= Waiting(oldest)'
    BY <1>4, <1>11, <1>14, <2>1, <2>2
  <2>4. ASSUME NEW p \in Live \ ToSet(todo) PROVE Waiting(tail[p])' <= Waiting(best.tail)'
    BY <1>4, <1>11, <1>16, <1>17, <2>1, <2>2, SMTT(30)
  <2>5. ToSet(todo)' = ToSet(todo)
    BY <1>2
  <2> QED  BY <1>2, <1>6, <1>9, <2>1, <2>3, <2>4, <2>5 DEF RecountOK
<1> QED  BY <1>15, <1>18, <1>19, <1>20

\* Steps that leave all of it alone.
LEMMA FrameRing ==
    ASSUME RingInv, UNCHANGED <<ring, list, tail, todo, best, history, raced>>,
           vpc' = "recount" => vpc = "recount"
    PROVE  RingInv'
<1>1. /\ slot' = slot /\ head' = head /\ oldest' = oldest /\ list' = list /\ tail' = tail
      /\ todo' = todo /\ best' = best /\ sent' = sent /\ joined' = joined /\ last' = last
      /\ raced' = raced
  BY DEF ring, history
<1>2. Live' = Live
  BY <1>1 DEF Live
<1>3. VarsOK'
  BY <1>1, <1>2 DEF RingInv, VarsOK
<1>4. ASSUME ~raced
      PROVE  RingIsTheLastMessages' /\ NoneBehindOldest' /\ TailFollowsLast' /\ RecountOK'
  <2>1. RingIsTheLastMessages /\ NoneBehindOldest /\ TailFollowsLast /\ RecountOK
    BY <1>4 DEF RingInv
  <2>2. RingIsTheLastMessages'
    BY <1>1, <2>1 DEF RingIsTheLastMessages, Waiting
  <2>3. NoneBehindOldest' /\ TailFollowsLast'
    BY <1>1, <1>2, <2>1 DEF NoneBehindOldest, TailFollowsLast, Waiting
  <2>4. RecountOK'
    BY <1>1, <1>2, <2>1 DEF RecountOK, Waiting
  <2> QED  BY <2>2, <2>3, <2>4
<1> QED  BY <1>1, <1>3, <1>4 DEF RingInv

\* A page that connects starts where the oldest of the others is, or was.
LEMMA LinkedRing ==
    ASSUME RingInv, NEW p \in Pages, Linked(p) PROVE RingInv'
<1>1. /\ slot' = slot /\ head' = head /\ oldest' = oldest /\ list' = <<p>> \o list
      /\ tail' = [tail EXCEPT ![p] = oldest] /\ joined' = [joined EXCEPT ![p] = sent]
      /\ todo' = todo /\ best' = best /\ sent' = sent /\ last' = last /\ raced' = raced
      /\ vpc = "idle" /\ vpc' = "join" /\ p \notin Live
  BY DEF Linked, ring, windows
<1>2. list' \in Seq(Pages) /\ IsInjective(list') /\ Live' = Live \cup {p}
  BY <1>1, RingTypes, PutFirst
<1>3. VarsOK
  BY DEF RingInv
<1>4. VarsOK'
  <2>1. tail' \in [Pages -> Slots] /\ joined' \in [Pages -> Nat]
    BY <1>1, RingTypes
  <2>2. \A q \in Pages : joined'[q] <= sent' /\ (q \notin Live' => last'[q] = 0)
    BY <1>1, <1>2, <1>3, RingTypes DEF VarsOK
  <2> QED  BY <1>1, <1>2, <1>3, <2>1, <2>2 DEF VarsOK
<1>5. ASSUME ~raced
      PROVE  RingIsTheLastMessages' /\ NoneBehindOldest' /\ TailFollowsLast' /\ RecountOK'
  <2>1. RingIsTheLastMessages /\ NoneBehindOldest /\ TailFollowsLast
    BY <1>5 DEF RingInv
  <2>2. RingIsTheLastMessages'
    BY <1>1, <2>1 DEF RingIsTheLastMessages, Waiting
  <2>3. \A t : Waiting(t) = (head - t) % SIZE
    BY DEF Waiting
  <2>4. Waiting(oldest)' = Waiting(oldest) /\ Waiting(tail[p])' = Waiting(oldest)
    BY <1>1, RingTypes DEF Waiting
  <2>5. Waiting(oldest) \in Nat
    BY RingTypes, WaitingNat
  <2>6. \A q \in Live : q # p /\ Waiting(tail[q])' = Waiting(tail[q]) /\ joined'[q] = joined[q]
    BY <1>1, RingTypes DEF Waiting
  <2>7. NoneBehindOldest'
    BY <1>1, <1>2, <2>1, <2>4, <2>5, <2>6 DEF NoneBehindOldest
  <2>8. last[p] = 0 /\ joined'[p] = sent /\ sent - Waiting(tail[p])' <= sent
    BY <1>1, <1>3, <2>4, <2>5, RingTypes DEF VarsOK
  <2>9. TailFollowsLast'
    BY <1>1, <1>2, <2>1, <2>6, <2>8 DEF TailFollowsLast
  <2> QED  BY <1>1, <2>2, <2>7, <2>9 DEF RecountOK
<1> QED  BY <1>1, <1>4, <1>5 DEF RingInv

\* A page that leaves takes nothing with it.
LEMMA ClosedRing ==
    ASSUME RingInv, NEW p \in Pages, Closed(p) PROVE RingInv'
<1>1. /\ slot' = slot /\ head' = head /\ oldest' = oldest
      /\ tail' = [tail EXCEPT ![p] = 0] /\ joined' = [joined EXCEPT ![p] = 0]
      /\ last' = [last EXCEPT ![p] = 0]
      /\ todo' = todo /\ best' = best /\ sent' = sent /\ raced' = raced
      /\ vpc = "idle" /\ vpc' = "idle"
  BY DEF Closed, Unlink, ring, service
<1>2. list' \in Seq(Pages) /\ IsInjective(list') /\ Live' = Live \ {p}
  <2>1. PICK i \in DOMAIN list : list[i] = p /\ list' = RemoveAt(list, i)
    BY DEF Closed, Unlink
  <2> QED  BY <2>1, RingTypes, TakenOut
<1>3. VarsOK
  BY DEF RingInv
<1>4. VarsOK'
  <2>1. tail' \in [Pages -> Slots] /\ joined' \in [Pages -> Nat] /\ last' \in [Pages -> Nat]
    BY <1>1, RingTypes, SMTT(30) DEF Slots
  <2>2. \A q \in Pages : joined'[q] <= sent' /\ (q \notin Live' => last'[q] = 0)
    BY <1>1, <1>2, <1>3, RingTypes DEF VarsOK
  <2> QED  BY <1>1, <1>2, <1>3, <2>1, <2>2 DEF VarsOK
<1>5. ASSUME ~raced
      PROVE  RingIsTheLastMessages' /\ NoneBehindOldest' /\ TailFollowsLast' /\ RecountOK'
  <2>1. RingIsTheLastMessages /\ NoneBehindOldest /\ TailFollowsLast
    BY <1>5 DEF RingInv
  <2>2. RingIsTheLastMessages'
    BY <1>1, <2>1 DEF RingIsTheLastMessages, Waiting
  <2>3. Waiting(oldest)' = Waiting(oldest)
    BY <1>1 DEF Waiting
  <2>4. \A q \in Live' : /\ q \in Live /\ Waiting(tail[q])' = Waiting(tail[q])
                         /\ joined'[q] = joined[q] /\ last'[q] = last[q]
    BY <1>1, <1>2, RingTypes DEF Waiting
  <2>5. NoneBehindOldest' /\ TailFollowsLast'
    BY <1>1, <2>1, <2>3, <2>4 DEF NoneBehindOldest, TailFollowsLast
  <2> QED  BY <1>1, <2>2, <2>5 DEF RecountOK
<1> QED  BY <1>1, <1>4, <1>5 DEF RingInv

\* What a page is given, and what then waits for it.
LEMMA Given ==
    ASSUME RingInv, ~raced, NEW p \in Pages, Writeable(p)
    PROVE  LET k == Waiting(tail[p])
           IN /\ k \in 1 .. sent /\ slot[tail[p]] = sent + 1 - k
              /\ Waiting(tail[p])' = k - 1
              /\ last[p] = 0 => sent + 1 - k <= joined[p] + 1
              /\ last[p] # 0 => sent + 1 - k = last[p] + 1
<1> DEFINE k == Waiting(tail[p])
<1>1. p \in Live /\ tail[p] # head /\ tail' = [tail EXCEPT ![p] = Bump(@)] /\ head' = head
  BY DEF Writeable, ring, windows
<1>2. RingIsTheLastMessages /\ NoneBehindOldest /\ TailFollowsLast
  BY DEF RingInv
<1>3. tail[p] \in Slots
  BY RingTypes
<1>4. k \in Nat /\ k <= SIZE - 1 /\ k # 0 /\ (head - k) % SIZE = tail[p]
  BY <1>1, <1>3, RingTypes, WaitingOf, WaitingNat
<1>5. k <= Waiting(oldest) /\ Waiting(oldest) <= sent /\ Waiting(oldest) \in Nat
  BY <1>1, <1>2, RingTypes, WaitingNat DEF NoneBehindOldest
<1>6. k \in 1 .. sent /\ k \in 1 .. SIZE
  BY <1>4, <1>5, RingTypes
<1>7. slot[tail[p]] = sent + 1 - k
  <2>1. slot[(head - k) % SIZE] = IF k <= Waiting(oldest) THEN sent + 1 - k ELSE 0
    <3> HIDE DEF k
    <3> QED  BY <1>2, <1>6 DEF RingIsTheLastMessages
  <2> QED  BY <1>4, <1>5, <2>1
<1>8. Waiting(tail[p])' = k - 1
  <2>1. Waiting(tail[p])' = Waiting(Bump(tail[p]))
    BY <1>1, RingTypes DEF Waiting
  <2> QED  BY <1>1, <1>3, <2>1, RingTypes, WaitingOf
<1>9. IF last[p] = 0 THEN sent - k <= joined[p] ELSE sent - k = last[p]
  BY <1>1, <1>2 DEF TailFollowsLast
<1>10. joined[p] \in Nat /\ last[p] \in Nat /\ sent \in Nat
  BY RingTypes
<1> HIDE DEF k
<1>11. /\ last[p] = 0 => sent + 1 - k <= joined[p] + 1
       /\ last[p] # 0 => sent + 1 - k = last[p] + 1
  BY <1>6, <1>9, <1>10
<1> QED  BY <1>6, <1>7, <1>8, <1>11 DEF k

\* A page that was given a message; a recount may begin.
LEMMA WriteableRing ==
    ASSUME RingInv, NEW p \in Pages, Writeable(p) PROVE RingInv'
<1>1. /\ slot' = slot /\ head' = head /\ oldest' = oldest /\ list' = list
      /\ last' = [last EXCEPT ![p] = slot[tail[p]]] /\ tail' = [tail EXCEPT ![p] = Bump(@)]
      /\ sent' = sent /\ joined' = joined /\ raced' = raced
      /\ vpc = "idle" /\ p \in Live /\ tail[p] # head
      /\ \/ vpc' = "recount" /\ todo' = list /\ best' = [n |-> 0, tail |-> Bump(tail[p])]
         \/ vpc' = "again" /\ todo' = todo /\ best' = best
  BY DEF Writeable, ring, windows
<1>2. Live' = Live
  BY <1>1 DEF Live
<1>3. VarsOK
  BY DEF RingInv
<1>4. tail[p] \in Slots /\ Bump(tail[p]) \in Slots
  BY RingTypes, WaitingOf
<1>5. VarsOK'
  <2>1. tail' \in [Pages -> Slots] /\ last' \in [Pages -> Nat]
    BY <1>1, <1>4, RingTypes
  <2>2. \A q \in Pages : joined'[q] <= sent' /\ (q \notin Live' => last'[q] = 0)
    BY <1>1, <1>2, <1>3, RingTypes DEF VarsOK
  <2>3. todo' \in Seq(Pages) /\ best' \in [n : Nat, tail : Slots]
    BY <1>1, <1>3, <1>4, RingTypes DEF VarsOK
  <2> QED  BY <1>1, <1>2, <1>3, <2>1, <2>2, <2>3 DEF VarsOK
<1>6. ASSUME ~raced
      PROVE  RingIsTheLastMessages' /\ NoneBehindOldest' /\ TailFollowsLast' /\ RecountOK'
  <2>1. RingIsTheLastMessages /\ NoneBehindOldest /\ TailFollowsLast
    BY <1>6 DEF RingInv
  <2>2. RingIsTheLastMessages'
    BY <1>1, <2>1 DEF RingIsTheLastMessages, Waiting
  <2>3. Waiting(oldest)' = Waiting(oldest)
    BY <1>1 DEF Waiting
  <2>4. \A q \in Live : q # p => /\ Waiting(tail[q])' = Waiting(tail[q]) /\ last'[q] = last[q]
    BY <1>1, RingTypes DEF Waiting
  <2> DEFINE k == Waiting(tail[p])
  <2>5. /\ k \in 1 .. sent /\ Waiting(tail[p])' = k - 1 /\ last'[p] = sent + 1 - k
    BY <1>1, <1>6, RingTypes, Given
  <2>6. k <= Waiting(oldest) /\ Waiting(oldest) \in Nat /\ sent \in Nat
    BY <1>1, <2>1, RingTypes, WaitingNat DEF NoneBehindOldest
  <2> HIDE DEF k
  <2>7. Waiting(tail[p])' <= Waiting(oldest) /\ last'[p] # 0 /\ sent - Waiting(tail[p])' = last'[p]
    BY <2>5, <2>6
  <2>8. NoneBehindOldest'
    BY <1>1, <1>2, <2>1, <2>3, <2>4, <2>7 DEF NoneBehindOldest
  <2>9. TailFollowsLast'
    BY <1>1, <1>2, <2>1, <2>4, <2>7 DEF TailFollowsLast
  <2>10. RecountOK'
    <3> SUFFICES ASSUME vpc' = "recount" PROVE RecountOK'
      BY DEF RecountOK
    <3>1. todo' = list /\ best'.n = 0 /\ best'.tail = Bump(tail[p]) /\ tail'[p] = Bump(tail[p])
      BY <1>1, RingTypes
    <3>2. Waiting(best.tail)' = Waiting(tail[p])'
      BY <3>1 DEF Waiting
    <3>3. ToSet(todo)' = Live
      BY <3>1 DEF Live
    <3>4. Waiting(best.tail)' <= Waiting(oldest)'
      BY <2>3, <2>7, <3>2
    <3>5. Len(todo') <= Len(list')
      BY <1>1, <3>1, RingTypes
    <3> QED  BY <1>1, <1>2, <3>1, <3>3, <3>4, <3>5 DEF RecountOK
  <2> QED  BY <2>2, <2>8, <2>9, <2>10
<1> QED  BY <1>1, <1>5, <1>6 DEF RingInv

\* One session counted.
LEMMA RecountRing ==
    ASSUME RingInv, Recount PROVE RingInv'
<1> DEFINE h == Head(todo)
           t == tail[h]
<1>1. /\ slot' = slot /\ head' = head /\ oldest' = oldest /\ list' = list /\ tail' = tail
      /\ last' = last /\ sent' = sent /\ joined' = joined /\ raced' = raced
      /\ vpc = "recount" /\ vpc' = "recount" /\ todo # <<>> /\ todo' = Tail(todo)
      /\ best' = IF Waiting(t) >= best.n THEN [n |-> Waiting(t), tail |-> t] ELSE best
  BY DEF Recount, ring, sessions, history, windows
<1>2. VarsOK
  BY DEF RingInv
<1>3. todo \in Seq(Pages) /\ Len(todo) \in Nat \ {0} /\ h = todo[1] /\ h \in Pages
  BY <1>1, <1>2 DEF VarsOK
<1>4. /\ todo' \in Seq(Pages) /\ Len(todo') = Len(todo) - 1
      /\ \A i \in 1 .. Len(todo') : todo'[i] = todo[i + 1]
  BY <1>1, <1>3
<1>5. t \in Slots /\ Waiting(t) \in Nat
  BY <1>3, RingTypes, WaitingNat
<1> HIDE DEF h, t
<1>6. Live' = Live
  BY <1>1 DEF Live
<1>7. VarsOK'
  <2>1. best' \in [n : Nat, tail : Slots]
    BY <1>1, <1>2, <1>5 DEF VarsOK
  <2> QED  BY <1>1, <1>2, <1>4, <1>6, <2>1 DEF VarsOK
<1>8. ASSUME ~raced
      PROVE  RingIsTheLastMessages' /\ NoneBehindOldest' /\ TailFollowsLast' /\ RecountOK'
  <2>1. RingIsTheLastMessages /\ NoneBehindOldest /\ TailFollowsLast /\ RecountOK
    BY <1>8 DEF RingInv
  <2>2. RingIsTheLastMessages'
    BY <1>1, <2>1 DEF RingIsTheLastMessages, Waiting
  <2>3. NoneBehindOldest' /\ TailFollowsLast'
    BY <1>1, <1>6, <2>1 DEF NoneBehindOldest, TailFollowsLast, Waiting
  <2>4. RecountOK'
    <3>1. /\ Live # {} /\ ToSet(todo) \subseteq Live /\ Len(todo) <= Len(list)
          /\ Waiting(best.tail) <= Waiting(oldest)
          /\ \A p \in Live \ ToSet(todo) : Waiting(tail[p]) <= Waiting(best.tail)
          /\ todo = list => best.n = 0
          /\ todo # list => best.n = Waiting(best.tail)
      BY <1>1, <2>1 DEF RecountOK
    <3>2. ToSet(todo') \subseteq ToSet(todo) /\ ToSet(todo) \subseteq ToSet(todo') \cup {h}
      <4>1. DOMAIN todo' = 1 .. Len(todo') /\ DOMAIN todo = 1 .. Len(todo)
        BY <1>3, <1>4
      <4>2. ASSUME NEW q \in ToSet(todo') PROVE q \in ToSet(todo)
        <5>1. PICK i \in 1 .. Len(todo') : q = todo'[i]
          BY <4>1 DEF ToSet
        <5>2. i + 1 \in 1 .. Len(todo) /\ q = todo[i + 1]
          BY <1>3, <1>4, <5>1
        <5> QED  BY <4>1, <5>2 DEF ToSet
      <4>3. ASSUME NEW q \in ToSet(todo) PROVE q \in ToSet(todo') \cup {h}
        <5>1. PICK i \in 1 .. Len(todo) : q = todo[i]
          BY <4>1 DEF ToSet
        <5>2. CASE i = 1
          BY <1>3, <5>1, <5>2
        <5>3. CASE i # 1
          <6>1. i - 1 \in 1 .. Len(todo') /\ todo'[i - 1] = q
            BY <1>3, <1>4, <5>1, <5>3
          <6> QED  BY <4>1, <6>1 DEF ToSet
        <5> QED  BY <5>2, <5>3
      <4> QED  BY <4>2, <4>3
    <3>3. h \in Live /\ Waiting(t) <= Waiting(oldest)
      <4>1. h \in ToSet(todo)
        BY <1>3 DEF ToSet
      <4> QED  BY <2>1, <3>1, <4>1 DEF NoneBehindOldest, t
    <3>4. todo' # list /\ Len(todo') <= Len(list)
      <4>1. Len(todo') < Len(list)
        BY <1>3, <1>4, <3>1, RingTypes
      <4>2. ASSUME todo' = list PROVE FALSE
        BY <4>1, <4>2, RingTypes
      <4> QED  BY <1>3, <1>4, <4>1, <4>2, RingTypes
    <3>5. \A q \in Live \ ToSet(todo') : q = h \/ q \in Live \ ToSet(todo)
      BY <3>2
    <3>6. /\ Waiting(best.tail) \in Nat /\ best.n \in Nat
          /\ \A q \in Live : Waiting(tail[q]) \in Nat
      BY RingTypes, WaitingNat
    <3>7. \A s : Waiting(s) = (head - s) % SIZE
      BY DEF Waiting
    <3>8. Waiting(best.tail)' = Waiting(best'.tail) /\ Waiting(oldest)' = Waiting(oldest)
          /\ \A q \in Live : Waiting(tail[q])' = Waiting(tail[q])
      BY <1>1 DEF Waiting
    <3>9. CASE Waiting(t) >= best.n
      <4>1. best'.n = Waiting(t) /\ best'.tail = t
        BY <1>1, <3>9
      <4>2. ASSUME NEW q \in Live \ ToSet(todo') PROVE Waiting(tail[q]) <= Waiting(t)
        <5>1. CASE q = h
          BY <1>5, <5>1 DEF t
        <5>2. CASE q \in Live \ ToSet(todo)
          <6>1. todo # list
            BY <5>2 DEF Live
          <6> QED  BY <1>5, <3>1, <3>6, <3>9, <5>2, <6>1
        <5> QED  BY <3>5, <5>1, <5>2
      <4> QED  BY <1>1, <1>6, <3>1, <3>2, <3>3, <3>4, <3>8, <4>1, <4>2 DEF RecountOK
    <3>10. CASE ~(Waiting(t) >= best.n)
      <4>1. best' = best /\ todo # list /\ best.n = Waiting(best.tail)
        BY <1>1, <1>5, <3>1, <3>10
      <4>2. ASSUME NEW q \in Live \ ToSet(todo') PROVE Waiting(tail[q]) <= Waiting(best.tail)
        <5>1. CASE q = h
          BY <1>5, <3>6, <3>10, <4>1, <5>1 DEF t
        <5> QED  BY <3>1, <3>5, <5>1
      <4> QED  BY <1>1, <1>6, <3>1, <3>2, <3>4, <3>8, <4>1, <4>2 DEF RecountOK
    <3> QED  BY <3>9, <3>10
  <2> QED  BY <2>2, <2>3, <2>4
<1> QED  BY <1>1, <1>7, <1>8 DEF RingInv

\* The end of a recount: what is destroyed, everybody has read.
LEMMA UpdateOldestRing ==
    ASSUME RingInv, UpdateOldest PROVE RingInv'
<1>1. /\ slot' = Destroyed(best.tail) /\ head' = head /\ oldest' = best.tail /\ list' = list
      /\ tail' = tail /\ last' = last /\ sent' = sent /\ joined' = joined /\ raced' = raced
      /\ vpc = "recount" /\ vpc' = "again" /\ todo = <<>> /\ todo' = todo /\ best' = NothingBest
  BY DEF UpdateOldest, sessions, history, windows
<1>2. VarsOK
  BY DEF RingInv
<1>3. Live' = Live
  BY <1>1 DEF Live
<1>4. VarsOK'
  <2>1. best' \in [n : Nat, tail : Slots] /\ slot' \in [Slots -> Nat]
    BY <1>1, RingTypes, SMTT(30) DEF NothingBest, Slots, Destroyed
  <2> QED  BY <1>1, <1>2, <1>3, <2>1, RingTypes DEF VarsOK
<1>5. ASSUME ~raced
      PROVE  RingIsTheLastMessages' /\ NoneBehindOldest' /\ TailFollowsLast' /\ RecountOK'
  <2>1. RingIsTheLastMessages /\ NoneBehindOldest /\ TailFollowsLast /\ RecountOK
    BY <1>5 DEF RingInv
  <2>2. ToSet(todo) = {}
    BY <1>1 DEF ToSet
  <2>3. /\ Waiting(best.tail) <= Waiting(oldest)
        /\ \A p \in Live : Waiting(tail[p]) <= Waiting(best.tail)
    BY <1>1, <2>1, <2>2 DEF RecountOK
  <2>4. Waiting(best.tail) \in Nat /\ Waiting(oldest) \in Nat
    BY RingTypes, WaitingNat
  <2>5. Waiting(oldest)' = Waiting(best.tail) /\ \A p \in Live : Waiting(tail[p])' = Waiting(tail[p])
    BY <1>1 DEF Waiting
  <2>6. RingIsTheLastMessages'
    <3>1. ASSUME NEW k \in 1 .. SIZE
          PROVE  slot'[(head - k) % SIZE] = IF k <= Waiting(best.tail) THEN sent + 1 - k ELSE 0
      <4>1. slot[(head - k) % SIZE] = IF k <= Waiting(oldest) THEN sent + 1 - k ELSE 0
        BY <1>5, <2>1 DEF RingIsTheLastMessages
      <4>2. slot'[(head - k) % SIZE] = IF Waiting(best.tail) < k /\ k <= Waiting(oldest)
                                       THEN 0 ELSE slot[(head - k) % SIZE]
        BY <1>1, <2>3, RingTypes, DestroyedOf
      <4>3. /\ k <= Waiting(best.tail) => k <= Waiting(oldest) /\ ~(Waiting(best.tail) < k)
            /\ ~(k <= Waiting(best.tail)) => Waiting(best.tail) < k
        BY <2>3, <2>4, RingTypes
      <4> QED  BY <4>1, <4>2, <4>3
    <3> QED  BY <1>1, <2>5, <3>1 DEF RingIsTheLastMessages
  <2>7. NoneBehindOldest'
    BY <1>1, <1>3, <2>1, <2>3, <2>4, <2>5, RingTypes DEF NoneBehindOldest
  <2>8. TailFollowsLast'
    BY <1>1, <1>3, <2>1, <2>5 DEF TailFollowsLast
  <2> QED  BY <1>1, <2>6, <2>7, <2>8 DEF RecountOK
<1> QED  BY <1>1, <1>4, <1>5 DEF RingInv

\* Every step keeps the invariant.
LEMMA NextRing ==
    ASSUME RingInv, [Next]_vars PROVE RingInv'
<1>1. CASE SendWithoutRing
  BY <1>1, FrameRing DEF SendWithoutRing, Crash, sessions, windows
<1>2. CASE SendFull \/ UNCHANGED vars
  BY <1>2, FrameRing DEF SendFull, vars, sessions, service, windows
<1>3. CASE Send
  BY <1>3, SendRing
<1>4. CASE CaptureStep
  <2>1. CASE WalkTest \/ WalkRequest \/ WalkAdvance
    BY <2>1, FrameRing DEF WalkTest, WalkRequest, WalkAdvance, sessions, service, windows
  <2>2. CASE WalkCrash
    BY <2>2, FrameRing DEF WalkCrash, Crash, sessions, windows
  <2> QED  BY <1>4, <2>1, <2>2 DEF CaptureStep
<1>6. CASE ProtocolInit \/ Established \/ Again
  BY <1>6, FrameRing DEF ProtocolInit, Established, Again, sessions, windows
<1>7. CASE Recount
  BY <1>7, RecountRing
<1>8. CASE UpdateOldest
  BY <1>8, UpdateOldestRing
<1>9. ASSUME NEW p \in Pages, Linked(p) PROVE RingInv'
  BY <1>9, LinkedRing
<1>10. ASSUME NEW p \in Pages, Closed(p) PROVE RingInv'
  BY <1>10, ClosedRing
<1>11. ASSUME NEW p \in Pages, WriteableNothing(p) PROVE RingInv'
  BY <1>11, FrameRing DEF WriteableNothing, sessions, service, windows
<1>12. ASSUME NEW p \in Pages, Writeable(p) PROVE RingInv'
  BY <1>12, WriteableRing
<1>13. CASE Stopped
  BY <1>13, FrameRing DEF Stopped, sessions, windows
<1> QED  BY <1>1, <1>2, <1>3, <1>4, <1>6, <1>7, <1>8, <1>9, <1>10, <1>11, <1>12, <1>13
         DEF Next, ServiceStep

\* What waits for the pages is where the ring says, in every reachable state
\* before a message came in amid a recount.
THEOREM RingInvariance == Spec => []RingInv
<1>1. Init => RingInv
  BY InitRing
<1>2. RingInv /\ [Next]_vars => RingInv'
  BY NextRing
<1> QED  BY <1>1, <1>2, PTL DEF Spec

\* The ring is what was sent last, and nothing else
\* (lws_ring_insert against destroy_message).
THEOREM RingKeepsTheLast == Spec => []RingIsTheLastMessages
<1>1. RingInv => RingIsTheLastMessages
  BY DEF RingInv, RingIsTheLastMessages
<1> QED  BY <1>1, RingInvariance, PTL

\* Nothing is destroyed that an open page has still to read, unless a message
\* came in amid a recount (lws_ring_consume_and_update_oldest_tail).
THEOREM UnreadStays == Spec => []UnreadIntactUnlessRaced
<1>1. ASSUME RingInv PROVE UnreadIntactUnlessRaced
  <2> SUFFICES ASSUME ~raced, NEW p \in Live, NEW k \in 1 .. Waiting(tail[p])
               PROVE  slot[(head - k) % SIZE] = sent + 1 - k
    BY DEF UnreadIntactUnlessRaced, UnreadIntact
  <2>1. RingIsTheLastMessages /\ NoneBehindOldest
    BY <1>1 DEF RingInv
  <2>2. tail[p] \in Slots /\ oldest \in Slots
    BY <1>1, RingTypes
  <2>3. Waiting(tail[p]) \in Nat /\ Waiting(tail[p]) <= SIZE - 1 /\ Waiting(oldest) \in Nat
    BY <1>1, <2>2, RingTypes, WaitingNat
  <2>4. Waiting(tail[p]) <= Waiting(oldest)
    BY <2>1 DEF NoneBehindOldest
  <2>5. k \in 1 .. SIZE /\ k <= Waiting(oldest)
    BY <1>1, <2>3, <2>4, RingTypes
  <2> QED  BY <2>1, <2>5 DEF RingIsTheLastMessages
<1> QED  BY <1>1, RingInvariance, PTL

-----------------------------------------------------------------------------
(* Pages are given what Broadcast says. *)

\* Each step is one of Broadcast, or changes nothing it speaks of.
LEMMA RingStepBroadcasts ==
    ASSUME RingInv, [Next]_vars PROVE [Promise!Next]_Promise!vars
<1> USE DEF Promise!Next, Promise!vars
<1>0. raced \in BOOLEAN
  BY RingTypes
<1>1. CASE SendWithoutRing
  BY <1>1 DEF SendWithoutRing, history, windows
<1>2. CASE SendFull \/ UNCHANGED vars
  BY <1>2 DEF SendFull, vars, history, windows
<1>3. CASE Send
  <2>1. CASE raced'
    BY <2>1
  <2>2. CASE ~raced'
    BY <1>0, <1>3, <2>2 DEF Send, Promise!Send
  <2> QED  BY <2>1, <2>2
<1>4. CASE CaptureStep
  BY <1>4 DEF CaptureStep, WalkTest, WalkRequest, WalkAdvance, WalkCrash, history, windows
<1>6. CASE ServiceStep
  BY <1>6 DEF ServiceStep, ProtocolInit, Established, Again, Recount, UpdateOldest, history, windows
<1>7. ASSUME NEW p \in Pages, Linked(p) PROVE Promise!Connect(p)
  <2>1. last[p] = 0
    BY <1>7 DEF Linked, RingInv, VarsOK
  <2> QED  BY <1>7, <2>1 DEF Linked, windows, Promise!Connect
<1>8. ASSUME NEW p \in Pages, Closed(p) PROVE Promise!Leave(p)
  BY <1>8 DEF Closed, Unlink, Promise!Leave
<1>9. ASSUME NEW p \in Pages, WriteableNothing(p) PROVE UNCHANGED Promise!vars
  BY <1>9 DEF WriteableNothing, history, windows
<1>10. ASSUME NEW p \in Pages, Writeable(p), ~raced PROVE Promise!Deliver(p)
  <2>1. /\ last' = [last EXCEPT ![p] = slot[tail[p]]]
        /\ sent' = sent /\ joined' = joined /\ raced' = raced
    BY <1>10 DEF Writeable, windows
  <2> DEFINE k == Waiting(tail[p])
             m == sent + 1 - k
  <2>2. /\ k \in 1 .. sent /\ slot[tail[p]] = m
        /\ last[p] = 0 => m <= joined[p] + 1
        /\ last[p] # 0 => m = last[p] + 1
    BY <1>10, Given
  <2>3. m \in 1 .. sent
    <3> HIDE DEF k
    <3> QED  BY <2>2, RingTypes
  <2> HIDE DEF m
  <2> QED  BY <2>1, <2>2, <2>3 DEF Promise!Deliver
<1>11. ASSUME NEW p \in Pages, Writeable(p), raced PROVE raced'
  BY <1>11 DEF Writeable, windows
<1>12. CASE Stopped
  BY <1>12 DEF Stopped, history, windows
<1> QED  BY <1>0, <1>1, <1>2, <1>3, <1>4, <1>6, <1>7, <1>8, <1>9, <1>10, <1>11, <1>12 DEF Next

\* A page gets every message sent after it connected, in order and once
\* each, after some of those sent before (ws_callback).
THEOREM PromiseKept == Spec => KeepsPromise
<1>1. Init => Promise!Init
  BY DEF Init, Promise!Init
<1>2. RingInv /\ [Next]_vars => [Promise!Next]_Promise!vars
  BY RingStepBroadcasts
<1> QED  BY <1>1, <1>2, RingInvariance, PTL DEF Spec, KeepsPromise, Promise!Spec

-----------------------------------------------------------------------------
(* The walk of the sender. *)

\* What comes after a cell that is listed.
LEMMA FollowingListed ==
    ASSUME list \in Seq(Pages), IsInjective(list), NEW i \in 0 .. Len(list), NEW c,
           c = Cell(i)
    PROVE  Following(c) = IF i = Len(list) THEN NIL ELSE list[i + 1]
<1> USE DEF Cell
<1> DEFINE n == Len(list)
           one == <<HEAD>>
           end == <<NIL>>
           all == Pages \cup {HEAD, NIL}
<1>1. n \in Nat /\ HEAD \notin Pages /\ DOMAIN list = 1 .. n /\ \A k \in 1 .. n : list[k] \in Pages
  BY HttpRingAssumption DEF HttpRingAssumption
<1>0. n \in Nat /\ i \in Nat /\ i <= n
  <2>1. n \in Nat
    OBVIOUS
  <2> QED  BY <2>1
<1>2. one \in Seq(all) /\ end \in Seq(all) /\ list \in Seq(all)
  OBVIOUS
<1>3. Len(one) = 1 /\ one[1] = HEAD /\ Len(end) = 1 /\ end[1] = NIL
  OBVIOUS
<1> HIDE DEF one, end, all
<1>4. /\ one \o list \in Seq(all) /\ Len(one \o list) = n + 1
      /\ (one \o list)[1] = HEAD
      /\ \A k \in 2 .. (n + 1) : (one \o list)[k] = list[k - 1]
  <2>1. /\ one \o list \in Seq(all) /\ Len(one \o list) = Len(one) + n
        /\ \A k \in 1 .. Len(one) : (one \o list)[k] = one[k]
        /\ \A k \in 1 .. (Len(one) + n) : k > Len(one) => (one \o list)[k] = list[k - Len(one)]
    BY <1>2, Joined
  <2>2. \A k \in 2 .. (n + 1) : k \in 1 .. (1 + n) /\ k > 1
    BY <1>1
  <2> QED  BY <1>1, <1>3, <2>1, <2>2
<1>5. Cells = (one \o list) \o end
  BY DEF Cells, one, end
<1>6. /\ Len(Cells) = n + 2 /\ Cells[n + 2] = NIL
      /\ \A k \in 1 .. (n + 1) : Cells[k] = (one \o list)[k]
  BY <1>1, <1>2, <1>3, <1>4, <1>5, Joined
<1>7. Cells[1] = HEAD /\ \A k \in 2 .. (n + 1) : Cells[k] = list[k - 1]
  BY <1>1, <1>4, <1>6
<1>8. \A j \in 2 .. (n + 2) : Cells[j - 1] = c <=> j = i + 2
  <2> SUFFICES ASSUME NEW j \in 2 .. (n + 2) PROVE Cells[j - 1] = c <=> j = i + 2
    OBVIOUS
  <2>1. CASE j = 2
    BY <1>1, <1>7, <2>1
  <2>2. CASE j # 2
    <3>1. j - 1 \in 2 .. (n + 1) /\ j - 2 \in 1 .. n /\ (j - 1) - 1 = j - 2
      BY <1>1, <2>2
    <3>2. Cells[j - 1] = list[j - 2]
      BY <1>7, <3>1
    <3>3. CASE i = 0
      BY <1>1, <2>2, <3>1, <3>2, <3>3
    <3>4. CASE i # 0
      <4>1. list[j - 2] = list[i] <=> j - 2 = i
        BY <1>1, <3>1, <3>4 DEF IsInjective
      <4> QED  BY <1>1, <3>1, <3>2, <3>4, <4>1
    <3> QED  BY <3>3, <3>4
  <2> QED  BY <2>1, <2>2
<1>9. i + 2 \in 2 .. (n + 2)
  BY <1>1
<1>10. Following(c) = Cells[i + 2]
  <2>1. Following(c) = Cells[CHOOSE j \in 2 .. (n + 2) : Cells[j - 1] = c]
    BY <1>6 DEF Following
  <2>2. (CHOOSE j \in 2 .. (n + 2) : Cells[j - 1] = c) = i + 2
    BY <1>8, <1>9
  <2> QED  BY <2>1, <2>2
<1>11. CASE i = n
  BY <1>6, <1>10, <1>11
<1>12. CASE i # n
  <2>1. i + 2 \in 2 .. (n + 1) /\ (i + 2) - 1 = i + 1
    <3> HIDE DEF n
    <3> QED  BY <1>0, <1>12
  <2> QED  BY <1>7, <1>10, <1>12, <2>1
<1> QED  BY <1>11, <1>12

\* A listed session has a place, and a place is that of one cell.
LEMMA LivePlace ==
    ASSUME RingInv
    PROVE  /\ Len(list) \in Nat
           /\ \A q \in Live : \E i \in 1 .. Len(list) : q = list[i]
           /\ \A i \in 1 .. Len(list) : list[i] \in Live /\ list[i] \in Pages
           /\ \A i, k \in 0 .. Len(list) : Cell(i) = Cell(k) => i = k
<1>1. /\ Len(list) \in Nat /\ DOMAIN list = 1 .. Len(list)
      /\ \A i \in 1 .. Len(list) : list[i] \in Live /\ list[i] \in Pages
  BY RingTypes, SMTT(30) DEF Live, ToSet
<1>2. \A q \in Live : \E i \in 1 .. Len(list) : q = list[i]
  BY RingTypes, SMTT(30) DEF Live, ToSet
<1>3. ASSUME NEW i \in 0 .. Len(list), NEW k \in 0 .. Len(list), Cell(i) = Cell(k)
      PROVE  i = k
  <2>1. CASE i = 0 \/ k = 0
    BY <1>1, <1>3, <2>1, HttpRingAssumption DEF HttpRingAssumption, Cell
  <2>2. CASE i # 0 /\ k # 0
    <3>1. i \in DOMAIN list /\ k \in DOMAIN list /\ list[i] = list[k]
      BY <1>1, <1>3, <2>2 DEF Cell
    <3> QED  BY <3>1, RingTypes DEF IsInjective
  <2> QED  BY <2>1, <2>2
<1> QED  BY <1>1, <1>2, <1>3

\* Where the walk is, and what it reads there.
LEMMA WalkAt ==
    ASSUME RingInv, WalkVarsOK, at \in Live \cup {HEAD}
    PROVE  \E i \in 0 .. Len(list) :
              /\ at = Cell(i) /\ at \notin gone
              /\ Held(at) = {IF i = Len(list) THEN NIL ELSE list[i + 1]}
              /\ i # Len(list) => i + 1 \in 1 .. Len(list)
<1>1. at \notin gone
  BY HttpRingAssumption DEF HttpRingAssumption, WalkVarsOK
<1>2. PICK i \in 0 .. Len(list) : at = Cell(i)
  <2>1. CASE at = HEAD
    BY <2>1, RingTypes DEF Cell
  <2>2. CASE at \in Live
    <3>1. PICK i \in 1 .. Len(list) : at = list[i]
      BY <2>2, LivePlace
    <3>2. i \in 0 .. Len(list) /\ i # 0
      BY RingTypes
    <3> QED  BY <3>1, <3>2 DEF Cell
  <2> QED  BY <2>1, <2>2
<1>3. Following(at) = IF i = Len(list) THEN NIL ELSE list[i + 1]
  BY <1>2, RingTypes, FollowingListed
<1>4. i # Len(list) => i + 1 \in 1 .. Len(list)
  BY LivePlace
<1> QED  BY <1>1, <1>2, <1>3, <1>4 DEF Held

\* What a cell holds is a session or nothing.
LEMMA HeldOK ==
    ASSUME RingInv, WalkVarsOK, NEW c \in Held(at)
    PROVE  c \in Live \cup gone \cup {NIL}
<1>1. CASE at \in gone
  BY <1>1 DEF Held, WalkVarsOK
<1>2. CASE at \notin gone
  <2>1. at \in Live \cup {HEAD}
    BY <1>2 DEF WalkVarsOK
  <2>2. PICK i \in 0 .. Len(list) :
              /\ Held(at) = {IF i = Len(list) THEN NIL ELSE list[i + 1]}
              /\ i # Len(list) => i + 1 \in 1 .. Len(list)
    BY <2>1, WalkAt
  <2> QED  BY <2>2, LivePlace
<1> QED  BY <1>1, <1>2

\* Where a page is ahead, given by places in the list.
LEMMA AheadAt ==
    ASSUME RingInv, NEW q, Ahead(q), NEW i \in 0 .. Len(list), at = Cell(i)
    PROVE  \E j \in 1 .. Len(list) : list[j] = q /\ IF cpc = "advance" THEN i + 1 < j ELSE i < j
<1>1. PICK k \in 0 .. Len(list), j \in 1 .. Len(list) :
        /\ at = Cell(k) /\ list[j] = q
        /\ IF cpc = "advance" THEN k + 1 < j ELSE k < j
  BY DEF Ahead
<1>2. k = i
  BY <1>1, LivePlace
<1> QED  BY <1>1, <1>2

\* Service steps that leave the list and the walk alone and forget nobody.
LEMMA FrameWalk ==
    ASSUME WalkInv, UNCHANGED <<list, gone, after, cpc, at, skipped>>,
           want' \in [Pages -> BOOLEAN],
           vpc' \in {"recount", "again", "join"} => cur' \in Pages,
           \A p \in Pages : Forgotten(p)' => Forgotten(p)
    PROVE  WalkInv'
<1>1. Live' = Live
  BY DEF Live
<1>2. WalkVarsOK'
  BY <1>1 DEF WalkInv, WalkVarsOK
<1>3. \A p \in Pages : Ahead(p) => Ahead(p)'
  BY DEF Ahead, Cell
<1> QED  BY <1>1, <1>2, <1>3 DEF WalkInv

\* The walk begins where it comes to everybody.
LEMMA SendWalk ==
    ASSUME RingInv, WalkInv, Send PROVE WalkInv'
<1>1. /\ list' = list /\ gone' = gone /\ after' = after /\ want' = want
      /\ vpc' = vpc /\ cur' = cur /\ cpc' = "look" /\ at' = HEAD /\ skipped' = FALSE
  BY DEF Send, sessions, service
<1>2. Live' = Live
  BY <1>1 DEF Live
<1>3. WalkVarsOK'
  BY <1>1, <1>2 DEF WalkInv, WalkVarsOK
<1>4. ASSUME NEW p \in Pages, Forgotten(p)' PROVE Ahead(p)'
  <2>1. PICK j \in 1 .. Len(list) : list[j] = p
    BY <1>2, <1>4, LivePlace DEF Forgotten
  <2>2. 0 \in 0 .. Len(list') /\ j \in 1 .. Len(list') /\ list'[j] = p /\ 0 < j
    BY <1>1, <2>1, LivePlace
  <2> QED  BY <1>1, <2>2 DEF Ahead, Cell
<1> QED  BY <1>1, <1>3, <1>4 DEF WalkInv

\* The steps of the walk leave the types as they are.
LEMMA WalkStepVars ==
    ASSUME RingInv, WalkVarsOK, WalkTest \/ WalkRequest \/ WalkAdvance PROVE WalkVarsOK'
<1>1. /\ list' = list /\ gone' = gone /\ after' = after /\ vpc' = vpc /\ cur' = cur
      /\ skipped' = skipped
  BY DEF WalkTest, WalkRequest, WalkAdvance, sessions, service, windows
<1>2. Live' = Live
  BY <1>1 DEF Live
<1>3. want' \in [Pages -> BOOLEAN]
  BY DEF WalkTest, WalkRequest, WalkAdvance, WalkVarsOK
<1>4. cpc' \in {"idle", "look", "request", "advance", "crashed"} /\ at' \in Live \cup gone \cup {HEAD}
  <2>1. CASE WalkTest
    BY <2>1 DEF WalkTest, WalkVarsOK
  <2>2. CASE WalkRequest
    BY <2>2 DEF WalkRequest, WalkVarsOK
  <2>3. CASE WalkAdvance
    BY <2>3, HeldOK DEF WalkAdvance
  <2> QED  BY <2>1, <2>2, <2>3
<1> QED  BY <1>1, <1>2, <1>3, <1>4 DEF WalkVarsOK

\* The walk ends where nobody is ahead.
LEMMA WalkTestWalk ==
    ASSUME RingInv, WalkInv, WalkTest PROVE WalkInv'
<1>1. /\ list' = list /\ want' = want /\ cpc = "look" /\ skipped' = skipped
      /\ vpc' = vpc /\ cur' = cur /\ tail' = tail /\ head' = head /\ sent' = sent /\ joined' = joined
  BY DEF WalkTest, sessions, service, ring, history, windows
<1>2. WalkVarsOK /\ WalkVarsOK' /\ Live' = Live
  BY <1>1, WalkStepVars DEF WalkInv, Live
<1>3. \A p \in Pages : Forgotten(p)' => Forgotten(p)
  BY <1>1, <1>2 DEF Forgotten
<1>4. ASSUME ~skipped
      PROVE  /\ cpc' = "idle" => \A p \in Pages : ~Forgotten(p)'
             /\ cpc' \in {"look", "request", "advance"} =>
                   /\ at' \in Live' \cup {HEAD}
                   /\ \A p \in Pages : Forgotten(p)' => Ahead(p)'
  <2>1. at \in Live \cup {HEAD} /\ \A p \in Pages : Forgotten(p) => Ahead(p)
    BY <1>1, <1>4 DEF WalkInv
  <2>2. PICK i \in 0 .. Len(list) :
              /\ at = Cell(i)
              /\ Held(at) = {IF i = Len(list) THEN NIL ELSE list[i + 1]}
              /\ i # Len(list) => i + 1 \in 1 .. Len(list)
    BY <1>2, <2>1, WalkAt
  <2>3. CASE cpc' = "idle"
    <3>1. NIL \in Held(at)
      BY <1>1, <2>3 DEF WalkTest
    <3>2. i = Len(list)
      BY <2>2, <3>1, LivePlace, HttpRingAssumption DEF HttpRingAssumption
    <3>3. ASSUME NEW p \in Pages, Forgotten(p) PROVE FALSE
      <4>1. PICK j \in 1 .. Len(list) : i < j
        BY <1>1, <2>1, <2>2, <3>3, AheadAt
      <4> QED  BY <3>2, <4>1, LivePlace
    <3> QED  BY <1>3, <2>3, <3>3
  <2>4. CASE cpc' # "idle"
    <3>1. cpc' = "request" /\ at' = at
      BY <1>1, <2>4 DEF WalkTest
    <3>2. \A p \in Pages : Ahead(p) => Ahead(p)'
      BY <1>1, <3>1 DEF Ahead, Cell
    <3> QED  BY <1>2, <1>3, <2>1, <3>1, <3>2
  <2> QED  BY <2>3, <2>4
<1> QED  BY <1>1, <1>2, <1>4 DEF WalkInv

\* A page that is passed over was told.
LEMMA WalkRequestWalk ==
    ASSUME RingInv, WalkInv, WalkRequest PROVE WalkInv'
<1>1. /\ list' = list /\ cpc = "request" /\ cpc' = "advance" /\ at' = at /\ skipped' = skipped
      /\ vpc' = vpc /\ cur' = cur /\ tail' = tail /\ head' = head /\ sent' = sent /\ joined' = joined
  BY DEF WalkRequest, sessions, service, ring, history, windows
<1>2. WalkVarsOK /\ WalkVarsOK' /\ Live' = Live
  BY <1>1, WalkStepVars DEF WalkInv, Live
<1>3. ASSUME ~skipped
      PROVE  /\ at' \in Live' \cup {HEAD}
             /\ \A p \in Pages : Forgotten(p)' => Ahead(p)'
  <2>1. at \in Live \cup {HEAD} /\ \A p \in Pages : Forgotten(p) => Ahead(p)
    BY <1>1, <1>3 DEF WalkInv
  <2>2. PICK i \in 0 .. Len(list) :
              /\ at = Cell(i)
              /\ Held(at) = {IF i = Len(list) THEN NIL ELSE list[i + 1]}
              /\ i # Len(list) => i + 1 \in 1 .. Len(list)
    BY <1>2, <2>1, WalkAt
  <2>3. i # Len(list) /\ i + 1 \in 1 .. Len(list) /\ want' = [want EXCEPT ![list[i + 1]] = TRUE]
    <3>1. i # Len(list) /\ i + 1 \in 1 .. Len(list)
      BY <2>2 DEF WalkRequest
    <3>2. list[i + 1] \in Live
      BY <3>1, LivePlace
    <3> QED  BY <2>2, <3>1, <3>2 DEF WalkRequest
  <2>4. ASSUME NEW p \in Pages, Forgotten(p)' PROVE Forgotten(p) /\ p # list[i + 1]
    <3>1. list[i + 1] \in Pages
      BY <2>3, LivePlace
    <3>2. p # list[i + 1]
      BY <1>2, <2>3, <2>4, <3>1 DEF Forgotten, WalkVarsOK
    <3>3. want'[p] = want[p]
      BY <1>2, <2>3, <3>2 DEF WalkVarsOK
    <3> QED  BY <1>1, <1>2, <2>4, <3>2, <3>3 DEF Forgotten
  <2>5. ASSUME NEW p \in Pages, Forgotten(p)' PROVE Ahead(p)'
    <3>1. PICK j \in 1 .. Len(list) : list[j] = p /\ i < j
      BY <1>1, <2>1, <2>2, <2>4, <2>5, AheadAt
    <3>2. j # i + 1
      BY <2>4, <2>5, <3>1
    <3>3. i + 1 < j
      BY <3>1, <3>2, LivePlace
    <3> QED  BY <1>1, <2>2, <3>1, <3>3 DEF Ahead, Cell
  <2> QED  BY <1>1, <1>2, <2>1, <2>5
<1> QED  BY <1>1, <1>2, <1>3 DEF WalkInv

\* The walk goes on to the page it told.
LEMMA WalkAdvanceWalk ==
    ASSUME RingInv, WalkInv, WalkAdvance PROVE WalkInv'
<1>1. /\ list' = list /\ want' = want /\ cpc = "advance" /\ cpc' = "look" /\ skipped' = skipped
      /\ vpc' = vpc /\ cur' = cur /\ tail' = tail /\ head' = head /\ sent' = sent /\ joined' = joined
  BY DEF WalkAdvance, sessions, service, ring, history, windows
<1>2. WalkVarsOK /\ WalkVarsOK' /\ Live' = Live
  BY <1>1, WalkStepVars DEF WalkInv, Live
<1>3. ASSUME ~skipped
      PROVE  /\ at' \in Live' \cup {HEAD}
             /\ \A p \in Pages : Forgotten(p)' => Ahead(p)'
  <2>1. at \in Live \cup {HEAD} /\ \A p \in Pages : Forgotten(p) => Ahead(p)
    BY <1>1, <1>3 DEF WalkInv
  <2>2. PICK i \in 0 .. Len(list) :
              /\ at = Cell(i)
              /\ Held(at) = {IF i = Len(list) THEN NIL ELSE list[i + 1]}
              /\ i # Len(list) => i + 1 \in 1 .. Len(list)
    BY <1>2, <2>1, WalkAt
  <2>3. i # Len(list) /\ i + 1 \in 1 .. Len(list) /\ at' = list[i + 1]
    BY <2>2 DEF WalkAdvance
  <2>4. at' \in Live /\ at' = Cell(i + 1) /\ i + 1 \in 0 .. Len(list)
    <3>1. i + 1 # 0 /\ i + 1 \in 0 .. Len(list)
      BY <2>3, LivePlace
    <3> QED  BY <2>3, <3>1, LivePlace DEF Cell
  <2>5. ASSUME NEW p \in Pages, Forgotten(p)' PROVE Ahead(p)'
    <3>1. Forgotten(p)
      BY <1>1, <1>2, <2>5 DEF Forgotten
    <3>2. PICK j \in 1 .. Len(list) : list[j] = p /\ i + 1 < j
      BY <1>1, <2>1, <2>2, <3>1, AheadAt
    <3> QED  BY <1>1, <2>4, <3>2 DEF Ahead, Cell
  <2> QED  BY <1>2, <2>4, <2>5
<1> QED  BY <1>1, <1>2, <1>3 DEF WalkInv

\* A page that connects comes before the walk, and waits for nothing yet.
LEMMA LinkedWalk ==
    ASSUME RingInv, WalkInv, NEW p \in Pages, Linked(p) PROVE WalkInv'
<1>1. /\ list' = <<p>> \o list /\ gone' = gone \ {p} /\ after' = [after EXCEPT ![p] = NIL]
      /\ tail' = [tail EXCEPT ![p] = oldest] /\ joined' = [joined EXCEPT ![p] = sent]
      /\ want' = want /\ cpc' = cpc /\ at' = at /\ vpc = "idle" /\ vpc' = "join" /\ cur' = p
      /\ head' = head /\ sent' = sent /\ p \notin Live /\ skipped' = skipped
  BY DEF Linked, capture, ring, windows
<1>2. WalkVarsOK
  BY DEF WalkInv
<1>3. /\ Live' = Live \cup {p} /\ Len(list') = Len(list) + 1 /\ list'[1] = p
      /\ \A k \in 1 .. Len(list) : list'[k + 1] = list[k]
  BY <1>1, RingTypes, PutFirst
<1>4. WalkVarsOK'
  <2>1. after' \in [Pages -> Pages \cup {NIL}] /\ \A q \in gone' : after'[q] = after[q] /\ q \in gone
    BY <1>1, <1>2 DEF WalkVarsOK
  <2>2. Live \cup gone \subseteq Live' \cup gone'
    BY <1>1, <1>3
  <2>3. \A q \in gone' : after'[q] \in Live' \cup gone' \cup {NIL}
    BY <1>2, <2>1, <2>2 DEF WalkVarsOK
  <2>4. gone' \subseteq Pages /\ gone' \cap Live' = {} /\ at' \in Live' \cup gone' \cup {HEAD}
    BY <1>1, <1>2, <1>3, <2>2 DEF WalkVarsOK
  <2> QED  BY <1>1, <1>2, <2>1, <2>3, <2>4 DEF WalkVarsOK
<1>5. ASSUME NEW q \in Pages, Forgotten(q)' PROVE q # p /\ Forgotten(q)
  <2>1. joined'[p] = sent /\ ~(sent > sent)
    BY <1>1, RingTypes
  <2>2. q # p
    BY <1>1, <1>5, <2>1 DEF Forgotten
  <2>3. tail'[q] = tail[q] /\ joined'[q] = joined[q]
    BY <1>1, <2>2, RingTypes
  <2> QED  BY <1>1, <1>3, <1>5, <2>2, <2>3 DEF Forgotten
<1>6. ASSUME NEW q \in Pages, Ahead(q) PROVE Ahead(q)'
  <2>1. PICK i \in 0 .. Len(list), j \in 1 .. Len(list) :
           /\ at = Cell(i) /\ list[j] = q
           /\ IF cpc = "advance" THEN i + 1 < j ELSE i < j
    BY <1>6 DEF Ahead
  <2>2. Len(list) \in Nat /\ i \in Nat /\ j \in Nat
    BY LivePlace
  <2>3. j + 1 \in 1 .. Len(list') /\ list'[j + 1] = q
    BY <1>3, <2>1, <2>2
  <2>4. CASE i = 0
    <3>1. 0 \in 0 .. Len(list') /\ (IF cpc = "advance" THEN 0 + 1 < j + 1 ELSE 0 < j + 1)
      BY <1>3, <2>1, <2>2, <2>4
    <3>2. at' = HEAD
      BY <1>1, <2>1, <2>4 DEF Cell
    <3> QED  BY <1>1, <2>3, <3>1, <3>2 DEF Ahead, Cell
  <2>5. CASE i # 0
    <3>1. /\ i + 1 \in 0 .. Len(list') /\ i + 1 # 0 /\ i \in 1 .. Len(list)
          /\ IF cpc = "advance" THEN (i + 1) + 1 < j + 1 ELSE i + 1 < j + 1
      BY <1>3, <2>1, <2>2, <2>5
    <3>2. at' = list'[i + 1]
      BY <1>1, <1>3, <2>1, <2>5, <3>1 DEF Cell
    <3> QED  BY <1>1, <2>3, <3>1, <3>2 DEF Ahead, Cell
  <2> QED  BY <2>4, <2>5
<1>7. at \in Live \cup {HEAD} => at' \in Live' \cup {HEAD}
  BY <1>1, <1>3
<1> QED  BY <1>1, <1>4, <1>5, <1>6, <1>7 DEF WalkInv

\* A page that leaves takes nobody with it, when the walk is neither at it nor
\* about to go on from it.
LEMMA ClosedWalk ==
    ASSUME RingInv, WalkInv, NEW p \in Pages, Closed(p) PROVE WalkInv'
<1>1. /\ gone' = gone \cup {p} /\ after' = [after EXCEPT ![p] = Following(p)]
      /\ want' = [want EXCEPT ![p] = FALSE]
      /\ tail' = [tail EXCEPT ![p] = 0] /\ joined' = [joined EXCEPT ![p] = 0]
      /\ cpc' = cpc /\ at' = at /\ vpc = "idle" /\ vpc' = "idle" /\ cur' = cur
      /\ head' = head /\ sent' = sent /\ p \in Live
      /\ skipped' = (skipped \/ p \in UnderWalk)
  BY DEF Closed, Unlink, capture, ring, service
<1>2. WalkVarsOK
  BY DEF WalkInv
<1>3. PICK m \in DOMAIN list : list[m] = p /\ list' = RemoveAt(list, m)
  BY DEF Closed, Unlink
<1>4. /\ Live' = Live \ {p} /\ Len(list') = Len(list) - 1
      /\ \A k \in 1 .. Len(list') : list'[k] = IF k < m THEN list[k] ELSE list[k + 1]
  BY <1>3, RingTypes, TakenOut
<1>5. Len(list) \in Nat /\ m \in 1 .. Len(list) /\ m \in Nat /\ m > 0
  BY <1>3, RingTypes, SMTT(30)
<1>6. Following(p) \in Live \cup {NIL}
  <2>1. m \in 0 .. Len(list) /\ m # 0 /\ p = Cell(m)
    BY <1>3, <1>5 DEF Cell
  <2>2. Following(p) = IF m = Len(list) THEN NIL ELSE list[m + 1]
    BY <2>1, RingTypes, FollowingListed
  <2>3. m # Len(list) => m + 1 \in 1 .. Len(list)
    BY <1>5
  <2> QED  BY <2>2, <2>3, LivePlace
<1>7. WalkVarsOK'
  <2>1. want' \in [Pages -> BOOLEAN] /\ after' \in [Pages -> Pages \cup {NIL}]
    BY <1>1, <1>2, <1>6, RingTypes DEF WalkVarsOK
  <2>2. Live \cup gone = Live' \cup gone' /\ gone' \cap Live' = {} /\ gone' \subseteq Pages
    BY <1>1, <1>2, <1>4 DEF WalkVarsOK
  <2>3. ASSUME NEW q \in gone' PROVE after'[q] \in Live \cup gone \cup {NIL}
    BY <1>1, <1>2, <1>6, <2>3 DEF WalkVarsOK
  <2>4. skipped' \in BOOLEAN /\ at' \in Live' \cup gone' \cup {HEAD}
    BY <1>1, <1>2, <2>2 DEF WalkVarsOK
  <2> QED  BY <1>1, <1>2, <2>1, <2>2, <2>3, <2>4 DEF WalkVarsOK
<1>8. ASSUME NEW q \in Pages, Forgotten(q)' PROVE q # p /\ Forgotten(q)
  <2>1. q # p /\ q \in Live
    BY <1>4, <1>8 DEF Forgotten
  <2>2. tail'[q] = tail[q] /\ joined'[q] = joined[q] /\ want'[q] = want[q]
    BY <1>1, <1>2, <2>1, RingTypes DEF WalkVarsOK
  <2> QED  BY <1>1, <1>8, <2>1, <2>2 DEF Forgotten
<1>9. ASSUME ~skipped, p \notin UnderWalk, cpc \in {"look", "request", "advance"}
      PROVE  /\ at' \in Live' \cup {HEAD}
             /\ \A q \in Pages : Forgotten(q)' => Ahead(q)'
  <2>1. at \in Live \cup {HEAD} /\ \A q \in Pages : Forgotten(q) => Ahead(q)
    BY <1>9 DEF WalkInv
  <2>2. PICK i \in 0 .. Len(list) :
              /\ at = Cell(i)
              /\ Held(at) = {IF i = Len(list) THEN NIL ELSE list[i + 1]}
    BY <1>2, <2>1, WalkAt
  <2>3. at # p /\ (cpc = "advance" => p \notin Held(at))
    BY <1>9 DEF UnderWalk
  <2>4. i # m /\ (cpc = "advance" => i + 1 # m)
    <3>1. i # m
      BY <1>3, <1>5, <2>2, <2>3 DEF Cell
    <3>2. i + 1 = m => i # Len(list)
      BY <1>5
    <3> QED  BY <1>3, <2>2, <2>3, <3>1, <3>2
  <2>5. i \in Nat /\ i <= Len(list)
    BY <1>5
  <2>6. PICK i2 : i2 = IF i < m THEN i ELSE i - 1
    OBVIOUS
  <2>7. i2 \in 0 .. Len(list') /\ at' = Cell(i2)'
    <3>1. CASE i < m
      <4>1. i2 = i /\ i \in 0 .. Len(list') /\ (i # 0 => i \in 1 .. Len(list'))
        BY <1>4, <1>5, <2>5, <2>6, <3>1
      <4> QED  BY <1>1, <1>4, <2>2, <3>1, <4>1 DEF Cell
    <3>2. CASE i > m
      <4>1. /\ i2 = i - 1 /\ i # 0 /\ i - 1 # 0 /\ i - 1 \in 1 .. Len(list') /\ ~(i - 1 < m)
            /\ (i - 1) + 1 = i /\ i2 \in 0 .. Len(list')
        BY <1>4, <1>5, <2>5, <2>6, <3>2
      <4> QED  BY <1>1, <1>4, <2>2, <4>1 DEF Cell
    <3> QED  BY <1>5, <2>4, <2>5, <3>1, <3>2
  <2>8. ASSUME NEW q \in Pages, Forgotten(q)' PROVE Ahead(q)'
    <3>1. q # p /\ Ahead(q)
      BY <1>8, <2>1, <2>8
    <3>2. PICK j \in 1 .. Len(list) : list[j] = q /\ IF cpc = "advance" THEN i + 1 < j ELSE i < j
      BY <2>2, <3>1, AheadAt
    <3>3. j \in Nat /\ j # m /\ j > 0
      BY <1>3, <1>5, <3>1, <3>2
    <3>4. PICK j2 : j2 = IF j < m THEN j ELSE j - 1
      OBVIOUS
    <3>5. j2 \in 1 .. Len(list') /\ list'[j2] = q
      <4>1. CASE j < m
        <5>1. j2 = j /\ j \in 1 .. Len(list')
          BY <1>4, <1>5, <3>3, <3>4, <4>1
        <5> QED  BY <1>4, <3>2, <4>1, <5>1
      <4>2. CASE j > m
        <5>1. j2 = j - 1 /\ j - 1 \in 1 .. Len(list') /\ ~(j - 1 < m) /\ (j - 1) + 1 = j
          BY <1>4, <1>5, <3>3, <3>4, <4>2
        <5> QED  BY <1>4, <3>2, <5>1
      <4> QED  BY <1>5, <3>3, <4>1, <4>2
    <3>6. /\ cpc # "advance" => i2 < j2
          /\ cpc = "advance" => i2 + 1 < j2
      BY <1>5, <2>4, <2>5, <2>6, <3>2, <3>3, <3>4
    <3> QED  BY <1>1, <2>7, <3>5, <3>6 DEF Ahead
  <2>9. at' \in Live' \cup {HEAD}
    BY <1>1, <1>4, <2>1, <2>3
  <2> QED  BY <2>8, <2>9
<1> QED  BY <1>1, <1>2, <1>7, <1>8, <1>9 DEF WalkInv, WalkVarsOK

\* Every step keeps the invariant of the walk.
LEMMA NextWalk ==
    ASSUME RingInv, WalkInv, [Next]_vars PROVE WalkInv'
<1>1. WalkVarsOK
  BY DEF WalkInv
<1>2. CASE SendWithoutRing \/ WalkCrash
  <2>1. /\ list' = list /\ gone' = gone /\ after' = after /\ want' = want /\ at' = at
        /\ cpc' = "crashed" /\ vpc' = "crashed" /\ skipped' = skipped
    BY <1>2 DEF SendWithoutRing, WalkCrash, Crash, sessions, windows
  <2>2. WalkVarsOK'
    BY <1>1, <2>1 DEF WalkVarsOK, Live
  <2> QED  BY <2>1, <2>2 DEF WalkInv
<1>3. CASE SendFull \/ UNCHANGED vars
  <2>1. UNCHANGED vars
    BY <1>3 DEF SendFull
  <2>2. \A p \in Pages : Forgotten(p)' => Forgotten(p)
    BY <2>1 DEF vars, ring, sessions, service, history, Forgotten, Live
  <2> QED  BY <1>1, <2>1, <2>2, FrameWalk DEF vars, sessions, capture, service, windows, WalkVarsOK
<1>4. CASE Send
  BY <1>4, SendWalk
<1>5. CASE WalkTest \/ WalkRequest \/ WalkAdvance
  BY <1>5, WalkTestWalk, WalkRequestWalk, WalkAdvanceWalk
<1>6. CASE ProtocolInit \/ Established \/ Recount \/ UpdateOldest \/ Stopped
  <2>1. /\ list' = list /\ gone' = gone /\ after' = after /\ want' = want /\ cpc' = cpc /\ at' = at
        /\ tail' = tail /\ head' = head /\ sent' = sent /\ joined' = joined /\ skipped' = skipped
        /\ vpc' \in {"recount", "again"} => vpc \in {"recount", "again"} /\ cur' = cur
        /\ vpc \in {"recount", "again"} => vpc' \in {"recount", "again"}
        /\ vpc' # "join"
    BY <1>6 DEF ProtocolInit, Established, Recount, UpdateOldest, Stopped,
                ring, sessions, capture, service, history, windows
  <2>2. \A p \in Pages : Forgotten(p)' => Forgotten(p)
    BY <2>1 DEF Forgotten, Live
  <2> QED  BY <1>1, <2>1, <2>2, FrameWalk DEF WalkVarsOK
<1>7. CASE Again
  <2>1. /\ list' = list /\ gone' = gone /\ after' = after /\ cpc' = cpc /\ at' = at
        /\ want' = [want EXCEPT ![cur] = @ \/ tail[cur] # head] /\ cur \in Pages
        /\ tail' = tail /\ head' = head /\ sent' = sent /\ joined' = joined /\ vpc' = "idle"
        /\ skipped' = skipped
    BY <1>1, <1>7 DEF Again, WalkVarsOK, ring, sessions, capture, history, windows
  <2>2. want' \in [Pages -> BOOLEAN] /\ (want'[cur] <=> (want[cur] \/ tail[cur] # head))
        /\ \A p \in Pages : p # cur => want'[p] = want[p]
    BY <1>1, <2>1 DEF WalkVarsOK
  <2>3. \A p \in Pages : Forgotten(p)' => Forgotten(p)
    BY <2>1, <2>2 DEF Forgotten, Live
  <2> QED  BY <2>1, <2>2, <2>3, FrameWalk
<1>8. ASSUME NEW p \in Pages, WriteableNothing(p) PROVE WalkInv'
  <2>1. /\ list' = list /\ gone' = gone /\ after' = after /\ cpc' = cpc /\ at' = at
        /\ want' = [want EXCEPT ![p] = FALSE] /\ tail[p] = head
        /\ tail' = tail /\ head' = head /\ sent' = sent /\ joined' = joined
        /\ vpc' = vpc /\ vpc = "idle" /\ cur' = cur /\ skipped' = skipped
    BY <1>8 DEF WriteableNothing, ring, sessions, capture, service, history, windows
  <2>2. want' \in [Pages -> BOOLEAN] /\ \A q \in Pages : q # p => want'[q] = want[q]
    BY <1>1, <2>1 DEF WalkVarsOK
  <2>3. \A q \in Pages : Forgotten(q)' => Forgotten(q)
    BY <2>1, <2>2 DEF Forgotten, Live
  <2> QED  BY <2>1, <2>2, <2>3, FrameWalk
<1>9. ASSUME NEW p \in Pages, Writeable(p) PROVE WalkInv'
  <2>1. /\ list' = list /\ gone' = gone /\ after' = after /\ cpc' = cpc /\ at' = at
        /\ want' = [want EXCEPT ![p] = FALSE] /\ tail' = [tail EXCEPT ![p] = Bump(@)]
        /\ head' = head /\ sent' = sent /\ joined' = joined /\ skipped' = skipped
        /\ vpc' \in {"recount", "again"} /\ vpc = "idle" /\ cur' = p
    BY <1>9 DEF Writeable, ring, capture, windows
  <2>2. want' \in [Pages -> BOOLEAN] /\ \A q \in Pages : q # p => want'[q] = want[q] /\ tail'[q] = tail[q]
    BY <1>1, <2>1, RingTypes DEF WalkVarsOK
  <2>3. \A q \in Pages : Forgotten(q)' => Forgotten(q)
    BY <2>1, <2>2 DEF Forgotten, Live
  <2> QED  BY <2>1, <2>2, <2>3, FrameWalk
<1>10. ASSUME NEW p \in Pages, Linked(p) \/ Closed(p) PROVE WalkInv'
  BY <1>10, LinkedWalk, ClosedWalk
<1> QED  BY <1>2, <1>3, <1>4, <1>5, <1>6, <1>7, <1>8, <1>9, <1>10 DEF Next, ServiceStep, CaptureStep

\* The walk of the sender comes to every page that has no callback coming,
\* over those that connect and leave meanwhile, unless one left under it.
THEOREM WalkInvariance == Spec => []WalkInv
<1>1. Init => WalkInv
  <2> SUFFICES ASSUME Init PROVE WalkInv
    OBVIOUS
  <2>1. Live = {}
    BY DEF Init, Live, ToSet
  <2> QED  BY <2>1 DEF Init, WalkInv, WalkVarsOK, Forgotten
<1>2. RingInv /\ WalkInv /\ [Next]_vars => WalkInv'
  BY NextWalk
<1> QED  BY <1>1, <1>2, RingInvariance, PTL DEF Spec

\* A page that has to read a message sent after it connected has a callback
\* coming, unless a session left under the walk of the message sent last
\* (ws_send_media's walk against ESTABLISHED, CLOSED and the end of
\* SERVER_WRITEABLE).
THEOREM NobodyForgotten == Spec => []NoLostWakeup
<1>1. RingInv /\ WalkInv => NoLostWakeup
  <2> SUFFICES ASSUME RingInv, WalkInv, ~skipped,
                      NEW p \in Live, sent > joined[p], tail[p] # head, cpc = "idle"
               PROVE  want[p] \/ (vpc \in {"recount", "again"} /\ cur = p)
    BY DEF NoLostWakeup
  <2>1. p \in Pages
    BY RingTypes
  <2> QED  BY <2>1 DEF WalkInv, Forgotten
<1> QED  BY <1>1, RingInvariance, WalkInvariance, PTL
=============================================================================
