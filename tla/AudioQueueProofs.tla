-------------------------- MODULE AudioQueueProofs --------------------------
(***************************************************************************)
(* The audio queue (AudioQueue), for every set of chunks, every limit and  *)
(* every interleaving of the two threads: the list stays whole, the count  *)
(* is what waits, and chunks are played in order.                          *)
(***************************************************************************)
EXTENDS AudioQueue, FiniteSetTheorems, ProofLemmas


-----------------------------------------------------------------------------
(* Sums. *)

\* s sums up the lengths of q up to the n-th.
IsSum(q, s, n) == s[0] = 0 /\ \A k \in 1 .. n : s[k] = s[k - 1] + q[k].len

\* Partial sums of the lengths of any sequence of chunks.
LEMMA SumExists ==
    ASSUME NEW q \in Seq(Chunks)
    PROVE  \E s \in [0 .. Len(q) -> Nat] : IsSum(q, s, Len(q))
<1> DEFINE L == Len(q)
           S == {n \in 0 .. L : \E s \in [0 .. n -> Nat] : IsSum(q, s, n)}
<1>1. L \in Nat /\ \A k \in 1 .. L : q[k] \in Chunks /\ q[k].len \in Nat
  BY AudioAssumption DEF AudioAssumption
<1>2. 0 \in S
  <2> DEFINE s == [k \in 0 .. 0 |-> 0]
  <2>1. s \in [0 .. 0 -> Nat] /\ IsSum(q, s, 0)
    BY DEF IsSum
  <2> HIDE DEF s
  <2> QED  BY <1>1, <2>1
<1>3. ASSUME NEW n \in 0 .. (L - 1), n \in S PROVE n + 1 \in S
  <2>1. PICK s \in [0 .. n -> Nat] : IsSum(q, s, n)
    BY <1>3
  <2> DEFINE t == [k \in 0 .. (n + 1) |-> IF k = n + 1 THEN s[n] + q[n + 1].len ELSE s[k]]
  <2>2. t \in [0 .. (n + 1) -> Nat]
    BY <1>1, <2>1
  <2>3. IsSum(q, t, n + 1)
    <3>1. t[0] = 0
      BY <2>1 DEF IsSum
    <3>2. ASSUME NEW k \in 1 .. (n + 1) PROVE t[k] = t[k - 1] + q[k].len
      <4>1. CASE k = n + 1
        BY <2>1, <4>1
      <4>2. CASE k # n + 1
        <5>1. k \in 1 .. n /\ k - 1 \in 0 .. n /\ k - 1 # n + 1
          BY <4>2
        <5> QED  BY <2>1, <5>1 DEF IsSum
      <4> QED  BY <4>1, <4>2
    <3> HIDE DEF t
    <3> QED  BY <3>1, <3>2 DEF IsSum
  <2> HIDE DEF t
  <2>4. n + 1 \in 0 .. L
    BY <1>1
  <2> QED  BY <2>2, <2>3, <2>4
<1>4. 0 .. L \subseteq S
  <2> HIDE DEF S
  <2> QED  BY <1>1, <1>2, <1>3, UpTo
<1> QED  BY <1>1, <1>4

\* Bytes is the last of the sums.
LEMMA BytesIsSum ==
    ASSUME NEW q \in Seq(Chunks), NEW s \in [0 .. Len(q) -> Nat], IsSum(q, s, Len(q))
    PROVE  Fifo!Bytes(q) = s[Len(q)]
<1> DEFINE L == Len(q)
           G(h) == [n \in 0 .. L |-> IF n = 0 THEN 0 ELSE h[n - 1] + q[n].len]
           sum == CHOOSE h : h = G(h)
<1>1. L \in Nat
  OBVIOUS
<1>2. s = G(s)
  BY DEF IsSum
<1>3. sum = G(sum)
  <2> HIDE DEF G
  <2> QED  BY <1>2
<1>4. \A n \in 0 .. L : sum[n] = IF n = 0 THEN 0 ELSE sum[n - 1] + q[n].len
  <2> HIDE DEF sum
  <2> QED  BY <1>3
<1>5. Fifo!Bytes(q) = sum[L]
  BY DEF Fifo!Bytes
<1> HIDE DEF sum
<1> DEFINE T == {n \in 0 .. L : sum[n] = s[n]}
<1>6. 0 \in T
  BY <1>1, <1>4 DEF IsSum
<1>7. ASSUME NEW n \in 0 .. (L - 1), n \in T PROVE n + 1 \in T
  <2>1. n + 1 \in 1 .. L /\ (n + 1) - 1 = n
    BY <1>1
  <2> QED  BY <1>4, <1>7, <2>1 DEF IsSum
<1>8. 0 .. L \subseteq T
  <2> HIDE DEF T
  <2> QED  BY <1>1, <1>6, <1>7, UpTo
<1> QED  BY <1>1, <1>5, <1>8

\* No chunk has no bytes; one more at the end adds its own; without the first,
\* the bytes of the first are gone.
LEMMA BytesOf ==
    ASSUME NEW q \in Seq(Chunks)
    PROVE  /\ Fifo!Bytes(q) \in Nat
           /\ q = <<>> => Fifo!Bytes(q) = 0
           /\ \A c \in Chunks : Fifo!Bytes(Append(q, c)) = Fifo!Bytes(q) + c.len
           /\ q # <<>> => Fifo!Bytes(q) = q[1].len + Fifo!Bytes(Tail(q))
<1>1. PICK s \in [0 .. Len(q) -> Nat] : IsSum(q, s, Len(q))
  BY SumExists
<1>2. Fifo!Bytes(q) = s[Len(q)] /\ Len(q) \in Nat
  BY <1>1, BytesIsSum
<1>3. q = <<>> => Fifo!Bytes(q) = 0
  BY <1>1, <1>2 DEF IsSum
<1>4. ASSUME NEW c \in Chunks PROVE Fifo!Bytes(Append(q, c)) = Fifo!Bytes(q) + c.len
  <2> DEFINE r == Append(q, c)
             n == Len(q)
             t == [k \in 0 .. (n + 1) |-> IF k = n + 1 THEN s[n] + c.len ELSE s[k]]
  <2>1. /\ r \in Seq(Chunks) /\ Len(r) = n + 1 /\ r[n + 1] = c
        /\ \A k \in 1 .. n : r[k] = q[k]
    OBVIOUS
  <2>2. c.len \in Nat
    BY AudioAssumption DEF AudioAssumption
  <2>3. t \in [0 .. (n + 1) -> Nat]
    BY <1>1, <1>2, <2>2
  <2>4. IsSum(r, t, n + 1)
    <3>1. t[0] = 0
      BY <1>1, <1>2 DEF IsSum
    <3>2. ASSUME NEW k \in 1 .. (n + 1) PROVE t[k] = t[k - 1] + r[k].len
      <4>1. CASE k = n + 1
        BY <1>1, <1>2, <2>1, <4>1
      <4>2. CASE k # n + 1
        <5>1. k \in 1 .. n /\ k - 1 \in 0 .. n /\ k - 1 # n + 1
          BY <1>2, <4>2
        <5> QED  BY <1>1, <2>1, <5>1 DEF IsSum
      <4> QED  BY <4>1, <4>2
    <3> HIDE DEF t, r
    <3> QED  BY <3>1, <3>2 DEF IsSum
  <2>5. t[n + 1] = s[n] + c.len
    BY <1>2
  <2> HIDE DEF t, r
  <2>6. Fifo!Bytes(r) = t[n + 1]
    BY <2>1, <2>3, <2>4, BytesIsSum
  <2> QED  BY <1>2, <2>5, <2>6 DEF r
<1>5. ASSUME q # <<>> PROVE Fifo!Bytes(q) = q[1].len + Fifo!Bytes(Tail(q))
  <2> DEFINE r == Tail(q)
             n == Len(q)
  <2>1. /\ r \in Seq(Chunks) /\ n \in Nat \ {0} /\ Len(r) = n - 1
        /\ \A k \in 1 .. (n - 1) : r[k] = q[k + 1]
    BY <1>5
  <2> HIDE DEF r
  <2>2. PICK t \in [0 .. (n - 1) -> Nat] : IsSum(r, t, n - 1)
    BY <2>1, SumExists
  <2>3. q[1] \in Chunks /\ q[1].len \in Nat
    BY <1>5, <2>1, AudioAssumption DEF AudioAssumption
  <2> DEFINE T == {k \in 0 .. (n - 1) : s[k + 1] = q[1].len + t[k]}
  <2>4. 0 \in T
    BY <1>1, <2>1, <2>2, <2>3 DEF IsSum
  <2>5. ASSUME NEW k \in 0 .. ((n - 1) - 1), k \in T PROVE k + 1 \in T
    <3>1. /\ k + 1 \in 1 .. (n - 1) /\ k + 2 \in 1 .. n /\ (k + 1) - 1 = k
          /\ (k + 2) - 1 = k + 1 /\ (k + 1) + 1 = k + 2
      BY <2>1
    <3>2. s[k + 2] = s[k + 1] + q[k + 2].len /\ t[k + 1] = t[k] + r[k + 1].len
      BY <1>1, <2>2, <3>1 DEF IsSum
    <3>3. r[k + 1] = q[k + 2] /\ q[k + 2] \in Chunks /\ q[k + 2].len \in Nat /\ t[k] \in Nat
      <4>1. q[k + 2] \in Chunks
        BY <3>1
      <4>2. r[k + 1] = q[(k + 1) + 1]
        BY <2>1, <3>1
      <4>3. k \in 0 .. (n - 1) /\ (k + 1) + 1 = k + 2
        BY <2>1
      <4>4. q[k + 2].len \in Nat
        BY <4>1, AudioAssumption DEF AudioAssumption
      <4>5. t[k] \in Nat
        BY <2>2, <4>3
      <4>6. r[k + 1] = q[k + 2]
        BY <4>2, <4>3
      <4> QED  BY <4>1, <4>4, <4>5, <4>6
    <3> QED  BY <2>3, <2>5, <3>1, <3>2, <3>3
  <2>6. n - 1 \in T
    <3> DEFINE N == n - 1
    <3>1. N \in Nat /\ \A k \in 0 .. (N - 1) : k \in T => k + 1 \in T
      BY <2>1, <2>5
    <3> HIDE DEF T, N
    <3>2. 0 .. N \subseteq T
      BY <2>4, <3>1, UpTo
    <3>3. N \in T
      BY <3>1, <3>2
    <3> QED  BY <3>3 DEF N
  <2>7. Fifo!Bytes(r) = t[n - 1]
    BY <2>1, <2>2, BytesIsSum
  <2> QED  BY <1>2, <2>1, <2>6, <2>7 DEF r
<1> QED  BY <1>1, <1>2, <1>3, <1>4, <1>5

-----------------------------------------------------------------------------
(* The list. *)

\* The largest of the numbers up to m.
LEMMA MaxOfRange == ASSUME NEW m \in Nat PROVE Max(0 .. m) = m
BY DEF Max

IsChain(nx, r, q, m) ==
    /\ q[0] = r /\ nx[q[m]] = NIL
    /\ \A k \in 1 .. m : nx[q[k - 1]] = q[k]
    /\ \A i, j \in 0 .. m : q[i] = q[j] => i = j

\* A chain of different nodes that ends with NIL is the one ChainFrom follows.
LEMMA ChainIs ==
    ASSUME NEW nx, NEW r, NEW m \in Nat, NEW q \in [0 .. m -> Nodes],
           IsChain(nx, r, q, m)
    PROVE  ChainFrom(nx, r) = q /\ m \in 0 .. Cardinality(Nodes)
<1> USE AudioAssumption DEF AudioAssumption, IsChain
<1> DEFINE C == Cardinality(Nodes)
           G(h) == [k \in 0 .. C |-> IF k = 0 THEN r
                                     ELSE IF h[k - 1] = NIL THEN NIL ELSE nx[h[k - 1]]]
           f == [k \in 0 .. C |-> IF k <= m THEN q[k] ELSE NIL]
           F == CHOOSE h : h = G(h)
<1>1. C \in Nat /\ m + 1 <= C
  <2>1. q \in Injection(0 .. m, Nodes)
    BY DEF Injection, IsInjective
  <2>2. IsFiniteSet(0 .. m) /\ Cardinality(0 .. m) = m + 1
    BY FS_Interval
  <2> QED  BY <2>1, <2>2, FS_Injection, FS_CardinalityType
<1>2. f = G(f)
  <2>1. ASSUME NEW k \in 0 .. C PROVE f[k] = G(f)[k]
    <3>1. CASE k = 0
      BY <3>1
    <3>2. CASE k # 0 /\ k <= m
      BY <1>1, <3>2
    <3>3. CASE k = m + 1
      BY <1>1, <3>3
    <3>4. CASE k > m + 1
      BY <1>1, <3>4
    <3> QED  BY <1>1, <3>1, <3>2, <3>3, <3>4
  <2> QED  BY <2>1
<1>3. F = G(F)
  <2> HIDE DEF G, f
  <2> QED  BY <1>2
<1> DEFINE last == Max({k \in DOMAIN F : F[k] # NIL})
<1>4. ChainFrom(nx, r) = [k \in 0 .. last |-> F[k]]
  BY DEF ChainFrom
<1> DEFINE T == {k \in 0 .. C : F[k] = f[k]}
<1>5. \A k \in 0 .. C : F[k] = IF k = 0 THEN r
                               ELSE IF F[k - 1] = NIL THEN NIL ELSE nx[F[k - 1]]
  <2> HIDE DEF F
  <2> QED  BY <1>3
<1>6. \A k \in 0 .. C : f[k] = IF k = 0 THEN r
                               ELSE IF f[k - 1] = NIL THEN NIL ELSE nx[f[k - 1]]
  <2> HIDE DEF f
  <2> QED  BY <1>2
<1>7. DOMAIN F = 0 .. C
  <2> HIDE DEF F
  <2> QED  BY <1>3
<1>8. \A k \in 0 .. C : f[k] = IF k <= m THEN q[k] ELSE NIL
  OBVIOUS
<1> HIDE DEF F, f, G
<1>9. 0 .. C \subseteq T
  <2>1. 0 \in T
    BY <1>1, <1>5, <1>6
  <2>2. ASSUME NEW k \in 0 .. (C - 1), k \in T PROVE k + 1 \in T
    <3>1. k + 1 \in 0 .. C /\ k + 1 # 0 /\ (k + 1) - 1 = k
      BY <1>1
    <3> QED  BY <1>5, <1>6, <2>2, <3>1
  <2> HIDE DEF T, C
  <2> QED  BY <1>1, <2>1, <2>2, UpTo
<1>10. \A k \in 0 .. C : F[k] = IF k <= m THEN q[k] ELSE NIL
  BY <1>8, <1>9
<1>11. {k \in DOMAIN F : F[k] # NIL} = 0 .. m
  BY <1>1, <1>7, <1>10
<1>12. [k \in 0 .. m |-> F[k]] = q
  BY <1>1, <1>10
<1>13. last = m
  BY <1>11, MaxOfRange
<1> HIDE DEF last
<1>14. ChainFrom(nx, r) = q
  BY <1>4, <1>12, <1>13
<1> QED  BY <1>1, <1>14

\* What waits, by the nodes of the list.
Along(q, m) == [k \in 1 .. m |-> chunk[q[k]]]

\* A list whose nodes are known: Chain and Queue are those nodes and their chunks.
LEMMA QueueIs ==
    ASSUME NEW m \in Nat, NEW q \in [0 .. m -> Nodes], Linked(q, m)
    PROVE  Chain = q /\ Queue = Along(q, m) /\ Queue \in Seq(Chunks) /\ Len(Queue) = m
<1>1. Chain = q /\ DOMAIN Chain = 0 .. m
  <2>1. IsChain(next, rd, q, m)
    BY DEF Linked, IsChain
  <2>2. ChainFrom(next, rd) = q
    BY <2>1, ChainIs
  <2> QED  BY <2>2 DEF Chain
<1>2. Queue = Along(q, m)
  <2>1. Max(DOMAIN Chain) = m
    BY <1>1, MaxOfRange
  <2> QED  BY <1>1, <2>1 DEF Queue, Along
<1>3. Along(q, m) \in Seq(Chunks) /\ Len(Along(q, m)) = m
  BY DEF Linked, Along
<1> QED  BY <1>1, <1>2, <1>3

\* The same, of the state after a step: any list that hangs together there is the
\* one the invariant asks for.
LEMMA QueueIsNext ==
    ASSUME NEW m \in Nat, NEW q \in [0 .. m -> Nodes], Linked(q, m)'
    PROVE  /\ Queue' = Along(q, m)' /\ Queue' \in Seq(Chunks) /\ Len(Queue') = m
           /\ \E n \in 0 .. Cardinality(Nodes) : \E r \in [0 .. n -> Nodes] : Linked(r, n)'
<1>1. Chain' = q /\ DOMAIN Chain' = 0 .. m /\ m \in 0 .. Cardinality(Nodes)
  <2>1. IsChain(next', rd', q, m)
    BY DEF Linked, IsChain
  <2>2. ChainFrom(next', rd') = q /\ m \in 0 .. Cardinality(Nodes)
    BY <2>1, ChainIs
  <2> QED  BY <2>2 DEF Chain
<1>2. Queue' = Along(q, m)'
  <2>1. Max(DOMAIN Chain') = m
    BY <1>1, MaxOfRange
  <2> QED  BY <1>1, <2>1 DEF Queue, Along
<1>3. Along(q, m)' \in Seq(Chunks) /\ Len(Along(q, m)') = m
  BY DEF Linked, Along
<1> QED  BY <1>1, <1>2, <1>3

\* What the properties and the steps take from a list that is as the invariant says.
LEMMA CountedIs ==
    ASSUME NEW m \in Nat, NEW q \in [0 .. m -> Nodes], Linked(q, m), TypeOK, ControlOK, Counted
    PROVE  /\ Queue = Along(q, m) /\ Queue \in Seq(Chunks) /\ Len(Queue) = m
           /\ buffered + (IF spc = "count" THEN item.len ELSE 0) = Fifo!Bytes(Queue)
           /\ m = 0 => rd = wr
           /\ \A k \in 0 .. m : q[k] \in alloc
BY QueueIs DEF Linked, Counted, Fifo!Waiting

-----------------------------------------------------------------------------
(* Steps. *)

\* What a step is to do to the invariant, and to the queue.
Promise == AudioInv' /\ [Fifo!Next]_<<Queue, Playing>>

Bounded == buffered > MAX_BUFFERED => \E c \in Chunks : buffered <= MAX_BUFFERED + c.len

\* A step that leaves the list and the count alone.
LEMMA SameList ==
    ASSUME NEW m \in Nat, NEW q \in [0 .. m -> Nodes], Linked(q, m), AudioInv,
           UNCHANGED <<list, buffered, node>>,
           spc' = "link" <=> spc = "link", spc' = "count" <=> spc = "count",
           spc = "count" => item' = item,
           TypeOK', ControlOK', Playing' = Playing
    PROVE  Promise
<1>1. Linked(q, m)'
  BY DEF Linked, list
<1>2. Queue' = Queue
  BY DEF Queue, Chain, list
<1>3. Counted'
  BY <1>2 DEF AudioInv, Counted, Fifo!Waiting, list
<1>4. Bounded'
  BY DEF AudioInv, Bounded
<1> QED  BY <1>1, <1>2, <1>3, <1>4, QueueIsNext DEF Promise, AudioInv, Bounded

\* malloc in mpeg_submit_chunk: a node that is in no list yet.
LEMMA SubmitNewKeeps ==
    ASSUME NEW m \in Nat, NEW q \in [0 .. m -> Nodes], Linked(q, m), AudioInv, SubmitNew
    PROVE  Promise
<1> USE AudioAssumption DEF AudioAssumption, AudioInv
<1>1. node' \in Nodes \ alloc
  BY DEF SubmitNew, Malloc, TypeOK
<1>2. /\ alloc = {q[k] : k \in 0 .. m} /\ spc = "check" /\ spc' = "link"
      /\ \A k \in 0 .. m : q[k] # node' /\ q[k] \in Nodes
  <2>1. alloc = {q[k] : k \in 0 .. m} /\ spc = "check" /\ spc' = "link"
    BY DEF Linked, SubmitNew
  <2>2. \A k \in 0 .. m : q[k] \in alloc
    BY <2>1
  <2> QED  BY <1>1, <2>1, <2>2
<1>3. \A k \in 0 .. m : next'[q[k]] = next[q[k]] /\ chunk'[q[k]] = chunk[q[k]]
  BY <1>2 DEF SubmitNew, TypeOK
<1>4. Linked(q, m)'
  <2>1. UNCHANGED <<rd, wr>> /\ alloc' = alloc \cup {node'}
    BY DEF SubmitNew
  <2>2. next'[wr] = NIL
    BY <1>3 DEF Linked
  <2>3. \A k \in 1 .. m : next'[q[k - 1]] = q[k] /\ chunk'[q[k]] \in Chunks
    BY <1>3 DEF Linked
  <2> QED  BY <1>2, <2>1, <2>2, <2>3 DEF Linked
<1>5. Queue' = Queue
  <2>1. Queue' = Along(q, m)' /\ Queue = Along(q, m)
    BY <1>4, QueueIs, QueueIsNext
  <2>2. \A k \in 1 .. m : chunk'[q[k]] = chunk[q[k]]
    BY <1>3
  <2> HIDE DEF AudioAssumption, AudioInv
  <2>3. Along(q, m)' = Along(q, m)
    BY <2>2, Zenon DEF Along
  <2> QED  BY <2>1, <2>3
<1>6. TypeOK'
  BY <1>1 DEF TypeOK, ControlOK, SubmitNew
<1>7. ControlOK'
  <2>1. A # NIL => next'[rd] = next[rd]
    BY <1>2, <1>3 DEF Linked
  <2> QED  BY <1>1, <2>1 DEF ControlOK, TypeOK, SubmitNew, Playing, play
<1>8. Counted'
  BY <1>2, <1>5 DEF Counted, Fifo!Waiting, SubmitNew
<1>9. Bounded' /\ Playing' = Playing
  BY DEF Bounded, SubmitNew, Playing, play
<1> QED  BY <1>4, <1>5, <1>6, <1>7, <1>8, <1>9, QueueIsNext DEF Promise, Bounded

\* wr->next = ...: the new node becomes the last, and the chunk one that waits.
LEMMA SubmitLinkKeeps ==
    ASSUME NEW m \in Nat, NEW q \in [0 .. m -> Nodes], Linked(q, m), AudioInv, SubmitLink
    PROVE  Promise
<1> USE AudioAssumption DEF AudioAssumption, AudioInv
<1>1. /\ spc = "link" /\ spc' = "count" /\ node \in Nodes /\ item \in Chunks
      /\ chunk[node] = item /\ next[node] = NIL /\ lock = "submit"
      /\ next' = [next EXCEPT ![wr] = node] /\ wr' = node
      /\ UNCHANGED <<alloc, chunk, rd, buffered, lock, run_player, item, node, play>>
      /\ buffered <= MAX_BUFFERED /\ sreg' = buffered
  BY DEF SubmitLink, ControlOK
<1>2. PICK r \in [0 .. (m + 1) -> Nodes] : r[m + 1] = node /\ \A k \in 0 .. m : r[k] = q[k]
  <2> DEFINE f == [k \in 0 .. (m + 1) |-> IF k = m + 1 THEN node ELSE q[k]]
  <2>1. f \in [0 .. (m + 1) -> Nodes] /\ f[m + 1] = node /\ \A k \in 0 .. m : f[k] = q[k]
    BY <1>1
  <2> HIDE DEF f
  <2> QED  BY <2>1
<1>3. /\ \A k \in 0 .. m : q[k] # node /\ q[k] \in Nodes
      /\ wr = q[m] /\ \A k \in 0 .. (m - 1) : q[k] # wr
  BY <1>1 DEF Linked
<1>4. next'[node] = NIL /\ next'[wr] = node /\ \A k \in 0 .. (m - 1) : next'[q[k]] = next[q[k]]
  BY <1>1, <1>3 DEF TypeOK
<1>5. Linked(r, m + 1)'
  <2>1. r[0] = rd' /\ r[m + 1] = wr' /\ next'[wr'] = NIL
    BY <1>1, <1>2, <1>4, SMTT(30) DEF Linked
  <2>2. \A i, j \in 0 .. (m + 1) : r[i] = r[j] => i = j
    BY <1>2, <1>3 DEF Linked
  <2>3. ASSUME NEW k \in 1 .. (m + 1) PROVE next'[r[k - 1]] = r[k] /\ chunk'[r[k]] \in Chunks
    <3>1. CASE k = m + 1
      BY <1>1, <1>2, <1>3, <1>4, <3>1
    <3>2. CASE k # m + 1
      <4>1. k \in 1 .. m /\ k - 1 \in 0 .. (m - 1) /\ k - 1 \in 0 .. m /\ k \in 0 .. m
        BY <3>2
      <4> QED  BY <1>1, <1>2, <1>4, <4>1 DEF Linked
    <3> QED  BY <3>1, <3>2
  <2>4. alloc' = {r[k] : k \in 0 .. (m + 1)}
    <3>1. alloc = {q[k] : k \in 0 .. m} \cup {node}
      BY <1>1 DEF Linked
    <3>2. \A k \in 0 .. m : k \in 0 .. (m + 1)
      OBVIOUS
    <3>3. m + 1 \in 0 .. (m + 1) /\ \A k \in 0 .. (m + 1) : k \in 0 .. m \/ k = m + 1
      OBVIOUS
    <3> QED  BY <1>1, <1>2, <3>1, <3>2, <3>3
  <2>5. alloc' = {r[k] : k \in 0 .. (m + 1)} \cup (IF spc' = "link" THEN {node'} ELSE {})
    BY <1>1, <2>4
  <2>6. (spc' = "link" => \A k \in 0 .. (m + 1) : r[k] # node') /\ (spc' = "count" => m + 1 # 0)
    BY <1>1
  <2> QED  BY <2>1, <2>2, <2>3, <2>5, <2>6 DEF Linked
<1>6. /\ Queue' = Append(Queue, item) /\ Queue \in Seq(Chunks)
      /\ buffered = Fifo!Bytes(Queue)
  <2>1. Queue' = Along(r, m + 1)'
    <3>1. m + 1 \in Nat
      OBVIOUS
    <3> QED  BY <1>2, <1>5, <3>1, QueueIsNext
  <2>4. Queue = Along(q, m) /\ Queue \in Seq(Chunks) /\ Len(Queue) = m
    BY QueueIs
  <2>5. buffered = Fifo!Bytes(Queue)
    BY <1>1 DEF Counted, Fifo!Waiting, TypeOK
  <2>2. Along(r, m + 1)' = [k \in 1 .. (m + 1) |-> chunk[r[k]]]
    BY <1>1 DEF Along
  <2>3. [k \in 1 .. (m + 1) |-> chunk[r[k]]] = Append(Along(q, m), item)
    BY <1>1, <1>2 DEF Along
  <2> QED  BY <2>1, <2>2, <2>3, <2>4, <2>5
<1>7. Fifo!Accept(item)
  BY <1>1, <1>6 DEF Fifo!Accept, Fifo!Waiting, Playing, play
<1>8. TypeOK'
  BY <1>1 DEF TypeOK
<1>9. ControlOK'
  <2>1. Playing => next'[rd] = next[rd]
    <3>1. Playing => m # 0
      BY DEF ControlOK, Linked
    <3> QED  BY <1>4, <3>1 DEF Linked
  <2> QED  BY <1>1, <2>1 DEF ControlOK, Playing, play
<1>10. Counted'
  BY <1>1, <1>6, BytesOf DEF Counted, Fifo!Waiting
<1>11. Bounded'
  BY <1>1 DEF Bounded, TypeOK
<1> QED  BY <1>1, <1>2, <1>5, <1>7, <1>8, <1>9, <1>10, <1>11, QueueIsNext
         DEF Promise, Bounded, Fifo!Next

\* buffered += len, with the mutex still held.
LEMMA SubmitCountKeeps ==
    ASSUME NEW m \in Nat, NEW q \in [0 .. m -> Nodes], Linked(q, m), AudioInv, SubmitCount
    PROVE  Promise
<1> USE AudioAssumption DEF AudioAssumption, AudioInv
<1>1. /\ spc = "count" /\ spc' = "idle" /\ lock = "submit" /\ lock' = "free"
      /\ buffered' = sreg + item.len /\ sreg = buffered /\ buffered <= MAX_BUFFERED
      /\ item \in Chunks /\ item.len \in Nat
      /\ UNCHANGED <<alloc, chunk, next, rd, wr, run_player, play>>
  BY DEF SubmitCount, ControlOK, list
<1>2. Linked(q, m)'
  BY <1>1 DEF Linked
<1>3. Queue' = Queue
  BY <1>1 DEF Queue, Chain
<1>4. Counted' /\ TypeOK'
  BY <1>1, <1>3 DEF Counted, Fifo!Waiting, TypeOK
<1>5. ControlOK'
  BY <1>1 DEF ControlOK, Playing, play
<1>6. Bounded' /\ Playing' = Playing
  BY <1>1 DEF Bounded, TypeOK, Playing, play
<1> QED  BY <1>2, <1>3, <1>4, <1>5, <1>6, QueueIsNext DEF Promise, Bounded

\* mpeg_play frees the node it stands on and goes on to the next.
LEMMA PlayConsumeKeeps ==
    ASSUME NEW m \in Nat, NEW q \in [0 .. m -> Nodes], Linked(q, m), AudioInv, PlayConsume
    PROVE  Promise
<1> USE AudioAssumption DEF AudioAssumption, AudioInv
<1>1. /\ ppc = "consume" /\ ppc' = "top" /\ lock = "play" /\ lock' = "free"
      /\ spc = "idle" /\ UNCHANGED <<wr, run_player, submit>>
      /\ A # NIL /\ A = next[rd] /\ preg = buffered
      /\ buffered' = preg - chunk[A].len /\ rd' = A /\ A' = NIL
      /\ alloc' = alloc \ {rd}
      /\ chunk' = [chunk EXCEPT ![rd] = NIL] /\ next' = [next EXCEPT ![rd] = NIL]
  BY DEF PlayConsume, ControlOK, Playing
<1>2. m # 0 /\ q[0] = rd /\ q[1] = A
  BY <1>1 DEF Linked
<1>3. m - 1 \in Nat /\ \A k \in 1 .. m : q[k] # rd /\ q[k] \in Nodes
  BY <1>2 DEF Linked
<1>4. PICK r \in [0 .. (m - 1) -> Nodes] : \A k \in 0 .. (m - 1) : r[k] = q[k + 1]
  <2> DEFINE f == [k \in 0 .. (m - 1) |-> q[k + 1]]
  <2>1. f \in [0 .. (m - 1) -> Nodes] /\ \A k \in 0 .. (m - 1) : f[k] = q[k + 1]
    BY <1>3
  <2> HIDE DEF f
  <2> QED  BY <2>1
<1>5. \A k \in 1 .. m : chunk'[q[k]] = chunk[q[k]] /\ next'[q[k]] = next[q[k]]
  BY <1>1, <1>3 DEF TypeOK
<1>6. Linked(r, m - 1)'
  <2>1. r[0] = rd' /\ r[m - 1] = wr' /\ next'[wr'] = NIL
    BY <1>1, <1>2, <1>3, <1>4, <1>5 DEF Linked, submit
  <2>2. ASSUME NEW i \in 0 .. (m - 1), NEW j \in 0 .. (m - 1), r[i] = r[j] PROVE i = j
    <3>1. i + 1 \in 0 .. m /\ j + 1 \in 0 .. m /\ r[i] = q[i + 1] /\ r[j] = q[j + 1]
      BY <1>3, <1>4
    <3>2. q[i + 1] = q[j + 1]
      BY <2>2, <3>1
    <3>3. \A a, b \in 0 .. m : q[a] = q[b] => a = b
      BY DEF Linked
    <3>4. i + 1 = j + 1
      BY <3>1, <3>2, <3>3
    <3> QED  BY <3>4
  <2>3. ASSUME NEW k \in 1 .. (m - 1) PROVE next'[r[k - 1]] = r[k] /\ chunk'[r[k]] \in Chunks
    <3>1. /\ k \in 0 .. (m - 1) /\ k - 1 \in 0 .. (m - 1) /\ (k - 1) + 1 = k
          /\ k + 1 \in 1 .. m /\ k \in 1 .. m /\ (k + 1) - 1 = k
      BY <1>3
    <3>2. r[k - 1] = q[k] /\ r[k] = q[k + 1]
      BY <1>4, <3>1
    <3>3. next[q[k]] = q[k + 1] /\ chunk[q[k + 1]] \in Chunks
      BY <3>1 DEF Linked
    <3> QED  BY <1>5, <3>1, <3>2, <3>3
  <2>4. alloc' = {r[k] : k \in 0 .. (m - 1)}
    <3>1. alloc = {q[k] : k \in 0 .. m}
      BY <1>1 DEF Linked
    <3>2. ASSUME NEW k \in 1 .. m PROVE q[k] \in {r[j] : j \in 0 .. (m - 1)}
      <4>1. k - 1 \in 0 .. (m - 1) /\ (k - 1) + 1 = k
        OBVIOUS
      <4> QED  BY <1>4, <4>1
    <3>3. ASSUME NEW k \in 0 .. (m - 1) PROVE r[k] \in alloc /\ r[k] # rd
      <4>1. k + 1 \in 1 .. m /\ k + 1 \in 0 .. m /\ r[k] = q[k + 1]
        BY <1>3, <1>4
      <4> QED  BY <1>3, <3>1, <4>1
    <3> QED  BY <1>1, <1>2, <3>1, <3>2, <3>3
  <2>5. alloc' = {r[k] : k \in 0 .. (m - 1)} \cup (IF spc' = "link" THEN {node'} ELSE {})
    BY <1>1, <2>4 DEF submit
  <2>6. spc' # "link" /\ spc' # "count"
    BY <1>1 DEF submit
  <2> QED  BY <2>1, <2>2, <2>3, <2>5, <2>6 DEF Linked
<1>7. Queue = Along(q, m) /\ Queue \in Seq(Chunks) /\ Len(Queue) = m
  BY QueueIs
<1>8. Queue # <<>> /\ Queue[1] = chunk[A] /\ chunk[A] \in Chunks /\ chunk[A].len \in Nat
  <2>1. 1 \in 1 .. m
    BY <1>2
  <2>2. Queue[1] = chunk[q[1]] /\ chunk[q[1]] \in Chunks
    BY <1>7, <2>1 DEF Along, Linked
  <2>3. Queue # <<>>
    BY <1>2, <1>7
  <2> QED  BY <1>2, <2>2, <2>3
<1>9. Queue' = Tail(Queue)
  <2>1. Queue' = Along(r, m - 1)' /\ Queue' \in Seq(Chunks) /\ Len(Queue') = m - 1
    BY <1>3, <1>4, <1>6, QueueIsNext
  <2>2. ASSUME NEW k \in 1 .. (m - 1) PROVE Queue'[k] = Tail(Queue)[k]
    <3>1. k \in 0 .. (m - 1) /\ k + 1 \in 1 .. m /\ r[k] = q[k + 1]
      BY <1>3, <1>4
    <3>2. Queue'[k] = chunk'[q[k + 1]]
      BY <2>1, <3>1 DEF Along
    <3>3. Queue[k + 1] = chunk[q[k + 1]]
      BY <1>7, <3>1 DEF Along
    <3> QED  BY <1>5, <1>7, <1>8, <3>1, <3>2, <3>3
  <2> QED  BY <1>7, <1>8, <2>1, <2>2
<1>10. Playing /\ ~Playing'
  BY <1>1 DEF Playing
<1>11. Fifo!Finish
  BY <1>9, <1>10 DEF Fifo!Finish
<1>12. /\ buffered = Fifo!Bytes(Queue) /\ Fifo!Bytes(Queue) = chunk[A].len + Fifo!Bytes(Tail(Queue))
       /\ Fifo!Bytes(Tail(Queue)) \in Nat
  <2>1. Tail(Queue) \in Seq(Chunks)
    BY <1>7, <1>8
  <2>2. buffered = Fifo!Bytes(Queue)
    BY <1>1 DEF Counted, Fifo!Waiting, TypeOK
  <2> QED  BY <1>7, <1>8, <2>1, <2>2, BytesOf
<1>13. buffered' = Fifo!Bytes(Queue') /\ buffered' \in Nat /\ buffered' <= buffered
  BY <1>1, <1>8, <1>9, <1>12
<1>14. Counted' /\ Bounded'
  BY <1>1, <1>13 DEF Counted, Fifo!Waiting, Bounded, TypeOK, submit
<1>15. TypeOK'
  BY <1>1, <1>2, <1>3, <1>13 DEF TypeOK
<1>16. ControlOK'
  BY <1>1 DEF ControlOK, Playing, submit
<1>17. \E n \in 0 .. Cardinality(Nodes) : \E f \in [0 .. n -> Nodes] : Linked(f, n)'
  BY <1>3, <1>4, <1>6, QueueIsNext
<1> QED  BY <1>11, <1>14, <1>15, <1>16, <1>17 DEF Promise, Bounded, Fifo!Next

\* Every step of either thread keeps the invariant and is a step of the fifo.
LEMMA AudioStep == ASSUME AudioInv, [Next]_vars PROVE Promise
<1>1. PICK m \in 0 .. Cardinality(Nodes) : \E q \in [0 .. m -> Nodes] : Linked(q, m)
  BY DEF AudioInv
<1>2. PICK q \in [0 .. m -> Nodes] : Linked(q, m)
  BY <1>1
<1>3. m \in Nat
  BY FS_CardinalityType, AudioAssumption DEF AudioAssumption
<1>4. ASSUME UNCHANGED <<list, buffered, node>>,
             spc' = "link" <=> spc = "link", spc' = "count" <=> spc = "count",
             spc = "count" => item' = item,
             ControlOK', lock' \in {"free", "submit", "play"}, Playing' = Playing
      PROVE  Promise
  <2>1. TypeOK'
    BY <1>4 DEF AudioInv, TypeOK, list
  <2> QED  BY <1>2, <1>3, <1>4, <2>1, SameList
<1> USE DEF AudioInv
<1>5. CASE \E c \in Chunks : SubmitLock(c)
  BY <1>4, <1>5 DEF SubmitLock, ControlOK, Playing, list, play
<1>6. CASE SubmitFull
  BY <1>4, <1>6 DEF SubmitFull, ControlOK, Playing, list, play
<1>7. CASE SubmitGoesOn
  BY <1>2, <1>3, <1>6, <1>7, SubmitNewKeeps, SubmitLinkKeeps, SubmitCountKeeps DEF SubmitGoesOn
<1>8. CASE PlayExit \/ PlayLock \/ PlaySleep
  BY <1>4, <1>8 DEF PlayExit, PlayLock, PlaySleep, ControlOK, TypeOK, Playing, list, submit
<1>9. CASE PlayWrite \/ PlayRelock
  BY <1>4, <1>9 DEF PlayWrite, PlayRelock, ControlOK, TypeOK, Playing, list, submit
<1>10. CASE PlayLook
  <2>1. /\ UNCHANGED <<list, buffered, run_player, submit>> /\ ppc = "look" /\ lock' = "free"
        /\ A' = next[rd] /\ ppc' = IF next[rd] = NIL THEN "sleep" ELSE "write"
    BY <1>10 DEF PlayLook
  <2>2. ControlOK'
    BY <1>10 DEF PlayLook, ControlOK, Playing, list, submit
  <2>3. CASE next[rd] = NIL
    BY <1>4, <2>1, <2>2, <2>3 DEF Playing, submit
  <2>4. CASE next[rd] # NIL
    <3>1. m # 0
      BY <1>2, <2>4 DEF Linked
    <3>2. Queue # <<>> /\ Queue' = Queue
      BY <1>2, <1>3, <2>1, <3>1, QueueIs DEF Queue, Chain, list
    <3>3. Fifo!Start
      BY <2>1, <2>4, <3>2 DEF Fifo!Start, Playing
    <3>4. Linked(q, m)' /\ Counted' /\ TypeOK'
      BY <1>2, <2>1, <3>2 DEF Linked, Counted, Fifo!Waiting, TypeOK, list, submit
    <3>5. Bounded'
      BY <2>1 DEF Bounded
    <3> QED  BY <1>3, <2>2, <3>3, <3>4, <3>5, QueueIsNext DEF Promise, Bounded, Fifo!Next
  <2> QED  BY <2>3, <2>4
<1>11. CASE PlayConsume
  BY <1>2, <1>3, <1>11, PlayConsumeKeeps
<1>12. CASE Stop \/ UNCHANGED vars
  BY <1>4, <1>12 DEF Stop, vars, ControlOK, TypeOK, Playing, list, submit, play
<1> QED  BY <1>5, <1>7, <1>8, <1>9, <1>10, <1>11, <1>12 DEF Next, Play

\* So does the state audio_init leaves.
LEMMA AudioStart == Init => AudioInv /\ Fifo!Init
<1> SUFFICES ASSUME Init PROVE AudioInv /\ Fifo!Init
  OBVIOUS
<1> USE AudioAssumption DEF AudioAssumption, Init
<1>1. rd \in Nodes
  BY DEF Malloc
<1>2. PICK q \in [0 .. 0 -> Nodes] : q[0] = rd
  <2> DEFINE f == [k \in 0 .. 0 |-> rd]
  <2>1. f \in [0 .. 0 -> Nodes] /\ f[0] = rd
    BY <1>1
  <2> HIDE DEF f
  <2> QED  BY <2>1
<1>3. Linked(q, 0) /\ TypeOK /\ ControlOK
  BY <1>1, <1>2 DEF Linked, TypeOK, ControlOK, Playing
<1>4. Queue = <<>>
  BY <1>2, <1>3, QueueIs, SMTT(30)
<1>5. Counted
  BY <1>4, BytesOf DEF Counted, Fifo!Waiting
<1>6. 0 \in 0 .. Cardinality(Nodes)
  BY FS_CardinalityType
<1>7. AudioInv
  <2>1. \E m \in 0 .. Cardinality(Nodes) : \E f \in [0 .. m -> Nodes] : Linked(f, m)
    BY <1>2, <1>3, <1>6
  <2>2. ~(buffered > MAX_BUFFERED)
    OBVIOUS
  <2> QED  BY <1>3, <1>5, <2>1, <2>2 DEF AudioInv
<1>8. Fifo!Init
  BY <1>4 DEF Fifo!Init, Playing
<1> QED  BY <1>7, <1>8

-----------------------------------------------------------------------------
(* Theorems. *)

\* AudioInv holds at first and after every step of either thread.
THEOREM AudioInvariance == Spec => []AudioInv
<1>1. AudioInv /\ [Next]_vars => AudioInv'
  BY AudioStep DEF Promise
<1> QED  BY AudioStart, <1>1, PTL DEF Spec

\* The types of the queue's variables.
THEOREM AudioTypeOK == Spec => []TypeOK
<1>1. AudioInv => TypeOK
  BY DEF AudioInv
<1> QED  BY AudioInvariance, <1>1, PTL

\* Nothing dangles and nothing leaks: what is allocated is the chain from rd to wr,
\* and the chunk about to be linked. (mpeg_submit_chunk, mpeg_play)
THEOREM ListStaysIntact == Spec => []ListIntact
<1>1. AudioInv => ListIntact
  <2> SUFFICES ASSUME AudioInv PROVE ListIntact
    OBVIOUS
  <2>1. PICK m \in 0 .. Cardinality(Nodes) : \E q \in [0 .. m -> Nodes] : Linked(q, m)
    BY DEF AudioInv
  <2>2. PICK q \in [0 .. m -> Nodes] : Linked(q, m)
    BY <2>1
  <2>3. m \in Nat
    BY FS_CardinalityType, AudioAssumption DEF AudioAssumption
  <2>4. Chain = q
    BY <2>2, <2>3, QueueIs
  <2>5. {q[k] : k \in 0 .. m} = {rd} \cup Queued
    BY <2>2, <2>3, <2>4 DEF Linked, Queued
  <2>6. A # NIL => A = next[rd]
    BY DEF AudioInv, ControlOK
  <2>7. wr \in {q[k] : k \in 0 .. m}
    BY <2>2, <2>3 DEF Linked
  <2> QED  BY <2>2, <2>5, <2>6, <2>7 DEF Linked, ListIntact
<1> QED  BY AudioInvariance, <1>1, PTL

\* With nobody inside, the count is what waits, and that is at most one chunk more
\* than MAX_BUFFERED. (buffered in mpeg_submit_chunk and mpeg_play)
THEOREM CountStaysRight == Spec => []CountIsWaiting
<1>1. AudioInv => CountIsWaiting
  BY DEF AudioInv, ControlOK, Counted, CountIsWaiting, TypeOK
<1> QED  BY AudioInvariance, <1>1, PTL

\* The list with its pointers implements BoundedFifo. (playaudio.c)
THEOREM QueuePlaysInOrder == Spec => PlaysInOrder
<1>1. AudioInv /\ [Next]_vars => [Fifo!Next]_<<Queue, Playing>>
  BY AudioStep DEF Promise
<1> QED  BY AudioInvariance, AudioStart, <1>1, PTL DEF Spec, PlaysInOrder, Fifo!Spec

-----------------------------------------------------------------------------
(* The other half of playaudio.c: the manager and its players.             *)

CONSTANT MaxPlayers
VARIABLES main, manager, runs, mpeg_mgr_pid, pending, players, mine

Processes == INSTANCE AudioManager WITH run_player <- runs

\* The manager has run_player set and does not know itself, so the handler leaves
\* that as it is.
ManagerInv ==
    /\ runs \in [{"driftnet", "manager"} -> BOOLEAN] /\ runs["manager"]
    /\ mpeg_mgr_pid \in [{"driftnet", "manager"} -> Int] /\ mpeg_mgr_pid["manager"] = 0
    /\ manager \in {"loop", "wait", "sleep"}

\* ManagerInv is an invariant.
LEMMA ManagerInvariance == Processes!Spec => []ManagerInv
<1>1. Processes!Init => ManagerInv
  BY DEF Processes!Init, Processes!Process, ManagerInv
<1>2. ManagerInv /\ [Processes!Next]_(Processes!vars) => ManagerInv'
  <2> SUFFICES ASSUME ManagerInv, [Processes!Next]_(Processes!vars) PROVE ManagerInv'
    OBVIOUS
  <2>1. CASE Processes!MainSignal \/ Processes!MainExit
    BY <2>1 DEF ManagerInv, Processes!MainSignal, Processes!MainExit, Processes!Stopped
  <2>2. CASE Processes!ManagerStart \/ Processes!ManagerWake
    BY <2>2 DEF ManagerInv, Processes!ManagerStart, Processes!ManagerWake
  <2>3. CASE Processes!ManagerReap \/ Processes!ManagerInterrupted
    BY <2>3 DEF ManagerInv, Processes!ManagerReap, Processes!ManagerInterrupted,
                Processes!AfterWait, Processes!Stopped
  <2>4. CASE Processes!ManagerSignal
    BY <2>4 DEF ManagerInv, Processes!ManagerSignal, Processes!Stopped
  <2>5. CASE Processes!ManagerAbort
    BY <2>5 DEF ManagerInv, Processes!ManagerAbort
  <2>6. CASE Processes!PlayerEnds \/ UNCHANGED Processes!vars
    BY <2>6 DEF ManagerInv, Processes!PlayerEnds, Processes!vars
  <2> QED  BY <2>1, <2>2, <2>3, <2>4, <2>5, <2>6 DEF Processes!Next, Processes!Manager
<1> QED  BY <1>1, <1>2, PTL DEF Processes!Spec

\* What the comment in stop_mpeg_player promises is never so: whenever driftnet is
\* told to stop, and however many players there may be, the manager goes on.
\* (terminate_on_signal in the manager, mpeg_player_manager's loop)
THEOREM ManagerNeverStops ==
    Processes!Spec /\ <>(main = "stopping") => ~Processes!ManagerStops
<1>1. ManagerInv => ~(manager = "gone")
  BY DEF ManagerInv
<1> QED  BY <1>1, ManagerInvariance, PTL DEF Processes!ManagerStops
=============================================================================
