-------------------------- MODULE PcapEngineProofs --------------------------
(***************************************************************************)
(* Proofs about the capture thread: the inductive invariant Inv of module  *)
(* PcapEngine holds for every set of packets, every size of the table,     *)
(* every limit and every answer of the clock.                              *)
(***************************************************************************)
EXTENDS PcapEngine, ProofLemmas

-----------------------------------------------------------------------------
(* What a push does to the block list, for every list of separated blocks    *)
(* and every segment.                                                        *)

\* The block with the smallest offset in a nonempty set of blocks.
LEMMA FirstBlockExists ==
    ASSUME NEW S \in SUBSET Block, S # {}
    PROVE  \E b \in S : \A x \in S : b.off <= x.off
<1> DEFINE offs == {b.off : b \in S}
<1>1. offs \in SUBSET Nat /\ offs # {}
  BY DEF Block
<1>2. PICK o \in offs : \A p \in offs : o <= p
  BY <1>1, SmallestExists
<1> QED  BY <1>2

\* A block of a combined list begins before its end.
LEMMA EndOfBlock ==
    ASSUME NEW b \in Block
    PROVE  End(b) \in Nat /\ b.off \in Nat /\ b.off < End(b)
BY DEF Block, End

\* Combining a block with one that begins at or after it gives a block from the
\* start of the first to the end of the second.
LEMMA CombineIsBlock ==
    ASSUME NEW b \in Block, NEW next \in Block, b.off <= next.off
    PROVE  LET w == Combine(b, next)
           IN  w \in Block /\ w.dirty /\ w.off = b.off /\ End(w) = End(next)
BY DEF Block, Combine, End

\* The block of a segment alone.
LEMMA NewBlockIsBlock ==
    ASSUME NEW off \in Nat, NEW len \in Nat \ {0}
    PROVE  LET w == NewBlock(off, len)
           IN  w \in Block /\ w.dirty /\ w.off = off /\ End(w) = off + len
BY DEF Block, NewBlock, End

-----------------------------------------------------------------------------
\* A push replaces the blocks `gone' by one dirty block `w', which starts and
\* ends where either the segment or one of those blocks does, covers nothing but
\* what those and the segment covered, and touches no block that stays.
LEMMA PushBlockResult ==
    ASSUME NEW blocks \in SUBSET Block, Separated(blocks),
           NEW off \in Nat, NEW len \in Nat \ {0}
    PROVE  \E gone \in SUBSET blocks, w \in Block :
              /\ PushBlock(blocks, off, len) = (blocks \ gone) \cup {w}
              /\ w.dirty
              /\ Extent(w) \subseteq Covered(gone) \cup off .. (off + len - 1)
              /\ \A x \in blocks \ gone : End(x) < w.off \/ End(w) < x.off
              /\ (Covered(blocks) \cap off .. (off + len - 1) = {}) =>
                    Covered(gone) \cup off .. (off + len - 1) \subseteq Extent(w)
<1> DEFINE left  == Absorber(blocks, off)
           right == Absorbed(blocks, off, len)
           l     == CHOOSE b \in left : TRUE
           r     == CHOOSE b \in right : TRUE
           fresh == NewBlock(off, len)
           first == IF left = {} THEN fresh ELSE Combine(l, fresh)
           whole == IF right = {} THEN first ELSE Combine(first, r)
<1>1. PushBlock(blocks, off, len) = (blocks \ (left \cup right)) \cup {whole}
  BY DEF PushBlock
<1>2. left \subseteq blocks /\ right \subseteq blocks
  BY DEF Absorber, Absorbed
<1>3. fresh \in Block /\ fresh.dirty /\ fresh.off = off /\ End(fresh) = off + len
  BY NewBlockIsBlock
<1>4. left # {} => /\ l \in left /\ l \in Block /\ l.off < off /\ off <= End(l)
                   /\ \A x \in left : x = l
  <2> SUFFICES ASSUME left # {}
               PROVE  /\ l \in left /\ l \in Block /\ l.off < off /\ off <= End(l)
                      /\ \A x \in left : x = l
    OBVIOUS
  <2>1. l \in left
    OBVIOUS
  <2>2. l \in Block /\ l.off < off /\ off <= End(l)
    BY <2>1 DEF Absorber
  <2>3. ASSUME NEW x \in left, x # l PROVE FALSE
    BY <2>1, <2>3, <1>2, EndOfBlock DEF Absorber, Separated
  <2> QED  BY <2>1, <2>2, <2>3
<1>5. right # {} => /\ r \in right /\ r \in Block /\ off <= r.off /\ r.off <= off + len
                    /\ \A x \in blocks : off <= x.off => r.off <= x.off
                    /\ \A x \in right : x = r
  <2> SUFFICES ASSUME right # {}
               PROVE  /\ r \in right /\ r \in Block /\ off <= r.off /\ r.off <= off + len
                      /\ \A x \in blocks : off <= x.off => r.off <= x.off
                      /\ \A x \in right : x = r
    OBVIOUS
  <2>1. r \in right
    OBVIOUS
  <2>2. /\ r \in Block /\ off <= r.off /\ r.off <= off + len
        /\ \A x \in blocks : off <= x.off => r.off <= x.off
    BY <2>1 DEF Absorbed
  <2>3. ASSUME NEW x \in right, x # r PROVE FALSE
    <3>1. x \in blocks /\ r \in blocks /\ off <= x.off /\ x.off <= r.off /\ r.off <= x.off
      BY <2>1, <2>2 DEF Absorbed
    <3> QED  BY <3>1, <2>3, EndOfBlock DEF Separated
  <2> QED  BY <2>1, <2>2, <2>3
<1>6. /\ first \in Block /\ first.dirty /\ End(first) = off + len
      /\ first.off = IF left = {} THEN off ELSE l.off
  <2>1. CASE left = {}  BY <2>1, <1>3
  <2>2. CASE left # {}  BY <2>2, <1>3, <1>4, CombineIsBlock DEF Block
  <2> QED  BY <2>1, <2>2
<1>7. /\ whole \in Block /\ whole.dirty /\ whole.off = first.off
      /\ End(whole) = IF right = {} THEN off + len ELSE End(r)
  <2>1. CASE right = {}  BY <2>1, <1>6
  <2>2. CASE right # {}
    <3>1. first.off <= r.off
      BY <2>2, <1>4, <1>5, <1>6 DEF Block
    <3> QED  BY <2>2, <3>1, <1>5, <1>6, CombineIsBlock
  <2> QED  BY <2>1, <2>2
<1> DEFINE gone == left \cup right
           seg  == off .. (off + len - 1)
<1> HIDE DEF left, right, l, r, fresh, first, whole
<1>8. /\ left # {} => Extent(l) \subseteq Covered(gone)
      /\ right # {} => Extent(r) \subseteq Covered(gone)
  BY <1>4, <1>5 DEF Covered
<1>9. Extent(whole) \subseteq Covered(gone) \cup seg
  <2> SUFFICES ASSUME NEW o \in Extent(whole), o \notin seg
               PROVE  o \in Covered(gone)
    OBVIOUS
  <2>1. o \in Int /\ whole.off <= o /\ o < End(whole)
    BY <1>7, EndOfBlock DEF Extent
  <2>2. CASE o < off
    <3>1. left # {} /\ l.off <= o /\ o < End(l)
      BY <2>1, <2>2, <1>4, <1>6, <1>7, EndOfBlock
    <3>2. o \in Extent(l)
      BY <3>1, <2>1, <1>4, EndOfBlock DEF Extent
    <3> QED  BY <3>1, <3>2, <1>8
  <2>3. CASE off + len <= o
    <3>1. right # {} /\ r.off <= o /\ o < End(r)
      BY <2>1, <2>3, <1>5, <1>7, EndOfBlock
    <3>2. o \in Extent(r)
      BY <3>1, <2>1, <1>5, EndOfBlock DEF Extent
    <3> QED  BY <3>1, <3>2, <1>8
  <2> QED  BY <2>1, <2>2, <2>3
<1>10. ASSUME NEW x \in blocks \ gone
       PROVE  End(x) < whole.off \/ End(whole) < x.off
  <2>0. /\ x \in Block /\ x \notin left /\ x \notin right
        /\ x.off \in Nat /\ End(x) \in Nat /\ x.off < End(x)
    BY EndOfBlock
  <2>1. CASE x.off < off
    <3>1. End(x) < off
      BY <2>0, <2>1 DEF left, Absorber
    <3>2. CASE left = {}
      BY <3>1, <3>2, <1>6, <1>7
    <3>3. CASE left # {}
      <4>1. l \in blocks /\ x # l
        BY <3>3, <1>2, <1>4, <2>0
      <4>2. End(x) < l.off \/ End(l) < x.off
        BY <4>1 DEF Separated
      <4>3. End(x) < l.off
        BY <4>2, <2>0, <3>1, <3>3, <1>4, EndOfBlock
      <4> QED  BY <4>3, <3>3, <1>6, <1>7
    <3> QED  BY <3>2, <3>3
  <2>2. CASE off <= x.off
    <3>1. CASE right # {}
      <4>1. r \in blocks /\ x # r /\ r.off <= x.off
        BY <3>1, <2>2, <1>2, <1>5, <2>0
      <4>2. End(x) < r.off \/ End(r) < x.off
        BY <4>1 DEF Separated
      <4>3. End(r) < x.off
        BY <4>1, <4>2, <2>0, <3>1, <1>5, EndOfBlock
      <4> QED  BY <4>3, <3>1, <1>7
    <3>2. CASE right = {}
      <4> DEFINE after == {b \in blocks : off <= b.off}
      <4>1. after \in SUBSET Block /\ after # {}
        BY <2>2
      <4>2. PICK b \in after : \A y \in after : b.off <= y.off
        BY <4>1, FirstBlockExists
      <4>3. b \notin Absorbed(blocks, off, len)
        BY <3>2 DEF right
      <4>4. ~(b.off <= off + len)
        BY <4>2, <4>3 DEF Absorbed
      <4>5. off + len < x.off
        BY <4>2, <4>4, <2>2, <2>0 DEF Block
      <4> QED  BY <4>5, <3>2, <1>7
    <3> QED  BY <3>1, <3>2
  <2> QED  BY <2>0, <2>1, <2>2
<1>11. ASSUME Covered(blocks) \cap seg = {}
       PROVE  Covered(gone) \cup seg \subseteq Extent(whole)
  <2>0. \A b \in blocks : \A o \in Extent(b) : o \notin seg
    BY <1>11 DEF Covered
  <2>1. left # {} => End(l) = off
    <3> SUFFICES ASSUME left # {}, off < End(l) PROVE FALSE
      BY <1>4, EndOfBlock
    <3>1. off \in Extent(l) /\ off \in seg
      BY <1>4, EndOfBlock DEF Extent
    <3> QED  BY <3>1, <2>0, <1>2, <1>4
  <2>2. right # {} => r.off = off + len
    <3> SUFFICES ASSUME right # {}, r.off < off + len PROVE FALSE
      BY <1>5, EndOfBlock
    <3>1. r.off \in Extent(r) /\ r.off \in seg
      BY <1>5, EndOfBlock DEF Extent
    <3> QED  BY <3>1, <2>0, <1>2, <1>5
  <2>3. whole.off <= off /\ off + len <= End(whole)
    BY <2>1, <2>2, <1>4, <1>5, <1>6, <1>7, EndOfBlock
  <2>4. seg \subseteq Extent(whole)
    BY <2>3, <1>7, EndOfBlock DEF Extent
  <2>5. ASSUME NEW b \in gone PROVE Extent(b) \subseteq Extent(whole)
    <3>1. CASE b \in left
      BY <3>1, <2>1, <2>3, <1>4, <1>6, <1>7, EndOfBlock DEF Extent
    <3>2. CASE b \in right
      BY <3>2, <2>2, <2>3, <1>5, <1>7, EndOfBlock DEF Extent
    <3> QED  BY <3>1, <3>2
  <2> QED  BY <2>4, <2>5 DEF Covered
<1>12. gone \in SUBSET blocks
  BY <1>2
<1> HIDE DEF gone, seg
<1>13. PushBlock(blocks, off, len) = (blocks \ gone) \cup {whole}
  BY <1>1 DEF gone
<1> QED  BY <1>7, <1>9, <1>10, <1>11, <1>12, <1>13 DEF seg

\* A push keeps the list a set of blocks that leave gaps between them.
LEMMA PushBlockSeparated ==
    ASSUME NEW blocks \in SUBSET Block, Separated(blocks),
           NEW off \in Nat, NEW len \in Nat \ {0}
    PROVE  /\ PushBlock(blocks, off, len) \in SUBSET Block
           /\ Separated(PushBlock(blocks, off, len))
<1>1. PICK gone \in SUBSET blocks, w \in Block :
         /\ PushBlock(blocks, off, len) = (blocks \ gone) \cup {w}
         /\ w.dirty
         /\ Extent(w) \subseteq Covered(gone) \cup off .. (off + len - 1)
         /\ \A x \in blocks \ gone : End(x) < w.off \/ End(w) < x.off
         /\ (Covered(blocks) \cap off .. (off + len - 1) = {}) =>
               Covered(gone) \cup off .. (off + len - 1) \subseteq Extent(w)
  BY PushBlockResult
<1> QED  BY <1>1 DEF Separated

\* A push covers nothing but what was covered and the segment.
LEMMA PushBlockCovers ==
    ASSUME NEW blocks \in SUBSET Block, Separated(blocks),
           NEW off \in Nat, NEW len \in Nat \ {0}
    PROVE  Covered(PushBlock(blocks, off, len))
              \subseteq Covered(blocks) \cup off .. (off + len - 1)
<1>1. PICK gone \in SUBSET blocks, w \in Block :
         /\ PushBlock(blocks, off, len) = (blocks \ gone) \cup {w}
         /\ Extent(w) \subseteq Covered(gone) \cup off .. (off + len - 1)
  BY PushBlockResult
<1> QED  BY <1>1 DEF Covered

\* A push of a segment that repeats nothing covers all of both.
LEMMA PushBlockCoversAll ==
    ASSUME NEW blocks \in SUBSET Block, Separated(blocks),
           NEW off \in Nat, NEW len \in Nat \ {0},
           Covered(blocks) \cap off .. (off + len - 1) = {}
    PROVE  Covered(PushBlock(blocks, off, len))
              = Covered(blocks) \cup off .. (off + len - 1)
<1>1. PICK gone \in SUBSET blocks, w \in Block :
         /\ PushBlock(blocks, off, len) = (blocks \ gone) \cup {w}
         /\ Extent(w) \subseteq Covered(gone) \cup off .. (off + len - 1)
         /\ Covered(gone) \cup off .. (off + len - 1) \subseteq Extent(w)
  BY PushBlockResult
<1> QED  BY <1>1 DEF Covered

-----------------------------------------------------------------------------
(* The inductive invariant.                                                  *)

\* What the invariant says of one connection.
ConnectionOK(c) ==
    /\ IsConnection(c, Addrs)
    /\ Separated(c.blocks)
    /\ Covered(c.blocks) \subseteq DOMAIN c.data

Clean(c) == \A b \in c.blocks : ~b.dirty

\* The invariant, connection by connection.
LEMMA ConnectionsOK == Inv <=>
    /\ TypeOK /\ ControlOK /\ OnlyCurrentDirty /\ OneConnectionPerPair /\ SweptBehind
    /\ \A i \in Live : ConnectionOK(slots[i])
BY DEF Inv, TypeOK, BlocksSeparated, SearchOnlyReceived, ConnectionOK

\* 32-bit arithmetic on two sequence numbers gives an offset.
LEMMA OffsetIsNat ==
    ASSUME NEW seq \in 0 .. (SeqSpace - 1), NEW isn \in 0 .. (SeqSpace - 1)
    PROVE  Offset(seq, isn) \in Nat
BY ConnectionAssumption DEF Offset

\* connection_new.
LEMMA NewConnectionOK ==
    ASSUME NEW p \in Packets, NEW now \in Nat
    PROVE  LET c == connection_new(p.src, p.dst, p.seq, now)
           IN  /\ ConnectionOK(c) /\ Clean(c)
               /\ c.src = p.src /\ c.dst = p.dst
<1> DEFINE c == connection_new(p.src, p.dst, p.seq, now)
<1>1. p.src \in Addrs /\ p.dst \in Addrs /\ p.seq \in 0 .. (SeqSpace - 1)
  BY PcapAssumption DEF Packet
<1>2. /\ c.blocks = {} /\ c.data = [o \in {} |-> 0] /\ DOMAIN c.data = {}
      /\ c.src = p.src /\ c.dst = p.dst
  BY DEF connection_new
<1>3. c.data \in [DOMAIN c.data -> Nat]
  BY <1>2
<1>4. c \in [src : Addrs, dst : Addrs, isn : 0 .. (SeqSpace - 1), len : Nat,
             fin : BOOLEAN, last : Nat, data : [DOMAIN c.data -> Nat],
             blocks : SUBSET Block]
  BY <1>1, <1>3 DEF connection_new
<1> HIDE DEF c
<1>5. IsConnection(c, Addrs)
  BY <1>2, <1>4 DEF IsConnection
<1>6. Separated(c.blocks) /\ Covered(c.blocks) \subseteq DOMAIN c.data /\ Clean(c)
  BY <1>2 DEF Separated, Covered, Clean
<1> QED  BY <1>2, <1>5, <1>6 DEF ConnectionOK, c

\* connection_push keeps a connection in order.
LEMMA PushKeepsConnectionOK ==
    ASSUME NEW c, IsConnection(c, Addrs), Separated(c.blocks),
           Covered(c.blocks) \subseteq DOMAIN c.data,
           NEW pos \in Nat, NEW off \in Nat, NEW len \in Nat \ {0}, NEW now \in Nat
    PROVE  LET d == connection_push(c, pos, off, len, now)
           IN  ConnectionOK(d) /\ d.src = c.src /\ d.dst = c.dst
<1> DEFINE d == connection_push(c, pos, off, len, now)
           bytes == CopyBytes(c.data, off, len, pos)
           pushed == PushBlock(c.blocks, off, len)
<1>1. /\ c \in [src : Addrs, dst : Addrs, isn : 0 .. (SeqSpace - 1), len : Nat,
                fin : BOOLEAN, last : Nat, data : [DOMAIN c.data -> Nat],
                blocks : SUBSET Block]
      /\ DOMAIN c.data \subseteq Nat
  BY DEF IsConnection
<1>2. c.blocks \in SUBSET Block /\ c.data \in [DOMAIN c.data -> Nat]
  BY <1>1
<1>3. /\ DOMAIN bytes = DOMAIN c.data \cup off .. (off + len - 1)
      /\ DOMAIN bytes \subseteq Nat
  BY <1>1 DEF CopyBytes
<1>4. bytes \in [DOMAIN bytes -> Nat]
  <2>1. \A o \in off .. (off + len - 1) : pos + (o - off) \in Nat
    OBVIOUS
  <2>2. \A o \in DOMAIN c.data : c.data[o] \in Nat
    BY <1>2
  <2> QED  BY <2>1, <2>2 DEF CopyBytes
<1>5. pushed \in SUBSET Block /\ Separated(pushed)
  BY <1>1, <1>2, PushBlockSeparated
<1>6. Covered(pushed) \subseteq DOMAIN bytes
  BY <1>1, <1>2, <1>3, PushBlockCovers
<1>7. /\ d.data = bytes /\ d.blocks = pushed /\ d.src = c.src /\ d.dst = c.dst
  BY DEF connection_push
<1> HIDE DEF bytes, pushed
<1>8. d \in [src : Addrs, dst : Addrs, isn : 0 .. (SeqSpace - 1), len : Nat,
             fin : BOOLEAN, last : Nat, data : [DOMAIN bytes -> Nat],
             blocks : SUBSET Block]
  <2>1. (IF off + len > c.len THEN off + len ELSE c.len) \in Nat
    BY <1>1
  <2> QED  BY <1>1, <1>4, <1>5, <2>1 DEF connection_push, bytes, pushed
<1> HIDE DEF d
<1> QED  BY <1>3, <1>5, <1>6, <1>7, <1>8 DEF ConnectionOK, IsConnection, d

-----------------------------------------------------------------------------
\* The table connection_alloc_slots leaves.
LEMMA InitInv == Init => Inv
<1> SUFFICES ASSUME Init PROVE Inv
  OBVIOUS
<1>1. Live = {} /\ slots = [i \in Live |-> slots[i]]
  BY DEF Init, Live
<1>2. TypeOK
  BY <1>1, PcapAssumption DEF Init, TypeOK
<1>3. ControlOK /\ OnlyCurrentDirty /\ OneConnectionPerPair /\ SweptBehind
  BY <1>1 DEF Init, ControlOK, OnlyCurrentDirty, OneConnectionPerPair, SweptBehind
<1> QED  BY <1>1, <1>2, <1>3, ConnectionsOK

\* find_connection and alloc_connection: the packet has a slot, which holds a
\* connection of its endpoints; nothing in the table waits to be searched, and no
\* two connections are of the same endpoints.
LEMMA TableForPacket ==
    ASSUME Inv, pc = "capture", NEW p \in Packets, NEW i \in 1 .. (slotsalloc + 1),
           SlotFor(p, i)
    PROVE  LET t == TableFor(p, i)
           IN  /\ DOMAIN t = Live \cup {i} /\ t = [j \in DOMAIN t |-> t[j]]
               /\ SlotsallocFor(i) \in Nat \ {0}
               /\ DOMAIN t \subseteq 1 .. SlotsallocFor(i)
               /\ \A j \in DOMAIN t : ConnectionOK(t[j]) /\ Clean(t[j])
               /\ t[i].src = p.src /\ t[i].dst = p.dst
               /\ \A j, k \in DOMAIN t :
                     t[j].src = t[k].src /\ t[j].dst = t[k].dst => j = k
<1> DEFINE t == TableFor(p, i)
           new == connection_new(p.src, p.dst, p.seq, clock)
<1>1. /\ slotsalloc \in Nat \ {0} /\ Live \subseteq 1 .. slotsalloc /\ clock \in Nat
      /\ slots = [j \in Live |-> slots[j]]
      /\ \A j \in Live : ConnectionOK(slots[j])
  BY ConnectionsOK DEF TypeOK
<1>2. \A j \in Live : Clean(slots[j])
  BY DEF Inv, OnlyCurrentDirty, Clean
<1>3. \A j, k \in Live :
         slots[j].src = slots[k].src /\ slots[j].dst = slots[k].dst => j = k
  BY DEF Inv, OneConnectionPerPair
<1>4. ConnectionOK(new) /\ Clean(new) /\ new.src = p.src /\ new.dst = p.dst
  BY <1>1, NewConnectionOK
<1> HIDE DEF new
<1>5. CASE Matching(p.src, p.dst) # {}
  <2>1. i \in Live /\ slots[i].src = p.src /\ slots[i].dst = p.dst
    BY <1>5 DEF SlotFor, First, Matching, Live
  <2>2. t = slots /\ SlotsallocFor(i) = slotsalloc
    BY <1>1, <2>1 DEF TableFor, SlotsallocFor, Live
  <2>3. DOMAIN slots = Live \cup {i}
    BY <2>1 DEF Live
  <2> HIDE DEF t
  <2> QED  BY <1>1, <1>2, <1>3, <2>1, <2>2, <2>3 DEF t, Live
<1>6. CASE Matching(p.src, p.dst) = {}
  <2>1. i \notin Live
    BY <1>1, <1>6 DEF SlotFor, First, FreeSlots, Live
  <2>2. \A j \in Live : ~(slots[j].src = p.src /\ slots[j].dst = p.dst)
    BY <1>6 DEF Matching, Live
  <2>3. t = [j \in Live \cup {i} |-> IF j = i THEN new ELSE slots[j]]
    BY <2>1 DEF TableFor, Live, new
  <2>4. SlotsallocFor(i) \in Nat \ {0} /\ slotsalloc <= SlotsallocFor(i)
        /\ i <= SlotsallocFor(i)
    BY <1>1 DEF SlotsallocFor
  <2> HIDE DEF t
  <2>5. /\ DOMAIN t = Live \cup {i} /\ t[i] = new
        /\ \A j \in Live : t[j] = slots[j]
    BY <2>1, <2>3
  <2>6. DOMAIN t \subseteq 1 .. SlotsallocFor(i)
    BY <1>1, <2>4, <2>5
  <2>7. t = [j \in DOMAIN t |-> t[j]]
    BY <2>3
  <2>8. \A j \in DOMAIN t : ConnectionOK(t[j]) /\ Clean(t[j])
    BY <1>1, <1>2, <1>4, <2>5
  <2>9. \A j, k \in DOMAIN t : t[j].src = t[k].src /\ t[j].dst = t[k].dst => j = k
    BY <1>3, <1>4, <2>2, <2>5
  <2> QED  BY <1>4, <2>4, <2>5, <2>6, <2>7, <2>8, <2>9 DEF t
<1> QED  BY <1>5, <1>6

\* A RST takes away connections and leaves the rest as it was.
LEMMA ResetStep ==
    ASSUME Inv, pc = "capture", NEW p \in Packets, NEW i \in 1 .. (slotsalloc + 1),
           SlotFor(p, i), ResetPacket(p, i)
    PROVE  Inv'
<1> DEFINE t == TableFor(p, i)
           u == Without(t, {i})
           back == {j \in DOMAIN u : u[j].src = p.dst /\ u[j].dst = p.src}
           gone == {j \in back : First(j, back)}
<1>1. /\ DOMAIN t = Live \cup {i} /\ SlotsallocFor(i) \in Nat \ {0}
      /\ DOMAIN t \subseteq 1 .. SlotsallocFor(i)
      /\ \A j \in DOMAIN t : ConnectionOK(t[j]) /\ Clean(t[j])
      /\ \A j, k \in DOMAIN t :
            t[j].src = t[k].src /\ t[j].dst = t[k].dst => j = k
  BY TableForPacket
<1>2. slots' = Without(u, gone) /\ slotsalloc' = SlotsallocFor(i)
  BY DEF ResetPacket
<1>3. UNCHANGED <<clock, pc, pkt, cur, ret, boff, ptr, oldptr, sweepnow>>
  BY DEF ResetPacket, scan, found
<1> HIDE DEF t, gone
<1>4. /\ Live' \subseteq DOMAIN t /\ slots' = [j \in Live' |-> slots'[j]]
      /\ \A j \in Live' : slots'[j] = t[j]
  BY <1>2 DEF Live, Without
<1>5. TypeOK'
  <2>1. \A j \in Live' : IsConnection(slots'[j], Addrs)
    BY <1>1, <1>4 DEF ConnectionOK
  <2>2. slotsalloc' \in Nat \ {0} /\ Live' \subseteq 1 .. slotsalloc'
    BY <1>1, <1>2, <1>4
  <2> QED  BY <1>3, <1>4, <2>1, <2>2 DEF Inv, TypeOK
<1>6. ControlOK' /\ SweptBehind'
  BY <1>3 DEF ControlOK, SweptBehind
<1>7. OnlyCurrentDirty' /\ OneConnectionPerPair'
  BY <1>1, <1>4 DEF OnlyCurrentDirty, OneConnectionPerPair, Clean
<1>8. BlocksSeparated' /\ SearchOnlyReceived'
  BY <1>1, <1>4 DEF BlocksSeparated, SearchOnlyReceived, ConnectionOK
<1> QED  BY <1>5, <1>6, <1>7, <1>8 DEF Inv

\* A segment with data: the connection it is pushed to stays in order, and is the
\* only one with blocks to search.
LEMMA DataStep ==
    ASSUME Inv, pc = "capture", NEW p \in Packets, NEW i \in 1 .. (slotsalloc + 1),
           SlotFor(p, i), DataPacket(p, i)
    PROVE  Inv'
<1> DEFINE t == TableFor(p, i)
           off == Offset(p.seq, t[i].isn)
           d == connection_push(t[i], p.pos, off, p.len, clock)
<1>1. /\ DOMAIN t = Live \cup {i} /\ SlotsallocFor(i) \in Nat \ {0}
      /\ DOMAIN t \subseteq 1 .. SlotsallocFor(i)
      /\ \A j \in DOMAIN t : ConnectionOK(t[j]) /\ Clean(t[j])
      /\ \A j, k \in DOMAIN t :
            t[j].src = t[k].src /\ t[j].dst = t[k].dst => j = k
  BY TableForPacket
<1>2. /\ slots' = [t EXCEPT ![i] = d] /\ slotsalloc' = SlotsallocFor(i)
      /\ pkt' = p /\ cur' = i /\ pc' = "extract" /\ ret' = "fin" /\ p.len > 0
      /\ UNCHANGED <<clock, boff, ptr, oldptr, sweepnow>>
  BY DEF DataPacket, scan, found
<1>3. p.len \in Nat \ {0} /\ p.pos \in Nat /\ p.seq \in 0 .. (SeqSpace - 1)
  BY <1>2, PcapAssumption DEF Packet
<1>4. t[i].isn \in 0 .. (SeqSpace - 1)
  BY <1>1 DEF ConnectionOK, IsConnection
<1>5. off \in Nat
  BY <1>3, <1>4, OffsetIsNat
<1>6. clock \in Nat
  BY DEF Inv, TypeOK
<1>7. ConnectionOK(d) /\ d.src = t[i].src /\ d.dst = t[i].dst
  <2>1. /\ IsConnection(t[i], Addrs) /\ Separated(t[i].blocks)
        /\ Covered(t[i].blocks) \subseteq DOMAIN t[i].data
    BY <1>1 DEF ConnectionOK
  <2> HIDE DEF t, off
  <2> QED  BY <2>1, <1>3, <1>5, <1>6, PushKeepsConnectionOK, Z3T(30)
<1> HIDE DEF t, off, d
<1>8. /\ Live' = Live \cup {i} /\ slots' = [j \in Live' |-> slots'[j]]
      /\ slots'[i] = d
      /\ \A j \in Live' : j # i => slots'[j] = t[j]
  BY <1>1, <1>2 DEF Live
<1>9. \A j \in Live' : ConnectionOK(slots'[j])
  BY <1>1, <1>7, <1>8
<1>10. TypeOK'
  <2>1. \A j \in Live' : IsConnection(slots'[j], Addrs)
    BY <1>9 DEF ConnectionOK
  <2> QED  BY <1>1, <1>2, <1>8, <2>1 DEF Inv, TypeOK
<1>11. ControlOK'
  BY <1>2, <1>8 DEF ControlOK
<1>12. SweptBehind'
  BY <1>2 DEF SweptBehind
<1>13. OnlyCurrentDirty'
  BY <1>1, <1>2, <1>8 DEF OnlyCurrentDirty, Clean
<1>14. OneConnectionPerPair'
  BY <1>1, <1>7, <1>8 DEF OneConnectionPerPair
<1>15. BlocksSeparated' /\ SearchOnlyReceived'
  BY <1>9 DEF BlocksSeparated, SearchOnlyReceived, ConnectionOK
<1> QED  BY <1>10, <1>11, <1>12, <1>13, <1>14, <1>15 DEF Inv

\* A segment without data, or with data too far ahead, changes no block.
LEMMA EmptyStep ==
    ASSUME Inv, pc = "capture", NEW p \in Packets, NEW i \in 1 .. (slotsalloc + 1),
           SlotFor(p, i), EmptyPacket(p, i)
    PROVE  Inv'
<1> DEFINE t == TableFor(p, i)
<1>1. /\ DOMAIN t = Live \cup {i} /\ t = [j \in DOMAIN t |-> t[j]]
      /\ SlotsallocFor(i) \in Nat \ {0} /\ DOMAIN t \subseteq 1 .. SlotsallocFor(i)
      /\ \A j \in DOMAIN t : ConnectionOK(t[j]) /\ Clean(t[j])
      /\ \A j, k \in DOMAIN t :
            t[j].src = t[k].src /\ t[j].dst = t[k].dst => j = k
  BY TableForPacket
<1>2. /\ slots' = t /\ slotsalloc' = SlotsallocFor(i)
      /\ pkt' = p /\ cur' = i /\ pc' = "fin"
      /\ UNCHANGED <<clock, ret, boff, ptr, oldptr, sweepnow>>
  BY DEF EmptyPacket, scan, found
<1> HIDE DEF t
<1>3. TypeOK'
  <2>1. \A j \in Live' : IsConnection(slots'[j], Addrs)
    BY <1>1, <1>2 DEF ConnectionOK, Live
  <2> QED  BY <1>1, <1>2, <2>1 DEF Inv, TypeOK, Live
<1>4. ControlOK' /\ SweptBehind'
  BY <1>1, <1>2 DEF ControlOK, SweptBehind, Live
<1>5. OnlyCurrentDirty' /\ OneConnectionPerPair'
  BY <1>1, <1>2 DEF OnlyCurrentDirty, OneConnectionPerPair, Clean, Live
<1>6. BlocksSeparated' /\ SearchOnlyReceived'
  BY <1>1, <1>2 DEF BlocksSeparated, SearchOnlyReceived, ConnectionOK, Live
<1> QED  BY <1>3, <1>4, <1>5, <1>6 DEF Inv

-----------------------------------------------------------------------------
\* The block being searched is there, and is the only one with its offset.
LEMMA ScannedBlock ==
    ASSUME Inv, pc = "scan"
    PROVE  /\ cur \in Live /\ Scanned \in Conn.blocks /\ Scanned \in Block
           /\ Scanned.off = boff /\ Conn.blocks \in SUBSET Block
<1>1. /\ cur \in Live /\ \E b \in slots[cur].blocks : b.off = boff
  BY DEF Inv, ControlOK
<1>2. IsConnection(slots[cur], Addrs)
  BY <1>1 DEF Inv, TypeOK
<1>3. Conn.blocks \in SUBSET Block
  BY <1>2 DEF Conn, IsConnection
<1>4. Scanned \in Conn.blocks /\ Scanned.off = boff
  BY <1>1 DEF Scanned, Conn
<1> QED  BY <1>1, <1>3, <1>4

\* The steps of a search that only move the search pointers.
LEMMA PointerStep ==
    ASSUME Inv, pc = "scan", ptr' \in Nat, boff <= ptr', oldptr' = ptr,
           UNCHANGED <<table, clock, pc, pkt, cur, ret, boff, sweepnow>>
    PROVE  Inv'
<1> USE DEF table
<1>1. TypeOK'
  BY DEF Inv, TypeOK, Live
<1>2. ControlOK'
  BY DEF Inv, ControlOK, Live
<1>3. OnlyCurrentDirty' /\ BlocksSeparated' /\ SearchOnlyReceived'
  BY DEF Inv, OnlyCurrentDirty, BlocksSeparated, SearchOnlyReceived, Live
<1>4. OneConnectionPerPair' /\ SweptBehind'
  BY DEF Inv, OneConnectionPerPair, SweptBehind, Live
<1> QED  BY <1>1, <1>2, <1>3, <1>4 DEF Inv

\* A file has a nonnegative length, and begins where the search looked for it.
LEMMA SignatureWithin ==
    ASSUME NEW c, NEW from \in Nat, NEW end \in Nat, NEW h \in Signatures(c, from, end)
    PROVE  h[1] \in Nat /\ from <= h[1] /\ h[2].len \in Nat
<1>1. h \in (from .. (end - HdrLen)) \X Media
  BY DEF Signatures
<1> QED  BY <1>1, PcapAssumption

\* A block is searched from moff on.
LEMMA ScanStep == Inv /\ Scan => Inv'
<1> SUFFICES ASSUME Inv, Scan PROVE Inv'
  OBVIOUS
<1>0. pc = "scan"
  BY DEF Scan, FindNothing, FindPart, FindMedia, ScanDone
<1>1. /\ cur \in Live /\ Scanned \in Conn.blocks /\ Scanned \in Block
      /\ Scanned.off = boff /\ Conn.blocks \in SUBSET Block
  BY <1>0, ScannedBlock
<1>2. ptr \in Nat /\ boff \in Nat /\ boff <= ptr /\ End(Scanned) \in Nat
  BY <1>0, <1>1, EndOfBlock DEF Inv, TypeOK, ControlOK
<1>3. CASE FindNothing
  <2>1. ptr' \in Nat /\ boff <= ptr'
    <3> DEFINE e == End(Scanned)
    <3>1. e \in Nat /\ ptr' = IF e - ptr < HdrLen THEN ptr ELSE e - HdrLen
      BY <1>2, <1>3 DEF FindNothing
    <3> HIDE DEF e
    <3> QED  BY <3>1, <1>2, PcapAssumption
  <2> QED  BY <2>1, <1>0, <1>3, PointerStep DEF FindNothing
<1>4. CASE FindPart
  <2>1. PICK h \in Signatures(Conn, ptr, End(Scanned)) : ptr' = h[1]
    BY <1>4 DEF FindPart
  <2>2. ptr' \in Nat /\ boff <= ptr'
    BY <2>1, <1>2, SignatureWithin
  <2> QED  BY <2>2, <1>0, <1>4, PointerStep DEF FindPart
<1>5. ASSUME NEW full \in LimitReached, FindMedia(full) PROVE Inv'
  <2>1. PICK h \in Signatures(Conn, ptr, End(Scanned)) : ptr' = h[1] + h[2].len
    BY <1>5 DEF FindMedia
  <2>2. h[1] \in Nat /\ ptr <= h[1] /\ h[2].len \in Nat
    BY <1>2, SignatureWithin
  <2>3. ptr' \in Nat /\ boff <= ptr'
    BY <2>1, <2>2, <1>2
  <2> QED  BY <2>3, <1>0, <1>5, PointerStep DEF FindMedia
<1>6. CASE ScanDone
  <2> DEFINE done == Searched(Scanned, ptr - boff)
             blocks == (Conn.blocks \ {Scanned}) \cup {done}
  <2>1. /\ slots' = [slots EXCEPT ![cur].blocks = blocks] /\ pc' = "extract"
        /\ UNCHANGED <<slotsalloc, clock, pkt, cur, ret, boff, ptr, oldptr, sweepnow>>
    BY <1>6 DEF ScanDone, Conn, scan, found
  <2>2. /\ done \in Block /\ ~done.dirty /\ done.off = Scanned.off
        /\ done.len = Scanned.len /\ End(done) = End(Scanned)
    BY <1>1, <1>2 DEF Searched, Block, End
  <2>3. Extent(done) = Extent(Scanned)
    BY <2>2 DEF Extent
  <2> HIDE DEF done
  <2>4. /\ IsConnection(Conn, Addrs) /\ Separated(Conn.blocks)
        /\ Covered(Conn.blocks) \subseteq DOMAIN Conn.data
    BY <1>1 DEF Inv, TypeOK, BlocksSeparated, SearchOnlyReceived, Conn
  <2>5. Separated(blocks)
    BY <2>2, <2>4, <1>1 DEF Separated
  <2>6. Covered(blocks) \subseteq Covered(Conn.blocks)
    BY <2>3, <1>1 DEF Covered
  <2>7. blocks \in SUBSET Block
    BY <2>2, <1>1
  <2> HIDE DEF blocks
  <2>8. /\ Live' = Live /\ slots' = [j \in Live' |-> slots'[j]]
        /\ \A j \in Live : j # cur => slots'[j] = slots[j]
        /\ slots'[cur] = [Conn EXCEPT !.blocks = blocks]
    <3>1. slots = [j \in Live |-> slots[j]]
      BY DEF Inv, TypeOK
    <3> QED  BY <3>1, <2>1, <1>1 DEF Live, Conn
  <2>9. slots'[cur] = [src |-> Conn.src, dst |-> Conn.dst, isn |-> Conn.isn,
                       len |-> Conn.len, fin |-> Conn.fin, last |-> Conn.last,
                       data |-> Conn.data, blocks |-> blocks]
    BY <2>4, <2>8 DEF IsConnection
  <2>10. IsConnection(slots'[cur], Addrs)
    BY <2>4, <2>7, <2>9 DEF IsConnection
  <2>11. TypeOK'
    <3>1. \A j \in Live' : IsConnection(slots'[j], Addrs)
      BY <2>8, <2>10 DEF Inv, TypeOK
    <3> QED  BY <3>1, <2>1, <2>8 DEF Inv, TypeOK
  <2>12. ControlOK'
    BY <2>1, <2>8, <1>0 DEF Inv, ControlOK
  <2>13. OnlyCurrentDirty'
    BY <2>1, <2>8, <1>0, <1>1 DEF Inv, OnlyCurrentDirty, ControlOK
  <2>14. BlocksSeparated' /\ SearchOnlyReceived'
    BY <2>4, <2>5, <2>6, <2>8, <2>9 DEF Inv, BlocksSeparated, SearchOnlyReceived
  <2>15. OneConnectionPerPair'
    BY <2>8, <2>9 DEF Inv, OneConnectionPerPair, Conn
  <2>16. SweptBehind'
    BY <2>1, <1>0 DEF Inv, ControlOK, SweptBehind
  <2> QED  BY <2>11, <2>12, <2>13, <2>14, <2>15, <2>16 DEF Inv
<1> QED  BY <1>3, <1>4, <1>5, <1>6 DEF Scan

\* The walk over the blocks of a connection.
LEMMA ExtractStep == Inv /\ Extract => Inv'
<1> SUFFICES ASSUME Inv, Extract PROVE Inv'
  OBVIOUS
<1>0. /\ pc = "extract" /\ UNCHANGED <<slots, slotsalloc, clock, pkt, cur, ret, sweepnow>>
  BY DEF Extract, ExtractBlock, ExtractReturn, table
<1>1. cur \in Live /\ ret \in {"fin", "delete"} /\ (ret = "fin" => pkt \in Packets)
  BY <1>0 DEF Inv, ControlOK
<1>2. BlocksSeparated' /\ SearchOnlyReceived' /\ OneConnectionPerPair'
  BY <1>0 DEF Inv, BlocksSeparated, SearchOnlyReceived, OneConnectionPerPair, Live
<1>3. CASE ExtractBlock
  <2>1. PICK b \in Dirty : /\ boff' = b.off /\ ptr' = b.off + b.moff /\ oldptr' = -1
                            /\ pc' = "scan"
    BY <1>3 DEF ExtractBlock
  <2>2. b \in slots[cur].blocks /\ b.dirty
    BY <2>1 DEF Dirty, Conn
  <2>3. b \in Block
    <3>1. IsConnection(slots[cur], Addrs)
      BY <1>1 DEF Inv, TypeOK
    <3> QED  BY <2>2, <3>1 DEF IsConnection
  <2>4. boff' \in Nat /\ ptr' \in Nat /\ boff' <= ptr'
    BY <2>1, <2>3 DEF Block
  <2>5. ret = "fin"
    BY <2>2, <1>1 DEF Inv, OnlyCurrentDirty
  <2>6. TypeOK'
    BY <2>1, <2>4, <1>0 DEF Inv, TypeOK, Live
  <2>7. ControlOK'
    BY <2>1, <2>2, <2>4, <2>5, <1>0, <1>1 DEF ControlOK, Live
  <2>8. OnlyCurrentDirty' /\ SweptBehind'
    BY <2>1, <2>5, <1>0 DEF Inv, OnlyCurrentDirty, SweptBehind, Live
  <2> QED  BY <1>2, <2>6, <2>7, <2>8 DEF Inv
<1>4. CASE ExtractReturn
  <2>1. Dirty = {} /\ pc' = ret /\ UNCHANGED <<boff, ptr, oldptr>>
    BY <1>4 DEF ExtractReturn, scan
  <2>2. TypeOK'
    BY <2>1, <1>0, <1>1 DEF Inv, TypeOK, Live
  <2>3. ControlOK'
    BY <2>1, <1>0, <1>1 DEF ControlOK, Live
  <2>4. \A b \in slots[cur].blocks : ~b.dirty
    BY <2>1 DEF Dirty, Conn
  <2>5. OnlyCurrentDirty'
    BY <2>4, <1>0 DEF Inv, OnlyCurrentDirty, Live
  <2>6. SweptBehind'
    BY <2>1, <1>0, <1>1 DEF Inv, SweptBehind, Live
  <2> QED  BY <1>2, <2>2, <2>3, <2>5, <2>6 DEF Inv
<1> QED  BY <1>3, <1>4 DEF Extract

\* The FIN flag, once the data was searched.
LEMMA FinStep == Inv /\ FinFlag => Inv'
<1> SUFFICES ASSUME Inv, FinFlag PROVE Inv'
  OBVIOUS
<1>0. /\ pc = "fin" /\ cur \in Live /\ pc' = "sweep" /\ cur' = 1 /\ sweepnow' = clock
      /\ slots' = IF pkt.fin THEN [slots EXCEPT ![cur].fin = TRUE] ELSE slots
      /\ UNCHANGED <<slotsalloc, clock, pkt, ret, boff, ptr, oldptr>>
  BY DEF Inv, ControlOK, FinFlag, scan, found
<1>1. \A j \in Live : IsConnection(slots[j], Addrs)
  BY DEF Inv, TypeOK
<1>2. /\ Live' = Live /\ slots' = [j \in Live' |-> slots'[j]]
      /\ \A j \in Live : \/ slots'[j] = slots[j]
                         \/ slots'[j] = [slots[j] EXCEPT !.fin = TRUE]
  <2>1. slots = [j \in Live |-> slots[j]]
    BY DEF Inv, TypeOK
  <2> QED  BY <2>1, <1>0 DEF Live
<1>3. ASSUME NEW j \in Live
      PROVE  /\ IsConnection(slots'[j], Addrs)
             /\ slots'[j].blocks = slots[j].blocks /\ slots'[j].data = slots[j].data
             /\ slots'[j].src = slots[j].src /\ slots'[j].dst = slots[j].dst
  <2> DEFINE c == slots[j]
  <2>1. IsConnection(c, Addrs)
    BY <1>1
  <2>2. CASE slots'[j] = c
    BY <2>1, <2>2
  <2>3. CASE slots'[j] = [c EXCEPT !.fin = TRUE]
    <3>1. slots'[j] = [src |-> c.src, dst |-> c.dst, isn |-> c.isn, len |-> c.len,
                       fin |-> TRUE, last |-> c.last, data |-> c.data,
                       blocks |-> c.blocks]
      BY <2>1, <2>3 DEF IsConnection
    <3> HIDE DEF c
    <3> QED  BY <2>1, <3>1 DEF IsConnection, c
  <2> QED  BY <2>2, <2>3, <1>2
<1>4. TypeOK'
  BY <1>0, <1>2, <1>3 DEF Inv, TypeOK
<1>5. ControlOK' /\ SweptBehind'
  BY <1>0, <1>2, <1>4 DEF ControlOK, SweptBehind, TypeOK
<1>6. OnlyCurrentDirty' /\ OneConnectionPerPair'
  BY <1>0, <1>2, <1>3 DEF Inv, OnlyCurrentDirty, OneConnectionPerPair
<1>7. BlocksSeparated' /\ SearchOnlyReceived'
  BY <1>2, <1>3 DEF Inv, BlocksSeparated, SearchOnlyReceived
<1> QED  BY <1>4, <1>5, <1>6, <1>7 DEF Inv

\* sweep_connections, slot by slot.
LEMMA SweepStep == Inv /\ Sweep => Inv'
<1> SUFFICES ASSUME Inv, Sweep PROVE Inv'
  OBVIOUS
<1>1. CASE SweepDiscard \/ SweepKeep \/ SweepReturn
  <2>0. /\ pc = "sweep" /\ UNCHANGED <<slots, slotsalloc, clock>>
        /\ cur \in Nat
    BY <1>1 DEF SweepDiscard, SweepKeep, SweepReturn, table, Inv, TypeOK
  <2>1. BlocksSeparated' /\ SearchOnlyReceived' /\ OneConnectionPerPair'
    BY <2>0 DEF Inv, BlocksSeparated, SearchOnlyReceived, OneConnectionPerPair, Live
  <2>2. \A i \in Live : \A b \in slots[i].blocks : ~b.dirty
    BY <2>0 DEF Inv, OnlyCurrentDirty
  <2>3. OnlyCurrentDirty'
    BY <2>0, <2>2 DEF OnlyCurrentDirty, Live
  <2>4. TypeOK'
    BY <1>1, <2>0 DEF SweepDiscard, SweepKeep, SweepReturn, scan, Inv, TypeOK, Live
  <2>5. ControlOK'
    BY <1>1, <2>0 DEF SweepDiscard, SweepKeep, SweepReturn, ControlOK, Live
  <2>6. SweptBehind'
    <3>1. \A i \in Live : i < cur => ~Sweepable(slots[i], sweepnow)
      BY <2>0 DEF Inv, SweptBehind
    <3>2. CASE SweepKeep
      <4>1. /\ cur' = cur + 1 /\ sweepnow' = sweepnow
            /\ cur \in Live => ~Sweepable(slots[cur], sweepnow)
        BY <3>2 DEF SweepKeep, Live, Conn
      <4>2. \A i \in Live : i < cur + 1 => i < cur \/ i = cur
        BY <2>0 DEF Inv, TypeOK
      <4> QED  BY <2>0, <3>1, <4>1, <4>2 DEF SweptBehind, Live
    <3>3. CASE SweepDiscard
      BY <2>0, <3>1, <3>3 DEF SweepDiscard, SweptBehind, Live
    <3>4. CASE SweepReturn
      BY <3>4 DEF SweepReturn, SweptBehind
    <3> QED  BY <1>1, <3>2, <3>3, <3>4
  <2> QED  BY <2>1, <2>3, <2>4, <2>5, <2>6 DEF Inv
<1>2. CASE SweepDelete
  <2>0. /\ pc = "delete" /\ pc' = "sweep" /\ slots' = Without(slots, {cur})
        /\ cur' = cur + 1 /\ cur \in Nat
        /\ UNCHANGED <<slotsalloc, clock, pkt, ret, boff, ptr, oldptr, sweepnow>>
    BY <1>2 DEF SweepDelete, scan, found, Inv, TypeOK
  <2>1. /\ Live' = Live \ {cur} /\ slots' = [j \in Live' |-> slots'[j]]
        /\ \A j \in Live' : slots'[j] = slots[j]
    BY <2>0 DEF Without, Live
  <2>2. BlocksSeparated' /\ SearchOnlyReceived' /\ OneConnectionPerPair'
    BY <2>1 DEF Inv, BlocksSeparated, SearchOnlyReceived, OneConnectionPerPair
  <2>3. OnlyCurrentDirty'
    BY <2>0, <2>1 DEF Inv, OnlyCurrentDirty
  <2>4. TypeOK'
    BY <2>0, <2>1 DEF Inv, TypeOK
  <2>5. ControlOK'
    BY <2>0 DEF ControlOK
  <2>6. SweptBehind'
    <3>1. \A i \in Live : i < cur => ~Sweepable(slots[i], sweepnow)
      BY <2>0 DEF Inv, SweptBehind
    <3>2. \A i \in Live' : i < cur + 1 => i < cur
      BY <2>0, <2>1 DEF Inv, TypeOK
    <3> QED  BY <2>0, <2>1, <3>1, <3>2 DEF SweptBehind
  <2> QED  BY <2>2, <2>3, <2>4, <2>5, <2>6 DEF Inv
<1> QED  BY <1>1, <1>2 DEF Sweep

\* The clock may tick at any moment.
LEMMA TickStep == Inv /\ Tick => Inv'
<1> SUFFICES ASSUME Inv, Tick PROVE Inv'
  OBVIOUS
<1>1. /\ clock' \in Nat
      /\ UNCHANGED <<slots, slotsalloc, pc, pkt, cur, ret, boff, ptr, oldptr, sweepnow>>
  BY DEF Tick, Inv, TypeOK, table, scan, found
<1>2. TypeOK' /\ ControlOK'
  BY <1>1 DEF Inv, TypeOK, ControlOK, Live
<1>3. OnlyCurrentDirty' /\ BlocksSeparated' /\ SearchOnlyReceived'
  BY <1>1 DEF Inv, OnlyCurrentDirty, BlocksSeparated, SearchOnlyReceived, Live
<1>4. OneConnectionPerPair' /\ SweptBehind'
  BY <1>1 DEF Inv, OneConnectionPerPair, SweptBehind, Live
<1> QED  BY <1>2, <1>3, <1>4 DEF Inv

\* Nothing happens.
LEMMA StutterStep == Inv /\ UNCHANGED vars => Inv'
<1> SUFFICES ASSUME Inv, UNCHANGED vars PROVE Inv'
  OBVIOUS
<1>1. TypeOK' /\ ControlOK'
  BY DEF Inv, TypeOK, ControlOK, Live, vars
<1>2. OnlyCurrentDirty' /\ BlocksSeparated' /\ SearchOnlyReceived'
  BY DEF Inv, OnlyCurrentDirty, BlocksSeparated, SearchOnlyReceived, Live, vars
<1>3. OneConnectionPerPair' /\ SweptBehind'
  BY DEF Inv, OneConnectionPerPair, SweptBehind, Live, vars
<1> QED  BY <1>1, <1>2, <1>3 DEF Inv

\* All of them.
LEMMA NextInv == Inv /\ [Next]_vars => Inv'
<1> SUFFICES ASSUME Inv, [Next]_vars PROVE Inv'
  OBVIOUS
<1>1. ASSUME NEW p \in Packets, ProcessPacket(p) PROVE Inv'
  <2>1. PICK i \in 1 .. (slotsalloc + 1) :
           /\ pc = "capture" /\ SlotFor(p, i)
           /\ ResetPacket(p, i) \/ DataPacket(p, i) \/ EmptyPacket(p, i)
    BY <1>1 DEF ProcessPacket
  <2> QED  BY <2>1, ResetStep, DataStep, EmptyStep
<1>2. CASE Handle
  BY <1>2, ExtractStep, ScanStep, FinStep, SweepStep DEF Handle
<1>3. CASE Tick
  BY <1>3, TickStep
<1>4. CASE UNCHANGED vars
  BY <1>4, StutterStep
<1> QED  BY <1>1, <1>2, <1>3, <1>4 DEF Next

-----------------------------------------------------------------------------
\* The inductive invariant holds in every reachable state: process_packet,
\* extract_media and sweep_connections keep the table of connections in order.
THEOREM Invariance == Spec => []Inv
<1>1. Inv /\ [Next]_vars => Inv'
  BY NextInv
<1> QED  BY InitInv, <1>1, PTL DEF Spec

\* Every variable keeps the type the code gives it; no offset computed in 32-bit
\* arithmetic, no search pointer and no block is ever negative or empty.
THEOREM TypeCorrect == Spec => []TypeOK
BY Invariance, PTL DEF Inv

\* connection.h: "if there is a gap in the received data, we don't search it".
THEOREM GapsNotSearched == Spec => []SearchOnlyReceived
BY Invariance, PTL DEF Inv

\* The block list of every connection is a list of separate stretches of data.
THEOREM BlocksStaySeparated == Spec => []BlocksSeparated
BY Invariance, PTL DEF Inv

\* find_connection never has two connections to choose from.
THEOREM PairsStayDistinct == Spec => []OneConnectionPerPair
BY Invariance, PTL DEF Inv

\* sweep_connections leaves behind it no connection that should have gone.
THEOREM SweepMissesNothing == Spec => []SweptBehind
BY Invariance, PTL DEF Inv

\* Between packets every block has been searched, so that RST, the sweep and the
\* end of the program delete no data that was never looked at.
THEOREM NothingLeftUnsearched == Spec => []NothingUnsearchedAtRest
<1>1. Inv => NothingUnsearchedAtRest
  BY DEF Inv, OnlyCurrentDirty, NothingUnsearchedAtRest, AtRest
<1> QED  BY Invariance, <1>1, PTL

\* After a RST neither direction of the conversation has a connection: what
\* find_connection finds the other way is all there is to delete.
THEOREM ResetIsComplete == Spec => ResetForgetsBoth
<1>1. ASSUME Inv, NEW p \in Packets, AtRest, p.rst, ProcessPacket(p),
             NEW k \in DOMAIN slots'
      PROVE  {slots'[k].src, slots'[k].dst} # {p.src, p.dst}
  <2>1. PICK i \in 1 .. (slotsalloc + 1) : SlotFor(p, i) /\ ResetPacket(p, i)
    BY <1>1 DEF ProcessPacket, DataPacket, EmptyPacket
  <2> DEFINE t == TableFor(p, i)
             u == Without(t, {i})
             back == {j \in DOMAIN u : u[j].src = p.dst /\ u[j].dst = p.src}
             gone == {j \in back : First(j, back)}
  <2>2. /\ DOMAIN t = Live \cup {i} /\ DOMAIN t \subseteq 1 .. SlotsallocFor(i)
        /\ t[i].src = p.src /\ t[i].dst = p.dst
        /\ \A j, l \in DOMAIN t : t[j].src = t[l].src /\ t[j].dst = t[l].dst => j = l
    BY <1>1, <2>1, TableForPacket DEF AtRest
  <2>3. slots' = Without(u, gone)
    BY <2>1 DEF ResetPacket
  <2> HIDE DEF t
  <2>4. k \in DOMAIN t /\ k # i /\ slots'[k] = t[k] /\ k \in DOMAIN u /\ u[k] = t[k]
        /\ k \notin gone
    BY <1>1, <2>3 DEF Without
  <2>5. ~(t[k].src = p.src /\ t[k].dst = p.dst)
    BY <2>2, <2>4
  <2>6. ~(t[k].src = p.dst /\ t[k].dst = p.src)
    <3> SUFFICES ASSUME t[k].src = p.dst, t[k].dst = p.src PROVE FALSE
      OBVIOUS
    <3>1. k \in back
      BY <2>4
    <3>2. \A j \in back : j = k
      BY <2>2, <2>4 DEF Without
    <3>3. First(k, back)
      <4>1. k \in Int
        BY <2>2, <2>4
      <4> HIDE DEF back
      <4> QED  BY <4>1, <3>1, <3>2 DEF First
    <3> QED  BY <3>1, <3>3, <2>4
  <2> QED  BY <2>4, <2>5, <2>6
<1>2. Inv /\ [Next]_vars => [BothForgotten]_vars
  BY <1>1 DEF BothForgotten
<1> QED  BY Invariance, <1>2, PTL DEF Spec, ResetForgetsBoth

\* A segment that repeats nothing becomes searchable and hides nothing, whatever
\* blocks are there and wherever it falls among them.
THEOREM FreshDataReachesSearch == Spec => FreshDataIsSearchable
<1> DEFINE new(i) == DOMAIN slots'[i].data \ DOMAIN slots[i].data
           off(i) == Offset(pkt'.seq, slots[i].isn)
<1>1. ASSUME Inv, [Next]_vars, NEW i \in Live,
             AtRest, pc' = "extract", cur' = i,
             off(i) .. (off(i) + pkt'.len - 1) = new(i)
      PROVE  Covered(slots'[i].blocks) = Covered(slots[i].blocks) \cup new(i)
  <2>1. PICK p \in Packets : ProcessPacket(p)
    BY <1>1 DEF AtRest, Next, Handle, Extract, ExtractBlock, ExtractReturn, Scan,
       FindNothing, FindPart, FindMedia, ScanDone, FinFlag, Sweep, SweepDiscard,
       SweepKeep, SweepDelete, SweepReturn, Tick, vars
  <2>2. PICK k \in 1 .. (slotsalloc + 1) : SlotFor(p, k) /\ DataPacket(p, k)
    BY <1>1, <2>1 DEF ProcessPacket, ResetPacket, EmptyPacket, AtRest
  <2>3. k = i /\ pkt' = p /\ TableFor(p, i) = slots /\ p.len > 0
    BY <1>1, <2>2 DEF DataPacket, TableFor, Live
  <2> DEFINE o == Offset(p.seq, slots[i].isn)
             c == slots[i]
  <2>4. slots'[i] = connection_push(c, p.pos, o, p.len, clock)
    BY <1>1, <2>2, <2>3 DEF DataPacket, Live
  <2>5. /\ slots'[i].blocks = PushBlock(c.blocks, o, p.len)
    BY <2>4 DEF connection_push
  <2>6. /\ c.blocks \in SUBSET Block /\ c.isn \in 0 .. (SeqSpace - 1)
        /\ Separated(c.blocks) /\ Covered(c.blocks) \subseteq DOMAIN c.data
    BY <1>1 DEF Inv, TypeOK, IsConnection, BlocksSeparated, SearchOnlyReceived
  <2>7. o \in Nat /\ p.len \in Nat \ {0}
    <3>1. p.len \in Nat \ {0} /\ p.seq \in 0 .. (SeqSpace - 1)
      BY <2>3, PcapAssumption DEF Packet
    <3> QED  BY <3>1, <2>6, OffsetIsNat
  <2>8. new(i) = o .. (o + p.len - 1)
    BY <1>1, <2>3
  <2> HIDE DEF o, c
  <2>9. Covered(c.blocks) \cap o .. (o + p.len - 1) = {}
    BY <2>6, <2>8 DEF c
  <2> QED  BY <2>5, <2>6, <2>7, <2>8, <2>9, PushBlockCoversAll DEF c
<1>2. Inv /\ [Next]_vars => [FreshDataCovered]_vars
  BY <1>1 DEF FreshDataCovered
<1> QED  BY Invariance, <1>2, PTL DEF Spec, FreshDataIsSearchable

-----------------------------------------------------------------------------
(* The bytes the capture thread holds and hands on: how many a connection    *)
(* may hold, that they lie where the stream has them, that what is found is  *)
(* a file of the stream, that no file is missed, and that PcapEngine         *)
(* implements MediaStream.                                                   *)

\* What a step leaves alone in a connection: its name and its bytes.
SameBytes(c, d) ==
    /\ c.src = d.src /\ c.dst = d.dst /\ c.isn = d.isn
    /\ c.len = d.len /\ c.data = d.data

\* The connection a packet goes to is in the table, or begins with it.
IsTarget(c, j, p) ==
    /\ c.src = p.src /\ c.dst = p.dst
    /\ \/ j \in Live /\ c = slots[j]
       \/ c = connection_new(p.src, p.dst, p.seq, clock)

\* A packet that is handled changes the bytes of one connection at most.
LEMMA TableOfPacket ==
    ASSUME Inv, pc = "capture", NEW p \in Packets, NEW i \in 1 .. (slotsalloc + 1),
           SlotFor(p, i), NEW j \in DOMAIN TableFor(p, i)
    PROVE  \/ j \in Live /\ TableFor(p, i)[j] = slots[j]
           \/ /\ j = i /\ j \notin Live
              /\ TableFor(p, i)[j] = connection_new(p.src, p.dst, p.seq, clock)
BY DEF TableFor, Live

\* Every step leaves the bytes of a connection alone, begins it, or pushes one
\* segment of a packet that is near enough to it.
LEMMA StepOfConnection ==
    ASSUME Inv, [Next]_vars, NEW j \in Live'
    PROVE  \/ /\ j \in Live /\ SameBytes(slots'[j], slots[j])
              /\ slots'[j].blocks = slots[j].blocks \/ (ScanDone /\ j = cur)
           \/ /\ pc = "capture" /\ slots'[j].blocks = {}
              /\ \E p \in Packets :
                    SameBytes(slots'[j], connection_new(p.src, p.dst, p.seq, clock))
           \/ /\ pc = "capture" /\ pc' = "extract"
              /\ \E p \in Packets : \E c :
                    /\ IsTarget(c, j, p) /\ p.len > 0
                    /\ ~TooFarAhead(c, Offset(p.seq, c.isn))
                    /\ slots'[j] = connection_push(c, p.pos, Offset(p.seq, c.isn),
                                                   p.len, clock)
<1> DEFINE New(p) == connection_new(p.src, p.dst, p.seq, clock)
<1>0. /\ slots = [k \in Live |-> slots[k]]
      /\ \A k \in Live : IsConnection(slots[k], Addrs)
  BY DEF Inv, TypeOK
<1>1. ASSUME NEW p \in Packets, ProcessPacket(p)
      PROVE  \/ j \in Live /\ slots'[j] = slots[j]
             \/ pc = "capture" /\ \E q \in Packets : slots'[j] = New(q)
             \/ /\ pc = "capture" /\ pc' = "extract"
                /\ \E q \in Packets : \E c :
                      /\ IsTarget(c, j, q) /\ q.len > 0
                      /\ ~TooFarAhead(c, Offset(q.seq, c.isn))
                      /\ slots'[j] = connection_push(c, q.pos, Offset(q.seq, c.isn),
                                                     q.len, clock)
  <2>1. PICK i \in 1 .. (slotsalloc + 1) :
           /\ pc = "capture" /\ SlotFor(p, i)
           /\ ResetPacket(p, i) \/ DataPacket(p, i) \/ EmptyPacket(p, i)
    BY <1>1 DEF ProcessPacket
  <2> DEFINE t == TableFor(p, i)
  <2>2. /\ DOMAIN t = Live \cup {i} /\ t[i].src = p.src /\ t[i].dst = p.dst
    BY <2>1, TableForPacket
  <2>3. \A k \in DOMAIN t : \/ k \in Live /\ t[k] = slots[k]
                            \/ k = i /\ t[k] = New(p)
    BY <2>1, TableOfPacket
  <2>4. CASE ResetPacket(p, i)
    <3>1. j \in DOMAIN t /\ slots'[j] = t[j]
      BY <2>4 DEF ResetPacket, Without, Live
    <3> HIDE DEF t, New
    <3> QED  BY <3>1, <2>1, <2>3
  <2>5. CASE EmptyPacket(p, i)
    <3>1. j \in DOMAIN t /\ slots'[j] = t[j]
      BY <2>5 DEF EmptyPacket, Live
    <3> HIDE DEF t, New
    <3> QED  BY <3>1, <2>1, <2>3
  <2>6. CASE DataPacket(p, i)
    <3>1. /\ p.len > 0 /\ ~TooFarAhead(t[i], Offset(p.seq, t[i].isn)) /\ pc' = "extract"
          /\ slots' = [t EXCEPT ![i] = connection_push(t[i], p.pos,
                                          Offset(p.seq, t[i].isn), p.len, clock)]
      BY <2>6 DEF DataPacket
    <3>2. IsTarget(t[i], i, p)
      BY <2>2, <2>3 DEF IsTarget
    <3>3. j \in DOMAIN t
      BY <3>1 DEF Live
    <3> HIDE DEF t, New
    <3>4. CASE j = i
      <4>1. slots'[j] = connection_push(t[i], p.pos, Offset(p.seq, t[i].isn), p.len, clock)
        BY <3>1, <3>3, <3>4
      <4> QED  BY <4>1, <3>1, <3>2, <3>4, <2>1
    <3>5. CASE j # i
      BY <3>1, <3>3, <3>5, <2>1, <2>3
    <3> QED  BY <3>4, <3>5
  <2> QED  BY <2>1, <2>4, <2>5, <2>6
<1>2. CASE Extract \/ Tick \/ SweepDiscard \/ SweepKeep \/ SweepReturn \/ UNCHANGED vars
  <2>1. slots' = slots
    BY <1>2 DEF Extract, ExtractBlock, ExtractReturn, Tick, SweepDiscard, SweepKeep,
                SweepReturn, table, vars
  <2> QED  BY <2>1 DEF Live, SameBytes
<1>3. CASE Scan
  <2>1. CASE ScanDone
    <3>1. pc = "scan"
      BY <2>1 DEF ScanDone
    <3>2. PICK blocks : slots' = [slots EXCEPT ![cur].blocks = blocks]
      BY <2>1 DEF ScanDone
    <3>3. j \in Live /\ (slots'[j] = slots[j] \/ slots'[j] = [slots[j] EXCEPT !.blocks = blocks])
      BY <3>2, <1>0 DEF Live
    <3>4. j # cur => slots'[j] = slots[j]
      BY <3>2, <3>3, <1>0
    <3> QED  BY <2>1, <3>3, <3>4, <1>0 DEF SameBytes, IsConnection
  <2>2. CASE ~ScanDone
    <3>1. slots' = slots
      BY <1>3, <2>2 DEF Scan, FindNothing, FindPart, FindMedia, table
    <3> QED  BY <3>1 DEF Live, SameBytes
  <2> QED  BY <2>1, <2>2
<1>4. CASE FinFlag
  <2>1. j \in Live /\ (slots'[j] = slots[j] \/ slots'[j] = [slots[j] EXCEPT !.fin = TRUE])
    BY <1>4, <1>0 DEF FinFlag, Live
  <2> QED  BY <2>1, <1>0 DEF SameBytes, IsConnection
<1>5. CASE SweepDelete
  BY <1>5 DEF SweepDelete, Without, Live, SameBytes
<1> HIDE DEF New
<1>6. ASSUME NEW p \in Packets, ProcessPacket(p)
      PROVE  \/ j \in Live /\ SameBytes(slots'[j], slots[j]) /\ slots'[j].blocks = slots[j].blocks
             \/ /\ pc = "capture" /\ slots'[j].blocks = {}
                /\ \E q \in Packets : SameBytes(slots'[j], New(q))
             \/ /\ pc = "capture" /\ pc' = "extract"
                /\ \E q \in Packets : \E c :
                      /\ IsTarget(c, j, q) /\ q.len > 0
                      /\ ~TooFarAhead(c, Offset(q.seq, c.isn))
                      /\ slots'[j] = connection_push(c, q.pos, Offset(q.seq, c.isn),
                                                     q.len, clock)
  <2>1. \A q \in Packets : New(q).blocks = {}
    BY DEF New, connection_new
  <2> QED  BY <1>1, <1>6, <2>1 DEF SameBytes
<1> QED  BY <1>2, <1>3, <1>4, <1>5, <1>6 DEF Next, Handle, Sweep, New
-----------------------------------------------------------------------------
\* What a connection holds lies before its len, and its len is within the limit
\* but for one segment.
WithinLen(c) == \A o \in DOMAIN c.data : o < c.len

Bounded(c) ==
    \/ c.len <= MAXCONNECTIONDATA
    \/ \E p \in Packets : c.len <= MAXCONNECTIONDATA + WRAPLEN + p.len

\* The limit, connection by connection.
LEMMA MemoryParts == MemoryBounded <=>
    \A i \in Live : /\ AtRest => slots[i].len <= MAXCONNECTIONDATA
                    /\ WithinLen(slots[i]) /\ Bounded(slots[i])
BY DEF MemoryBounded, WithinLen, Bounded

\* The connection of a packet that has just arrived is a good one, and within
\* the limit.
LEMMA TargetOK ==
    ASSUME Inv, MemoryBounded, pc = "capture", NEW j, NEW p \in Packets, NEW c,
           IsTarget(c, j, p)
    PROVE  /\ IsConnection(c, Addrs) /\ WithinLen(c) /\ c.len <= MAXCONNECTIONDATA
           /\ p.len \in Nat /\ p.pos \in Nat /\ p.seq \in 0 .. (SeqSpace - 1)
           /\ Offset(p.seq, c.isn) \in Nat
<1>1. p.len \in Nat /\ p.pos \in Nat /\ p.seq \in 0 .. (SeqSpace - 1)
  BY PcapAssumption DEF Packet
<1>2. IsConnection(c, Addrs) /\ WithinLen(c) /\ c.len <= MAXCONNECTIONDATA
  <2>1. CASE j \in Live /\ c = slots[j]
    BY <2>1, MemoryParts DEF Inv, TypeOK, AtRest
  <2>2. CASE c = connection_new(p.src, p.dst, p.seq, clock)
    <3>1. IsConnection(c, Addrs)
      BY <2>2, NewConnectionOK DEF ConnectionOK, Inv, TypeOK
    <3>2. c.len = 0 /\ DOMAIN c.data = {}
      BY <2>2 DEF connection_new
    <3> QED  BY <3>1, <3>2, ConnectionAssumption DEF WithinLen
  <2> QED  BY <2>1, <2>2 DEF IsTarget
<1>3. c.isn \in 0 .. (SeqSpace - 1)
  BY <1>2 DEF IsConnection
<1> QED  BY <1>1, <1>2, <1>3, OffsetIsNat

\* A step keeps connections within the limit: a segment is taken only when it
\* begins at most WRAPLEN behind what is there.
LEMMA MemoryStep == Inv /\ MemoryBounded /\ [Next]_vars => MemoryBounded'
<1> SUFFICES ASSUME Inv, MemoryBounded, [Next]_vars, NEW j \in Live'
             PROVE  /\ AtRest' => slots'[j].len <= MAXCONNECTIONDATA
                    /\ WithinLen(slots'[j]) /\ Bounded(slots'[j])
  BY DEF MemoryBounded, WithinLen, Bounded
<1>1. CASE j \in Live /\ SameBytes(slots'[j], slots[j])
  <2>1. WithinLen(slots'[j]) /\ Bounded(slots'[j])
    BY <1>1, MemoryParts DEF WithinLen, Bounded, SameBytes
  <2>2. ASSUME AtRest' PROVE slots'[j].len <= MAXCONNECTIONDATA
    <3>1. CASE AtRest
      BY <3>1, <1>1, MemoryParts DEF SameBytes
    <3>2. CASE ~AtRest
      <4>1. SweepReturn
        BY <2>2, <3>2 DEF AtRest, Next, Handle, Extract, ExtractBlock, ExtractReturn, Scan,
           FindNothing, FindPart, FindMedia, ScanDone, FinFlag, Sweep, SweepDiscard,
           SweepKeep, SweepDelete, Tick, ProcessPacket, vars, Inv, ControlOK
      <4>2. pc = "sweep" /\ slotsalloc < cur
        BY <4>1 DEF SweepReturn, Inv, TypeOK
      <4>3. ~Sweepable(slots[j], sweepnow)
        BY <4>2, <1>1 DEF Inv, TypeOK, SweptBehind
      <4>4. slots[j].len \in Nat
        BY <1>1 DEF Inv, TypeOK, IsConnection
      <4> QED  BY <4>3, <4>4, <1>1, ConnectionAssumption DEF Sweepable, SameBytes
    <3> QED  BY <3>1, <3>2
  <2> QED  BY <2>1, <2>2
<1>2. ASSUME NEW p \in Packets,
             SameBytes(slots'[j], connection_new(p.src, p.dst, p.seq, clock))
      PROVE  /\ slots'[j].len <= MAXCONNECTIONDATA
             /\ WithinLen(slots'[j]) /\ Bounded(slots'[j])
  <2>1. slots'[j].len = 0 /\ DOMAIN slots'[j].data = {}
    BY <1>2 DEF SameBytes, connection_new
  <2> QED  BY <2>1, ConnectionAssumption DEF WithinLen, Bounded
<1>3. ASSUME pc = "capture", pc' = "extract",
             NEW p \in Packets, NEW c, IsTarget(c, j, p), p.len > 0,
             ~TooFarAhead(c, Offset(p.seq, c.isn)),
             slots'[j] = connection_push(c, p.pos, Offset(p.seq, c.isn), p.len, clock)
      PROVE  ~AtRest' /\ WithinLen(slots'[j]) /\ Bounded(slots'[j])
  <2> DEFINE off == Offset(p.seq, c.isn)
  <2>1. /\ IsConnection(c, Addrs) /\ WithinLen(c) /\ c.len <= MAXCONNECTIONDATA
        /\ p.len \in Nat /\ off \in Nat
    BY <1>3, TargetOK
  <2>2. c.len \in Nat /\ DOMAIN c.data \subseteq Nat
    BY <2>1 DEF IsConnection
  <2>3. off <= c.len + WRAPLEN
    BY <1>3, <2>1, <2>2, ConnectionAssumption DEF TooFarAhead
  <2>4. /\ slots'[j].len = IF off + p.len > c.len THEN off + p.len ELSE c.len
        /\ DOMAIN slots'[j].data = DOMAIN c.data \cup off .. (off + p.len - 1)
    BY <1>3 DEF connection_push, CopyBytes
  <2> HIDE DEF off
  <2>5. Bounded(slots'[j])
    BY <2>1, <2>2, <2>3, <2>4, ConnectionAssumption DEF Bounded
  <2>6. WithinLen(slots'[j])
    BY <2>1, <2>2, <2>4 DEF WithinLen
  <2> QED  BY <1>3, <2>5, <2>6 DEF AtRest
<1> QED  BY <1>1, <1>2, <1>3, StepOfConnection

\* The limit holds in every reachable state, for every limit and every packet.
\* (sweep_connections and the two tests of connection_push's caller)
THEOREM MemoryStaysBounded == Spec => []MemoryBounded
<1>1. Init => MemoryBounded
  BY DEF Init, MemoryBounded, Live
<1>2. Inv /\ MemoryBounded /\ [Next]_vars => MemoryBounded'
  BY MemoryStep
<1> QED  BY Invariance, <1>1, <1>2, PTL DEF Spec

-----------------------------------------------------------------------------
\* Offset of a segment that is not too far ahead, over one stretch of a stream.
LEMMA OffsetIsDistance ==
    ASSUME OneStretch, NEW p \in Packets, NEW r \in Packets, NEW len \in Nat,
           p.src = r.src, p.dst = r.dst, len <= MAXCONNECTIONDATA,
           Offset(p.seq, r.seq) <= len + WRAPLEN
    PROVE  Offset(p.seq, r.seq) = p.pos - r.pos
<1>1. /\ p.seq \in 0 .. (SeqSpace - 1) /\ r.seq \in 0 .. (SeqSpace - 1)
      /\ p.pos \in Nat /\ r.pos \in Nat
  BY PcapAssumption DEF Packet
<1>2. p.seq - r.seq = p.pos - r.pos
  BY DEF OneStretch
<1>3. r.seq - p.seq < SeqSpace - 1 - MAXCONNECTIONDATA - WRAPLEN
  BY DEF OneStretch
<1> QED  BY <1>1, <1>2, <1>3, ConnectionAssumption DEF Offset

\* A push of a segment of the same direction keeps bytes where the stream has them.
LEMMA PushKeepsOrder ==
    ASSUME OneStretch, NEW p \in Packets, NEW r \in Packets, NEW c, NEW now,
           IsConnection(c, Addrs), BeganWith(c, r), c.len <= MAXCONNECTIONDATA,
           p.src = c.src, p.dst = c.dst, ~TooFarAhead(c, Offset(p.seq, c.isn))
    PROVE  BeganWith(connection_push(c, p.pos, Offset(p.seq, c.isn), p.len, now), r)
<1> DEFINE off == Offset(p.seq, c.isn)
           d == connection_push(c, p.pos, off, p.len, now)
<1>1. /\ p.src = r.src /\ p.dst = r.dst /\ c.isn = r.seq
      /\ c.len \in Nat /\ r.seq \in 0 .. (SeqSpace - 1) /\ p.seq \in 0 .. (SeqSpace - 1)
      /\ p.pos \in Nat /\ r.pos \in Nat /\ p.len \in Nat /\ DOMAIN c.data \subseteq Nat
  BY PcapAssumption DEF BeganWith, IsConnection, Packet
<1>2. off \in Nat
  BY <1>1, OffsetIsNat
<1>3. off <= c.len + WRAPLEN
  BY <1>1, <1>2, ConnectionAssumption DEF TooFarAhead
<1>4. off = p.pos - r.pos
  BY <1>1, <1>3, OffsetIsDistance
<1>5. /\ d.src = c.src /\ d.dst = c.dst /\ d.isn = c.isn
      /\ d.data = CopyBytes(c.data, off, p.len, p.pos)
  BY DEF connection_push
<1> HIDE DEF off, d
<1>6. \A o \in DOMAIN d.data : d.data[o] = r.pos + o
  <2> SUFFICES ASSUME NEW o \in DOMAIN d.data PROVE d.data[o] = r.pos + o
    OBVIOUS
  <2>1. CASE o \in off .. (off + p.len - 1)
    <3>1. d.data[o] = p.pos + (o - off)
      BY <1>5, <2>1 DEF CopyBytes
    <3> QED  BY <1>1, <1>2, <1>4, <2>1, <3>1
  <2>2. CASE o \notin off .. (off + p.len - 1)
    <3>1. o \in DOMAIN c.data /\ d.data[o] = c.data[o]
      BY <1>5, <2>2 DEF CopyBytes
    <3> QED  BY <3>1 DEF BeganWith
  <2> QED  BY <2>1, <2>2
<1> QED  BY <1>5, <1>6 DEF BeganWith, off, d

\* What every connection began with, after any step.
LEMMA BeganStep ==
    ASSUME OneStretch, Inv, BytesInv, [Next]_vars, NEW j \in Live'
    PROVE  \E p \in Packets : BeganWith(slots'[j], p)
<1>1. CASE j \in Live /\ SameBytes(slots'[j], slots[j])
  BY <1>1 DEF BytesInv, SameBytes, BeganWith
<1>2. ASSUME NEW p \in Packets,
             SameBytes(slots'[j], connection_new(p.src, p.dst, p.seq, clock))
      PROVE  BeganWith(slots'[j], p)
  BY <1>2 DEF SameBytes, BeganWith, connection_new
<1>3. ASSUME pc = "capture", NEW p \in Packets, NEW c, IsTarget(c, j, p),
             ~TooFarAhead(c, Offset(p.seq, c.isn)),
             slots'[j] = connection_push(c, p.pos, Offset(p.seq, c.isn), p.len, clock)
      PROVE  \E r \in Packets : BeganWith(slots'[j], r)
  <2>1. PICK r \in Packets : BeganWith(c, r)
    <3>1. CASE j \in Live /\ c = slots[j]
      BY <3>1 DEF BytesInv
    <3>2. CASE c = connection_new(p.src, p.dst, p.seq, clock)
      BY <3>2 DEF BeganWith, connection_new
    <3> QED  BY <3>1, <3>2, <1>3 DEF IsTarget
  <2>2. IsConnection(c, Addrs) /\ c.len <= MAXCONNECTIONDATA
    BY <1>3, TargetOK DEF BytesInv
  <2>3. p.src = c.src /\ p.dst = c.dst
    BY <1>3 DEF IsTarget
  <2> QED  BY <1>3, <2>1, <2>2, <2>3, PushKeepsOrder
<1> QED  BY <1>1, <1>2, <1>3, StepOfConnection

\* What a search that finds a whole file hands on is that file: its first bytes
\* are those of the signature, and all of them lie in the block, where the bytes
\* lie as they do in the stream.
LEMMA FoundIsMedia ==
    ASSUME Inv, BytesInv, pc = "scan",
           NEW h \in Signatures(Conn, ptr, End(Scanned)), h[1] + h[2].len <= End(Scanned)
    PROVE  /\ h[2] \in Media
           /\ Bytes(Conn, h[1], h[2].len) = Signature(h[2], h[2].len)
           /\ \A k \in 0 .. (h[2].len - 1) : \E o \in DOMAIN Conn.data :
                 Conn.data[o] = h[2].start + k
<1> DEFINE m == h[2]
           e == End(Scanned)
<1>1. /\ cur \in Live /\ Scanned \in Conn.blocks /\ Scanned \in Block
      /\ Scanned.off = boff
  BY ScannedBlock
<1>2. ptr \in Nat /\ boff \in Nat /\ boff <= ptr /\ e \in Nat
  BY <1>1, EndOfBlock DEF Inv, TypeOK, ControlOK
<1>3. /\ h \in (ptr .. (e - HdrLen)) \X Media
      /\ Bytes(Conn, h[1], HdrLen) = Signature(m, HdrLen)
  BY DEF Signatures
<1>4. m \in Media /\ h[1] \in Nat /\ ptr <= h[1]
  BY <1>3, <1>2
<1>5. m.start \in Nat /\ m.len \in Nat /\ m.len >= HdrLen /\ HdrLen \in Nat \ {0}
  BY <1>4, PcapAssumption
<1>6. \A o \in boff .. (e - 1) : o \in DOMAIN Conn.data
  BY <1>1 DEF Inv, SearchOnlyReceived, Covered, Extent, Conn
<1>7. PICK r \in Packets : BeganWith(Conn, r)
  BY <1>1 DEF BytesInv, Conn
<1>8. r.pos \in Nat
  BY PcapAssumption DEF Packet
<1> HIDE DEF m, e
<1>9. \A k \in 0 .. (m.len - 1) :
         /\ h[1] + k \in DOMAIN Conn.data /\ Conn.data[h[1] + k] = r.pos + h[1] + k
  <2> SUFFICES ASSUME NEW k \in 0 .. (m.len - 1)
               PROVE  /\ h[1] + k \in DOMAIN Conn.data
                      /\ Conn.data[h[1] + k] = r.pos + h[1] + k
    OBVIOUS
  <2>1. h[1] + k \in boff .. (e - 1)
    BY <1>2, <1>4, <1>5 DEF m, e
  <2>2. h[1] + k \in DOMAIN Conn.data
    BY <2>1, <1>6
  <2>3. Conn.data[h[1] + k] = r.pos + (h[1] + k)
    BY <2>2, <1>7 DEF BeganWith
  <2> QED  BY <2>2, <2>3, <1>4, <1>5, <1>8
<1>10. r.pos + h[1] = m.start
  <2>1. Bytes(Conn, h[1], HdrLen)[0] = Signature(m, HdrLen)[0]
    BY <1>3
  <2>2. ByteAt(Conn.data, h[1] + 0) = m.start + 0
    BY <2>1, <1>5 DEF Bytes, Signature
  <2>3. 0 \in 0 .. (m.len - 1)
    BY <1>5
  <2>4. h[1] + 0 \in DOMAIN Conn.data /\ Conn.data[h[1] + 0] = r.pos + h[1] + 0
    BY <2>3, <1>9
  <2> QED  BY <2>2, <2>4, <1>4, <1>5, <1>8 DEF ByteAt
<1>11. \A k \in 0 .. (m.len - 1) : ByteAt(Conn.data, h[1] + k) = m.start + k
  BY <1>9, <1>10, <1>4, <1>5, <1>8 DEF ByteAt
<1>12. Bytes(Conn, h[1], m.len) = Signature(m, m.len)
  BY <1>11 DEF Bytes, Signature
<1>13. \A k \in 0 .. (m.len - 1) : \E o \in DOMAIN Conn.data : Conn.data[o] = m.start + k
  BY <1>9, <1>10, <1>4, <1>5, <1>8
<1> QED  BY <1>4, <1>12, <1>13 DEF m

\* The files handed on change only by FindMedia.
LEMMA FoundStep ==
    ASSUME Inv, [Next]_vars
    PROVE  \/ UNCHANGED found
           \/ /\ pc = "scan" /\ UNCHANGED slots
              /\ \E h \in Signatures(Conn, ptr, End(Scanned)) :
                    /\ h[1] + h[2].len <= End(Scanned)
                    /\ (dispatched \cup dropped)' = dispatched \cup dropped \cup
                          {[src |-> Conn.src, dst |-> Conn.dst,
                            bytes |-> Bytes(Conn, h[1], h[2].len)]}
<1>1. ASSUME NEW full \in LimitReached, FindMedia(full)
      PROVE  /\ pc = "scan" /\ UNCHANGED slots
             /\ \E h \in Signatures(Conn, ptr, End(Scanned)) :
                   /\ h[1] + h[2].len <= End(Scanned)
                   /\ (dispatched \cup dropped)' = dispatched \cup dropped \cup
                         {[src |-> Conn.src, dst |-> Conn.dst,
                           bytes |-> Bytes(Conn, h[1], h[2].len)]}
  <2>1. PICK h \in Signatures(Conn, ptr, End(Scanned)) :
          /\ h[1] + h[2].len <= End(Scanned)
          /\ LET media == [src |-> Conn.src, dst |-> Conn.dst,
                           bytes |-> Bytes(Conn, h[1], h[2].len)]
             IN  /\ dispatched' = IF full THEN dispatched ELSE dispatched \cup {media}
                 /\ dropped' = IF full THEN dropped \cup {media} ELSE dropped
    BY <1>1 DEF FindMedia
  <2>2. (dispatched \cup dropped)' = dispatched \cup dropped \cup
          {[src |-> Conn.src, dst |-> Conn.dst, bytes |-> Bytes(Conn, h[1], h[2].len)]}
    <3>1. CASE full
      BY <2>1, <3>1
    <3>2. CASE ~full
      BY <2>1, <3>2
    <3> QED  BY <3>1, <3>2
  <2>3. pc = "scan" /\ UNCHANGED slots
    BY <1>1 DEF FindMedia, table
  <2> QED  BY <2>1, <2>2, <2>3
<1>2. CASE ~\E full \in LimitReached : FindMedia(full)
  BY <1>2, ZenonT(30) DEF Next, Handle, Extract, ExtractBlock, ExtractReturn, Scan, FindNothing, FindPart,
     ScanDone, FinFlag, Sweep, SweepDiscard, SweepKeep, SweepDelete, SweepReturn, Tick,
     ProcessPacket, ResetPacket, DataPacket, EmptyPacket, vars, found
<1> QED  BY <1>1, <1>2

\* Every step keeps the bytes where the stream has them.
LEMMA BytesStep ==
    ASSUME OneStretch, Inv, BytesInv, [Next]_vars
    PROVE  BytesInv'
<1>1. MemoryBounded'
  BY MemoryStep DEF BytesInv
<1>2. \A j \in Live' : \E p \in Packets : BeganWith(slots'[j], p)
  BY BeganStep
<1>3. MediaIntact'
  <2>1. CASE UNCHANGED found
    BY <2>1 DEF BytesInv, MediaIntact, found
  <2>2. ASSUME pc = "scan",
               NEW h \in Signatures(Conn, ptr, End(Scanned)), h[1] + h[2].len <= End(Scanned),
               (dispatched \cup dropped)' = dispatched \cup dropped \cup
                  {[src |-> Conn.src, dst |-> Conn.dst, bytes |-> Bytes(Conn, h[1], h[2].len)]}
        PROVE  MediaIntact'
    <3>1. h[2] \in Media /\ Bytes(Conn, h[1], h[2].len) = Signature(h[2], h[2].len)
      BY <2>2, FoundIsMedia
    <3>2. \A f \in dispatched \cup dropped : \E m \in Media : f.bytes = Signature(m, m.len)
      BY DEF BytesInv, MediaIntact
    <3>3. \A f \in (dispatched \cup dropped)' : \E m \in Media : f.bytes = Signature(m, m.len)
      BY <2>2, <3>1, <3>2
    <3> QED  BY <3>3 DEF MediaIntact, Signature
  <2> QED  BY <2>1, <2>2, FoundStep
<1> QED  BY <1>1, <1>2, <1>3 DEF BytesInv, BeganWith

\* BytesInv holds in every reachable state.
LEMMA BytesInvariance == ASSUME OneStretch PROVE Spec => []BytesInv
<1>1. Init => BytesInv
  BY DEF Init, BytesInv, MemoryBounded, MediaIntact, Live
<1>2. Inv /\ BytesInv /\ [Next]_vars => BytesInv'
  BY BytesStep
<1> QED  BY Invariance, <1>1, <1>2, PTL DEF Spec

\* What began with a packet holds its bytes in the order of the stream.
LEMMA OrderFromBeginning == Inv /\ BytesInv => StreamOrder
<1> SUFFICES ASSUME Inv, BytesInv, NEW i \in Live,
                    NEW o \in DOMAIN slots[i].data, NEW q \in DOMAIN slots[i].data
             PROVE  slots[i].data[q] - slots[i].data[o] = q - o
  BY DEF StreamOrder
<1>1. PICK p \in Packets : BeganWith(slots[i], p)
  BY DEF BytesInv
<1>2. p.pos \in Nat /\ o \in Nat /\ q \in Nat
  BY PcapAssumption DEF Packet, Inv, TypeOK, IsConnection
<1>3. slots[i].data[q] = p.pos + q /\ slots[i].data[o] = p.pos + o
  BY <1>1 DEF BeganWith
<1> QED  BY <1>2, <1>3

\* Bytes lie in the buffer at the distance they have in the stream, whatever is
\* lost, repeated or out of order, as long as sequence numbers do not wrap.
\* (process_packet's offset, connection_push's memcpy)
THEOREM StreamKeepsOrder == ASSUME OneStretch PROVE Spec => []StreamOrder
BY Invariance, BytesInvariance, OrderFromBeginning, PTL

\* Under the same condition what is handed on is a media file as it was sent.
\* (extract_media's search of one block, from where it left off)
THEOREM FoundAsSent == ASSUME OneStretch PROVE Spec => []MediaIntact
<1>1. BytesInv => MediaIntact
  BY DEF BytesInv
<1> QED  BY BytesInvariance, <1>1, PTL

-----------------------------------------------------------------------------
(* The search: it misses nothing by resuming where it left off. *)

\* SearchInv with the files handed on as a parameter: what a block, and the
\* bytes at the offsets S, must have given when these are the files F.
Given(c, m, F) ==
    [src |-> c.src, dst |-> c.dst, bytes |-> Signature(m, m.len)] \in F

GivenAt(c, S, F) == \A o \in S : \A m \in Media : c.data[o] = m.start => Given(c, m, F)

BeforeMoff(b) == b.off .. (b.off + b.moff - 1)

BlockDone(c, b, F) ==
    /\ BeforeMoff(b) \subseteq DOMAIN c.data
    /\ GivenAt(c, BeforeMoff(b), F)
    /\ ~b.dirty => \A m \in Media : \A o \in b.off .. (End(b) - m.len) :
                        c.data[o] = m.start => Given(c, m, F)

\* The search of connection c from offset `from' has come to offset `to'; it will
\* stop before `end' only when no whole file is ahead.
ScanCame(c, from, to, old, end, F) ==
    /\ from .. (to - 1) \subseteq DOMAIN c.data
    /\ GivenAt(c, from .. (to - 1), F)
    /\ to = old => \A m \in Media : \A o \in to .. (end - m.len) : c.data[o] # m.start

\* SearchInv says that of every block and of the search under way, before a step
\* and after it.
LEMMA SearchIs ==
    /\ SearchInv <=>
          /\ \A i \in Live : \A b \in slots[i].blocks :
                BlockDone(slots[i], b, dispatched \cup dropped)
          /\ pc = "scan" =>
                ScanCame(Conn, boff, ptr, oldptr, End(Scanned), dispatched \cup dropped)
    /\ SearchInv' <=>
          /\ \A i \in Live' : \A b \in slots'[i].blocks :
                BlockDone(slots'[i], b, (dispatched \cup dropped)')
          /\ pc' = "scan" =>
                ScanCame(Conn', boff', ptr', oldptr', End(Scanned'), (dispatched \cup dropped)')
BY DEF SearchInv, BlockSearched, ReportedAt, Reported, BlockDone, BeforeMoff, GivenAt, Given,
       ScanCame, Signature, End, Conn

\* What was searched stays searched when a connection gets more bytes, or when
\* more files are handed on.
LEMMA DoneStays ==
    ASSUME NEW c, NEW d, NEW b \in Block, NEW F, NEW G, BlockDone(c, b, F), F \subseteq G,
           d.src = c.src, d.dst = c.dst, DOMAIN c.data \subseteq DOMAIN d.data,
           \A o \in DOMAIN c.data : d.data[o] = c.data[o],
           Extent(b) \subseteq DOMAIN c.data
    PROVE  BlockDone(d, b, G)
<1>1. \A m : Given(c, m, F) => Given(d, m, G)
  BY DEF Given
<1>2. BeforeMoff(b) \subseteq DOMAIN d.data /\ GivenAt(d, BeforeMoff(b), G)
  BY <1>1 DEF BlockDone, GivenAt
<1>3. ASSUME ~b.dirty, NEW m \in Media, NEW o \in b.off .. (End(b) - m.len),
             d.data[o] = m.start
      PROVE  Given(d, m, G)
  <2>1. m.len \in Nat /\ m.len >= 1 /\ b.off \in Nat /\ End(b) \in Nat
    BY PcapAssumption, EndOfBlock
  <2>2. o \in DOMAIN c.data
    BY <2>1 DEF Extent
  <2>3. Given(c, m, F)
    BY <1>3, <2>2 DEF BlockDone
  <2> QED  BY <2>3, <1>1
<1> QED  BY <1>2, <1>3 DEF BlockDone

\* A push leaves a block as it is, or makes a block to be searched from its
\* start, or from where the search of the block it continues had come to.
LEMMA PushedBlocks ==
    ASSUME NEW blocks \in SUBSET Block, NEW off \in Nat, NEW len \in Nat \ {0},
           NEW b \in PushBlock(blocks, off, len)
    PROVE  \/ b \in blocks
           \/ b.dirty /\ b.moff = 0
           \/ b.dirty /\ \E a \in blocks : b.off = a.off /\ b.moff = a.moff
<1> DEFINE left == Absorber(blocks, off)
           right == Absorbed(blocks, off, len)
           fresh == NewBlock(off, len)
           first == IF left = {} THEN fresh ELSE Combine(CHOOSE a \in left : TRUE, fresh)
           whole == IF right = {} THEN first ELSE Combine(first, CHOOSE a \in right : TRUE)
<1>1. b \in blocks \/ b = whole
  BY DEF PushBlock
<1>2. whole.off = first.off /\ whole.moff = first.moff /\ (whole.dirty <=> TRUE)
  BY DEF Combine, NewBlock
<1>3. CASE left = {}
  <2>1. first.moff = 0
    BY <1>3 DEF NewBlock
  <2> HIDE DEF whole, first
  <2> QED  BY <1>1, <1>2, <2>1
<1>4. CASE left # {}
  <2>1. PICK a \in left : first = Combine(a, fresh)
    BY <1>4
  <2>2. a \in blocks /\ first.off = a.off /\ first.moff = a.moff
    BY <2>1 DEF Combine, Absorber
  <2> HIDE DEF whole, first
  <2> QED  BY <1>1, <1>2, <2>2
<1> QED  BY <1>3, <1>4

\* A segment pushed to a connection takes back nothing of what was searched.
LEMMA DoneAfterPush ==
    ASSUME NEW c, IsConnection(c, Addrs), Separated(c.blocks),
           Covered(c.blocks) \subseteq DOMAIN c.data, NEW r, BeganWith(c, r), NEW F, NEW G, F \subseteq G,
           \A b \in c.blocks : BlockDone(c, b, F),
           NEW pos, NEW off \in Nat, NEW len \in Nat \ {0}, NEW now,
           NEW d, d = connection_push(c, pos, off, len, now), BeganWith(d, r),
           NEW b \in d.blocks
    PROVE  BlockDone(d, b, G)
<1>1. /\ c.blocks \in SUBSET Block /\ d.src = c.src /\ d.dst = c.dst
      /\ d.blocks = PushBlock(c.blocks, off, len) /\ DOMAIN c.data \subseteq DOMAIN d.data
  BY DEF connection_push, CopyBytes, IsConnection
<1>2. \A o \in DOMAIN c.data : d.data[o] = c.data[o]
  BY <1>1 DEF BeganWith
<1>3. \A a \in c.blocks : BlockDone(d, a, G)
  BY <1>1, <1>2, DoneStays DEF Covered
<1>4. CASE b \in c.blocks
  BY <1>3, <1>4
<1>5. ASSUME b.dirty, b.moff = 0 PROVE BlockDone(d, b, G)
  <2>1. b \in Block
    BY <1>1, PushBlockSeparated
  <2>2. BeforeMoff(b) = {}
    BY <1>5, <2>1 DEF BeforeMoff, Block
  <2> QED  BY <1>5, <2>2 DEF BlockDone, GivenAt
<1>6. ASSUME b.dirty, NEW a \in c.blocks, b.off = a.off, b.moff = a.moff
      PROVE  BlockDone(d, b, G)
  <2>1. BeforeMoff(b) = BeforeMoff(a)
    BY <1>6 DEF BeforeMoff
  <2> QED  BY <1>3, <1>6, <2>1 DEF BlockDone
<1> QED  BY <1>1, <1>4, <1>5, <1>6, PushedBlocks

\* The bytes of the block being searched lie one after the other, so that the
\* signature of a file is there where its first byte is.
LEMMA SignaturesAre ==
    ASSUME Inv, BytesInv, pc = "scan"
    PROVE  \E s \in Nat :
             /\ \A o \in DOMAIN Conn.data : Conn.data[o] = s + o
             /\ \A o \in boff .. (End(Scanned) - 1) : o \in DOMAIN Conn.data
             /\ \A h \in Signatures(Conn, ptr, End(Scanned)) :
                   /\ h[1] \in ptr .. (End(Scanned) - HdrLen) /\ h[2] \in Media
                   /\ h[2].start = s + h[1]
             /\ \A o \in ptr .. (End(Scanned) - HdrLen) : \A m \in Media :
                   m.start = s + o => <<o, m>> \in Signatures(Conn, ptr, End(Scanned))
<1> DEFINE e == End(Scanned)
<1>1. /\ cur \in Live /\ Scanned \in Conn.blocks /\ Scanned \in Block
      /\ Scanned.off = boff
  BY ScannedBlock
<1>2. ptr \in Nat /\ boff \in Nat /\ boff <= ptr /\ e \in Nat
  BY <1>1, EndOfBlock DEF Inv, TypeOK, ControlOK
<1>3. \A o \in boff .. (e - 1) : o \in DOMAIN Conn.data
  BY <1>1 DEF Inv, SearchOnlyReceived, Covered, Extent, Conn
<1>4. PICK r \in Packets : BeganWith(Conn, r)
  BY <1>1 DEF BytesInv, Conn
<1>5. r.pos \in Nat /\ \A o \in DOMAIN Conn.data : Conn.data[o] = r.pos + o
  BY <1>4, PcapAssumption DEF Packet, BeganWith
<1>6. HdrLen \in Nat \ {0} /\ \A m \in Media : m.start \in Nat
  BY PcapAssumption
<1> HIDE DEF e
<1>7. ASSUME NEW o \in ptr .. (e - HdrLen), NEW k \in 0 .. (HdrLen - 1)
      PROVE  ByteAt(Conn.data, o + k) = r.pos + o + k
  <2>1. o + k \in boff .. (e - 1)
    BY <1>2, <1>6, <1>7
  <2>2. ByteAt(Conn.data, o + k) = r.pos + (o + k)
    BY <2>1, <1>3, <1>5 DEF ByteAt
  <2> QED  BY <2>2, <1>2, <1>5, <1>6, <1>7
<1>8. ASSUME NEW h \in Signatures(Conn, ptr, e)
      PROVE  /\ h[1] \in ptr .. (e - HdrLen) /\ h[2] \in Media
             /\ h[2].start = r.pos + h[1]
  <2>1. /\ h[1] \in ptr .. (e - HdrLen) /\ h[2] \in Media
        /\ Bytes(Conn, h[1], HdrLen) = Signature(h[2], HdrLen)
    BY DEF Signatures
  <2>2. Bytes(Conn, h[1], HdrLen)[0] = Signature(h[2], HdrLen)[0]
    BY <2>1
  <2>3. 0 \in 0 .. (HdrLen - 1)
    BY <1>6
  <2>4. ByteAt(Conn.data, h[1] + 0) = h[2].start + 0
    BY <2>2, <2>3 DEF Bytes, Signature
  <2>5. ByteAt(Conn.data, h[1] + 0) = r.pos + h[1] + 0
    BY <2>1, <2>3, <1>7
  <2> QED  BY <2>1, <2>4, <2>5, <1>2, <1>5, <1>6
<1>9. ASSUME NEW o \in ptr .. (e - HdrLen), NEW m \in Media, m.start = r.pos + o
      PROVE  <<o, m>> \in Signatures(Conn, ptr, e)
  <2>1. \A k \in 0 .. (HdrLen - 1) : ByteAt(Conn.data, o + k) = m.start + k
    BY <1>7, <1>9
  <2>2. Bytes(Conn, o, HdrLen) = Signature(m, HdrLen)
    BY <2>1 DEF Bytes, Signature
  <2> QED  BY <2>2 DEF Signatures
<1> QED  BY <1>3, <1>5, <1>8, <1>9 DEF e

\* A step of the search over a block: where it comes to, what it has found there.
LEMMA FindNothingCame ==
    ASSUME Inv, BytesInv, FindNothing, NEW F,
           ScanCame(Conn, boff, ptr, oldptr, End(Scanned), F)
    PROVE  ScanCame(Conn, boff, ptr', ptr, End(Scanned), F)
<1>1. pc = "scan" /\ Signatures(Conn, ptr, End(Scanned)) = {} /\ ptr < End(Scanned)
  BY DEF FindNothing, ScanGoesOn
<1>2. PICK s \in Nat :
             /\ \A o \in DOMAIN Conn.data : Conn.data[o] = s + o
             /\ \A o \in boff .. (End(Scanned) - 1) : o \in DOMAIN Conn.data
             /\ \A o \in ptr .. (End(Scanned) - HdrLen) : \A m \in Media :
                   m.start = s + o => <<o, m>> \in Signatures(Conn, ptr, End(Scanned))
  BY <1>1, SignaturesAre
<1>3. PICK e : e = End(Scanned)
  OBVIOUS
<1>4. ptr \in Nat /\ boff \in Nat /\ boff <= ptr /\ e \in Nat
  BY <1>1, <1>3, ScannedBlock, EndOfBlock DEF Inv, TypeOK, ControlOK
<1>5. HdrLen \in Nat \ {0} /\ \A m \in Media : m.start \in Nat /\ m.len \in Nat /\ m.len >= HdrLen
  BY PcapAssumption
<1>6. ptr' = IF e - ptr < HdrLen THEN ptr ELSE e - HdrLen
  BY <1>3 DEF FindNothing
<1>7. \A o \in ptr .. (e - HdrLen) : \A m \in Media : o \in DOMAIN Conn.data => Conn.data[o] # m.start
  BY <1>1, <1>2, <1>3
<1>8. ptr' \in Nat /\ ptr <= ptr' /\ ptr' <= e
  BY <1>1, <1>3, <1>4, <1>5, <1>6
<1>9. boff .. (ptr' - 1) \subseteq DOMAIN Conn.data
  <2>1. PICK q : q = ptr'
    OBVIOUS
  <2>2. q \in Int /\ boff \in Int /\ e \in Int /\ q <= e
    BY <2>1, <1>4, <1>8
  <2>3. \A o \in boff .. (q - 1) : o \in boff .. (e - 1)
    BY <2>2
  <2> QED  BY <2>1, <2>3, <1>2, <1>3
<1>10. ASSUME NEW o \in boff .. (ptr' - 1), NEW m \in Media, Conn.data[o] = m.start
       PROVE  Given(Conn, m, F)
  <2>1. CASE o \in boff .. (ptr - 1)
    BY <1>10, <2>1 DEF ScanCame, GivenAt
  <2>2. CASE o \notin boff .. (ptr - 1)
    <3>1. o \in ptr .. (e - HdrLen)
      BY <2>2, <1>4, <1>5, <1>6, <1>8
    <3> QED  BY <3>1, <1>7, <1>9, <1>10
  <2> QED  BY <2>1, <2>2
<1>11. ASSUME ptr' = ptr, NEW m \in Media, NEW o \in ptr' .. (e - m.len)
       PROVE  Conn.data[o] # m.start
  <2>1. o \in ptr .. (e - HdrLen) /\ o \in boff .. (e - 1)
    BY <1>4, <1>5, <1>11
  <2> QED  BY <2>1, <1>2, <1>3, <1>7
<1> QED  BY <1>3, <1>9, <1>10, <1>11 DEF ScanCame, GivenAt

\* A driver that sees the head of a file but not its end stops at the head, so that the
\* next search begins there.
LEMMA FindPartCame ==
    ASSUME MediaApart, Inv, BytesInv, FindPart, NEW F,
           ScanCame(Conn, boff, ptr, oldptr, End(Scanned), F)
    PROVE  ScanCame(Conn, boff, ptr', ptr, End(Scanned), F)
<1>1. pc = "scan" /\ ptr < End(Scanned)
  BY DEF FindPart, ScanGoesOn
<1>2. PICK s \in Nat :
             /\ \A o \in DOMAIN Conn.data : Conn.data[o] = s + o
             /\ \A o \in boff .. (End(Scanned) - 1) : o \in DOMAIN Conn.data
             /\ \A h \in Signatures(Conn, ptr, End(Scanned)) :
                   /\ h[1] \in ptr .. (End(Scanned) - HdrLen) /\ h[2] \in Media
                   /\ h[2].start = s + h[1]
             /\ \A o \in ptr .. (End(Scanned) - HdrLen) : \A m \in Media :
                   m.start = s + o => <<o, m>> \in Signatures(Conn, ptr, End(Scanned))
  BY <1>1, SignaturesAre
<1>3. PICK e : e = End(Scanned)
  OBVIOUS
<1>4. ptr \in Nat /\ boff \in Nat /\ boff <= ptr /\ e \in Nat
  BY <1>1, <1>3, ScannedBlock, EndOfBlock DEF Inv, TypeOK, ControlOK
<1>5. HdrLen \in Nat \ {0} /\ \A m \in Media : m.start \in Nat /\ m.len \in Nat /\ m.len >= HdrLen
  BY PcapAssumption
<1>6. PICK h \in Signatures(Conn, ptr, e) :
         /\ FirstSignature(Conn, ptr, e, h) /\ h[1] + h[2].len > e /\ ptr' = h[1]
  BY <1>3 DEF FindPart
<1>7. /\ h[1] \in ptr .. (e - HdrLen) /\ h[2] \in Media /\ h[2].start = s + h[1]
      /\ h[1] \in Nat /\ h[2].len \in Nat /\ h[2].start \in Nat
  BY <1>2, <1>3, <1>4, <1>5, <1>6
<1>8. boff .. (ptr' - 1) \subseteq DOMAIN Conn.data
  BY <1>2, <1>3, <1>4, <1>5, <1>6, <1>7
<1>9. ASSUME NEW o \in boff .. (ptr' - 1), NEW m \in Media, Conn.data[o] = m.start
      PROVE  Given(Conn, m, F)
  <2>1. CASE o \in boff .. (ptr - 1)
    BY <1>9, <2>1 DEF ScanCame, GivenAt
  <2>2. CASE o \notin boff .. (ptr - 1)
    <3>1. o \in ptr .. (e - HdrLen) /\ o < h[1]
      BY <2>2, <1>4, <1>5, <1>6, <1>7
    <3>2. <<o, m>> \in Signatures(Conn, ptr, e)
      BY <3>1, <1>2, <1>3, <1>8, <1>9
    <3>3. h[1] <= <<o, m>>[1]
      BY <3>2, <1>6 DEF FirstSignature
    <3> QED  BY <3>1, <3>3, <1>7
  <2> QED  BY <2>1, <2>2
<1>10. ASSUME ptr' = ptr, NEW m \in Media, NEW o \in ptr' .. (e - m.len)
       PROVE  Conn.data[o] # m.start
  <2> SUFFICES ASSUME Conn.data[o] = m.start PROVE FALSE
    OBVIOUS
  <2>1. o \in boff .. (e - 1) /\ o \in Nat /\ h[1] <= o /\ o + m.len <= e
    BY <1>4, <1>5, <1>6, <1>7, <1>10
  <2>2. m.start = s + o
    BY <2>1, <1>2, <1>3
  <2>3. CASE m = h[2]
    BY <2>1, <2>2, <2>3, <1>4, <1>6, <1>7
  <2>4. CASE m # h[2]
    <3>1. m.start + m.len <= h[2].start \/ h[2].start + h[2].len <= m.start
      BY <2>4, <1>7 DEF MediaApart
    <3> QED  BY <3>1, <2>1, <2>2, <1>4, <1>5, <1>6, <1>7
  <2> QED  BY <2>3, <2>4
<1> QED  BY <1>3, <1>8, <1>9, <1>10 DEF ScanCame, GivenAt

\* A driver that sees a whole file hands it on and goes on behind it.
LEMMA FindMediaCame ==
    ASSUME MediaApart, Inv, BytesInv, NEW full, FindMedia(full),
           ScanCame(Conn, boff, ptr, oldptr, End(Scanned), dispatched \cup dropped)
    PROVE  ScanCame(Conn, boff, ptr', ptr, End(Scanned), (dispatched \cup dropped)')
<1>1. pc = "scan" /\ ptr < End(Scanned)
  BY DEF FindMedia, ScanGoesOn
<1>2. PICK s \in Nat :
             /\ \A o \in DOMAIN Conn.data : Conn.data[o] = s + o
             /\ \A o \in boff .. (End(Scanned) - 1) : o \in DOMAIN Conn.data
             /\ \A h \in Signatures(Conn, ptr, End(Scanned)) :
                   /\ h[1] \in ptr .. (End(Scanned) - HdrLen) /\ h[2] \in Media
                   /\ h[2].start = s + h[1]
             /\ \A o \in ptr .. (End(Scanned) - HdrLen) : \A m \in Media :
                   m.start = s + o => <<o, m>> \in Signatures(Conn, ptr, End(Scanned))
  BY <1>1, SignaturesAre
<1>3. PICK e : e = End(Scanned)
  OBVIOUS
<1>4. ptr \in Nat /\ boff \in Nat /\ boff <= ptr /\ e \in Nat
  BY <1>1, <1>3, ScannedBlock, EndOfBlock DEF Inv, TypeOK, ControlOK
<1>5. HdrLen \in Nat \ {0} /\ \A m \in Media : m.start \in Nat /\ m.len \in Nat /\ m.len >= HdrLen
  BY PcapAssumption
<1>6. PICK h \in Signatures(Conn, ptr, e) :
         /\ FirstSignature(Conn, ptr, e, h) /\ h[1] + h[2].len <= e
         /\ LET media == [src |-> Conn.src, dst |-> Conn.dst,
                          bytes |-> Bytes(Conn, h[1], h[2].len)]
            IN  /\ dispatched' = IF full THEN dispatched ELSE dispatched \cup {media}
                /\ dropped' = IF full THEN dropped \cup {media} ELSE dropped
         /\ ptr' = h[1] + h[2].len
  BY <1>3 DEF FindMedia
<1>7. /\ h[1] \in ptr .. (e - HdrLen) /\ h[2] \in Media /\ h[2].start = s + h[1]
      /\ h[1] \in Nat /\ h[2].len \in Nat /\ h[2].start \in Nat /\ h[2].len > 0
  BY <1>2, <1>3, <1>4, <1>5, <1>6
<1>8. boff .. (ptr' - 1) \subseteq DOMAIN Conn.data
  <2>1. \A o \in boff .. (ptr' - 1) : o \in boff .. (e - 1)
    BY <1>4, <1>6, <1>7
  <2> QED  BY <2>1, <1>2, <1>3
<1>9. /\ dispatched \cup dropped \subseteq (dispatched \cup dropped)'
      /\ Given(Conn, h[2], (dispatched \cup dropped)')
  <2>1. Bytes(Conn, h[1], h[2].len) = Signature(h[2], h[2].len)
    BY <1>1, <1>3, <1>6, FoundIsMedia
  <2>2. CASE full
    BY <2>1, <2>2, <1>6 DEF Given
  <2>3. CASE ~full
    BY <2>1, <2>3, <1>6 DEF Given
  <2> QED  BY <2>2, <2>3
<1>10. ASSUME NEW o \in boff .. (ptr' - 1), NEW m \in Media, Conn.data[o] = m.start
       PROVE  Given(Conn, m, (dispatched \cup dropped)')
  <2>1. CASE o \in boff .. (ptr - 1)
    <3>1. Given(Conn, m, dispatched \cup dropped)
      BY <1>10, <2>1 DEF ScanCame, GivenAt
    <3> QED  BY <3>1, <1>9 DEF Given
  <2>2. CASE o \notin boff .. (ptr - 1)
    <3>1. o \in Nat /\ ptr <= o /\ o < h[1] + h[2].len
      BY <2>2, <1>4, <1>6, <1>7
    <3>2. m.start = s + o
      BY <1>2, <1>8, <1>10
    <3>3. h[1] <= o
      <4>1. CASE o \in ptr .. (e - HdrLen)
        <5>1. <<o, m>> \in Signatures(Conn, ptr, e)
          BY <4>1, <3>2, <1>2, <1>3
        <5>2. h[1] <= <<o, m>>[1]
          BY <5>1, <1>6 DEF FirstSignature
        <5> QED  BY <5>2
      <4>2. CASE o \notin ptr .. (e - HdrLen)
        BY <4>2, <3>1, <1>4, <1>5, <1>7
      <4> QED  BY <4>1, <4>2
    <3>4. m = h[2]
      <4> SUFFICES ASSUME m # h[2] PROVE FALSE
        OBVIOUS
      <4>1. m.start + m.len <= h[2].start \/ h[2].start + h[2].len <= m.start
        BY <1>7 DEF MediaApart
      <4> QED  BY <4>1, <3>1, <3>2, <3>3, <1>4, <1>5, <1>7
    <3> QED  BY <3>4, <1>9
  <2> QED  BY <2>1, <2>2
<1>11. ptr' # ptr
  BY <1>4, <1>6, <1>7
<1> QED  BY <1>3, <1>8, <1>10, <1>11 DEF ScanCame, GivenAt

\* A search that stops has gone through the whole block.
LEMMA BlockThrough ==
    ASSUME Inv, BytesInv, pc = "scan", ~ScanGoesOn, NEW F,
           ScanCame(Conn, boff, ptr, oldptr, End(Scanned), F)
    PROVE  BlockDone(Conn, Searched(Scanned, ptr - boff), F)
<1> DEFINE b == Searched(Scanned, ptr - boff)
<1>1. Scanned.off = boff /\ Scanned \in Block
  BY ScannedBlock
<1>2. PICK e : e = End(Scanned)
  OBVIOUS
<1>3. ptr \in Nat /\ boff \in Nat /\ boff <= ptr /\ e \in Nat
  BY <1>1, <1>2, EndOfBlock DEF Inv, TypeOK, ControlOK
<1>4. b.off = boff /\ b.moff = ptr - boff /\ End(b) = e
  BY <1>1, <1>2 DEF Searched, End
<1> HIDE DEF b
<1>5. BeforeMoff(b) = boff .. (ptr - 1)
  <2>1. b.off + (b.moff - 1) = ptr - 1
    BY <1>3, <1>4
  <2> QED  BY <2>1, <1>4 DEF BeforeMoff
<1>6. ASSUME NEW m \in Media, NEW o \in boff .. (e - m.len), Conn.data[o] = m.start
      PROVE  Given(Conn, m, F)
  <2>1. CASE o \in boff .. (ptr - 1)
    BY <1>6, <2>1 DEF ScanCame, GivenAt
  <2>2. CASE o \notin boff .. (ptr - 1)
    <3>1. m.len \in Nat /\ m.len >= 1
      BY PcapAssumption
    <3>2. o \in ptr .. (e - m.len) /\ ptr < e
      BY <2>2, <3>1, <1>3, <1>6
    <3>3. ptr = oldptr
      BY <3>2, <1>2 DEF ScanGoesOn
    <3> QED  BY <3>2, <3>3, <1>2, <1>6 DEF ScanCame
  <2> QED  BY <2>1, <2>2
<1> QED  BY <1>4, <1>5, <1>6 DEF BlockDone, ScanCame, b

\* The files handed on stay handed on.
LEMMA FoundGrows ==
    ASSUME Inv, [Next]_vars
    PROVE  dispatched \cup dropped \subseteq (dispatched \cup dropped)'
<1>1. CASE UNCHANGED found
  BY <1>1 DEF found
<1> QED  BY <1>1, FoundStep

\* Every block, after a step.
LEMMA BlocksDoneStep ==
    ASSUME OneStretch, Inv, BytesInv, SearchInv, [Next]_vars,
           NEW j \in Live', NEW b \in slots'[j].blocks
    PROVE  BlockDone(slots'[j], b, (dispatched \cup dropped)')
<1> DEFINE F == dispatched \cup dropped
<1> SUFFICES BlockDone(slots'[j], b, F')
  OBVIOUS
<1>1. F \subseteq F'
  BY FoundGrows
<1>2. \A i \in Live : \A a \in slots[i].blocks : BlockDone(slots[i], a, F)
  BY SearchIs
<1>3. \A i \in Live : IsConnection(slots[i], Addrs) /\ Separated(slots[i].blocks)
                      /\ Covered(slots[i].blocks) \subseteq DOMAIN slots[i].data
  BY DEF Inv, TypeOK, BlocksSeparated, SearchOnlyReceived
<1> HIDE DEF F
<1>4. ASSUME j \in Live, SameBytes(slots'[j], slots[j]), NEW a \in slots[j].blocks
      PROVE  BlockDone(slots'[j], a, F')
  <2>1. a \in Block /\ Extent(a) \subseteq DOMAIN slots[j].data
    BY <1>3, <1>4 DEF IsConnection, Covered
  <2> QED  BY <2>1, <1>1, <1>2, <1>4, DoneStays DEF SameBytes
<1>5. CASE j \in Live /\ SameBytes(slots'[j], slots[j]) /\ slots'[j].blocks = slots[j].blocks
  BY <1>4, <1>5
<1>6. CASE j \in Live /\ SameBytes(slots'[j], slots[j]) /\ ScanDone /\ j = cur
  <2>1. pc = "scan" /\ ~ScanGoesOn
    BY <1>6 DEF ScanDone
  <2>2. slots'[cur].blocks = (Conn.blocks \ {Scanned}) \cup {Searched(Scanned, ptr - boff)}
    BY <1>6 DEF ScanDone, Inv, TypeOK, Live, Conn, IsConnection
  <2>3. CASE b \in Conn.blocks
    BY <2>3, <1>4, <1>6 DEF Conn
  <2>4. CASE b = Searched(Scanned, ptr - boff)
    <3>1. BlockDone(Conn, b, F)
      BY <2>1, <2>4, SearchIs, BlockThrough DEF F, Conn
    <3>2. BlockDone(slots'[j], b, F')
      BY <3>1, <1>1, <1>6 DEF BlockDone, GivenAt, Given, SameBytes, Conn
    <3> QED  BY <3>2
  <2> QED  BY <2>2, <2>3, <2>4, <1>6
<1>7. ASSUME pc = "capture", NEW p \in Packets, NEW c, IsTarget(c, j, p), p.len > 0,
             ~TooFarAhead(c, Offset(p.seq, c.isn)),
             slots'[j] = connection_push(c, p.pos, Offset(p.seq, c.isn), p.len, clock)
      PROVE  BlockDone(slots'[j], b, F')
  <2>1. /\ IsConnection(c, Addrs) /\ c.len <= MAXCONNECTIONDATA
        /\ p.len \in Nat \ {0} /\ Offset(p.seq, c.isn) \in Nat
    BY <1>7, TargetOK DEF BytesInv
  <2>2. /\ Separated(c.blocks) /\ Covered(c.blocks) \subseteq DOMAIN c.data
        /\ \A a \in c.blocks : BlockDone(c, a, F)
    <3>1. CASE j \in Live /\ c = slots[j]
      BY <3>1, <1>2, <1>3
    <3>2. CASE c = connection_new(p.src, p.dst, p.seq, clock)
      <4>1. c.blocks = {}
        BY <3>2 DEF connection_new
      <4> QED  BY <4>1 DEF Separated, Covered
    <3> QED  BY <3>1, <3>2, <1>7 DEF IsTarget
  <2>3. PICK r \in Packets : BeganWith(c, r)
    <3>1. CASE j \in Live /\ c = slots[j]
      BY <3>1 DEF BytesInv
    <3>2. CASE c = connection_new(p.src, p.dst, p.seq, clock)
      BY <3>2 DEF BeganWith, connection_new
    <3> QED  BY <3>1, <3>2, <1>7 DEF IsTarget
  <2>4. BeganWith(slots'[j], r)
    BY <2>1, <2>3, <1>7, PushKeepsOrder DEF IsTarget
  <2> QED  BY <2>1, <2>2, <2>3, <2>4, <1>1, <1>7, DoneAfterPush
<1> QED  BY <1>5, <1>6, <1>7, StepOfConnection DEF F

\* The search under way, after a step.
LEMMA ScanCameStep ==
    ASSUME MediaApart, Inv, BytesInv, SearchInv, [Next]_vars, pc' = "scan"
    PROVE  ScanCame(Conn', boff', ptr', oldptr', End(Scanned'), (dispatched \cup dropped)')
<1>1. CASE ExtractBlock
  <2>1. PICK b \in Dirty : boff' = b.off /\ ptr' = b.off + b.moff
    BY <1>1 DEF ExtractBlock
  <2>2. cur \in Live /\ b \in Conn.blocks /\ b \in Block
    BY <1>1, <2>1 DEF ExtractBlock, Inv, ControlOK, TypeOK, IsConnection, Dirty, Conn
  <2>3. BlockDone(Conn, b, dispatched \cup dropped)
    BY <2>2, SearchIs DEF Conn
  <2>4. UNCHANGED <<slots, cur, dispatched, dropped>> /\ oldptr' = -1
    BY <1>1 DEF ExtractBlock, table, found
  <2>5. oldptr' # ptr'
    BY <2>1, <2>2, <2>4 DEF Block
  <2>6. BeforeMoff(b) = boff' .. (ptr' - 1)
    BY <2>1, <2>2 DEF BeforeMoff, Block
  <2>7. Conn' = Conn /\ (dispatched \cup dropped)' = dispatched \cup dropped
    BY <2>4 DEF Conn
  <2> QED  BY <2>3, <2>5, <2>6, <2>7 DEF ScanCame, BlockDone
<1>2. CASE ~ExtractBlock
  <2>1. pc = "scan" /\ (FindNothing \/ FindPart \/ (\E full \in LimitReached : FindMedia(full))
                        \/ Tick \/ UNCHANGED vars)
    <3>1. ~\E p \in Packets : ProcessPacket(p)
      BY ZenonT(30) DEF ProcessPacket, ResetPacket, DataPacket, EmptyPacket
    <3>2. ~(ExtractReturn \/ ScanDone \/ FinFlag \/ Sweep)
      BY DEF ExtractReturn, ScanDone, FinFlag, Sweep, SweepDiscard, SweepKeep, SweepDelete,
             SweepReturn, Inv, ControlOK
    <3>3. \/ FindNothing \/ FindPart \/ Tick \/ UNCHANGED vars
          \/ \E full \in LimitReached : FindMedia(full)
      BY <3>1, <3>2, <1>2 DEF Next, Handle, Extract, Scan
    <3>4. pc = "scan"
      BY <3>3 DEF FindNothing, FindPart, FindMedia, Tick, vars
    <3> QED  BY <3>3, <3>4
  <2>2. ScanCame(Conn, boff, ptr, oldptr, End(Scanned), dispatched \cup dropped)
    BY <2>1, SearchIs
  <2>3. UNCHANGED <<slots, cur, boff>>
    BY <2>1 DEF FindNothing, FindPart, FindMedia, Tick, vars, table, scan
  <2>4. Conn' = Conn /\ Scanned' = Scanned
    BY <2>3 DEF Conn, Scanned
  <2>5. ASSUME FindNothing \/ FindPart
        PROVE  ScanCame(Conn, boff, ptr', ptr, End(Scanned), dispatched \cup dropped)
    BY <2>2, <2>5, FindNothingCame, FindPartCame
  <2>6. CASE FindNothing \/ FindPart
    <3>1. oldptr' = ptr /\ UNCHANGED <<dispatched, dropped>>
      BY <2>6 DEF FindNothing, FindPart, found
    <3> QED  BY <3>1, <2>3, <2>4, <2>5, <2>6
  <2>7. CASE \E full \in LimitReached : FindMedia(full)
    <3>1. oldptr' = ptr
      BY <2>7 DEF FindMedia
    <3>2. ScanCame(Conn, boff, ptr', ptr, End(Scanned), (dispatched \cup dropped)')
      BY <2>2, <2>7, FindMediaCame
    <3> QED  BY <3>1, <3>2, <2>3, <2>4
  <2>8. CASE Tick \/ UNCHANGED vars
    <3>1. UNCHANGED <<ptr, oldptr, dispatched, dropped>>
      BY <2>8 DEF Tick, vars, scan, found
    <3> QED  BY <3>1, <2>2, <2>3, <2>4
  <2> QED  BY <2>1, <2>6, <2>7, <2>8
<1> QED  BY <1>1, <1>2

\* SearchInv holds in every reachable state.
LEMMA SearchInvariance == ASSUME OneStretch, MediaApart PROVE Spec => []SearchInv
<1>1. Init => SearchInv
  BY DEF Init, SearchInv, Live
<1>2. Inv /\ BytesInv /\ SearchInv /\ [Next]_vars => SearchInv'
  BY BlocksDoneStep, ScanCameStep, SearchIs
<1> QED  BY Invariance, BytesInvariance, <1>1, <1>2, PTL DEF Spec

\* Between packets every media file that lies within one block was handed on,
\* however its segments arrived: each search resumes at moff, and what lies before
\* it was found by an earlier one. (extract_media and the drivers' find_data)
THEOREM SearchMissesNothing == ASSUME OneStretch, MediaApart PROVE Spec => []SearchComplete
<1>1. Inv /\ SearchInv => SearchComplete
  <2> SUFFICES ASSUME Inv, SearchInv, AtRest, NEW i \in Live, NEW b \in slots[i].blocks,
                      NEW m \in Media, NEW o \in b.off .. (End(b) - m.len),
                      Bytes(slots[i], o, m.len) = Signature(m, m.len)
               PROVE  Reported(slots[i], m)
    BY DEF SearchComplete
  <2>1. ~b.dirty
    BY DEF Inv, OnlyCurrentDirty, AtRest
  <2>2. b \in Block
    BY DEF Inv, TypeOK, IsConnection
  <2>3. m.len \in Nat /\ m.len >= 1 /\ m.start \in Nat /\ b.off \in Nat /\ End(b) \in Nat
    BY <2>2, PcapAssumption, EndOfBlock
  <2>4. o \in DOMAIN slots[i].data
    <3>1. o \in Extent(b)
      BY <2>3 DEF Extent
    <3> QED  BY <3>1 DEF Inv, SearchOnlyReceived, Covered
  <2>5. Bytes(slots[i], o, m.len)[0] = Signature(m, m.len)[0] /\ 0 \in 0 .. (m.len - 1)
    BY <2>3
  <2>6. ByteAt(slots[i].data, o + 0) = m.start + 0
    BY <2>5 DEF Bytes, Signature
  <2>7. slots[i].data[o] = m.start
    BY <2>3, <2>4, <2>6 DEF ByteAt
  <2>8. BlockSearched(slots[i], b)
    BY DEF SearchInv
  <2> QED  BY <2>1, <2>7, <2>8 DEF BlockSearched
<1> QED  BY Invariance, SearchInvariance, <1>1, PTL

-----------------------------------------------------------------------------
(* The refinement of MediaStream. *)

\* The bytes a table t holds of direction q.
BytesAt(t, q) ==
    UNION {BytesIn(t[i]) : i \in {j \in DOMAIN t : t[j].src = q[1] /\ t[j].dst = q[2]}}

PairsDistinct(t) ==
    \A j, k \in DOMAIN t : t[j].src = t[k].src /\ t[j].dst = t[k].dst => j = k

\* Received, now and after a step, as a function of the table.
LEMMA ReceivedIs == /\ Received = [q \in Addrs \X Addrs |-> BytesAt(slots, q)]
                    /\ Received' = [q \in Addrs \X Addrs |-> BytesAt(slots', q)]
BY DEF Received, BytesAt, Matching

\* A table that agrees with t on what its connections hold, but for those of the
\* slots S that it no longer has.
LEMMA BytesWithout ==
    ASSUME NEW t, NEW u, PairsDistinct(t), NEW S, DOMAIN u = DOMAIN t \ S,
           \A j \in DOMAIN u : SameBytes(u[j], t[j]), NEW q
    PROVE  BytesAt(u, q) = IF \E j \in DOMAIN t \cap S : t[j].src = q[1] /\ t[j].dst = q[2]
                           THEN {} ELSE BytesAt(t, q)
<1>1. \A j \in DOMAIN u : j \in DOMAIN t /\ BytesIn(u[j]) = BytesIn(t[j])
                          /\ u[j].src = t[j].src /\ u[j].dst = t[j].dst
  BY DEF SameBytes, BytesIn
<1>2. CASE \E j \in DOMAIN t \cap S : t[j].src = q[1] /\ t[j].dst = q[2]
  BY <1>1, <1>2 DEF BytesAt, PairsDistinct
<1>3. CASE ~\E j \in DOMAIN t \cap S : t[j].src = q[1] /\ t[j].dst = q[2]
  <2>1. {j \in DOMAIN u : u[j].src = q[1] /\ u[j].dst = q[2]}
          = {j \in DOMAIN t : t[j].src = q[1] /\ t[j].dst = q[2]}
    BY <1>1, <1>3
  <2> QED  BY <1>1, <1>3, <2>1 DEF BytesAt
<1> QED  BY <1>2, <1>3

\* To look a packet's connection up, or to make it, adds no byte.
LEMMA BytesOfTableFor ==
    ASSUME Inv, pc = "capture", NEW p \in Packets, NEW i \in 1 .. (slotsalloc + 1),
           SlotFor(p, i), NEW q
    PROVE  BytesAt(TableFor(p, i), q) = BytesAt(slots, q)
<1> DEFINE t == TableFor(p, i)
<1>1. DOMAIN t = Live \cup {i}
  BY TableForPacket
<1>2. \A j \in DOMAIN t : \/ j \in Live /\ t[j] = slots[j]
                          \/ j = i /\ j \notin Live /\ BytesIn(t[j]) = {}
  BY TableOfPacket DEF connection_new, BytesIn
<1> HIDE DEF t
<1>3. \A b : b \in BytesAt(t, q) <=> b \in BytesAt(slots, q)
  BY <1>1, <1>2 DEF BytesAt, Live
<1> QED  BY <1>3 DEF t

\* The abstract variables that stay as they are.
LEMMA SameTableStep ==
    ASSUME DOMAIN slots' = DOMAIN slots,
           \A j \in DOMAIN slots : SameBytes(slots'[j], slots[j])
    PROVE  Received' = Received
<1>1. \A q : BytesAt(slots', q) = BytesAt(slots, q)
  <2>1. \A j \in DOMAIN slots : BytesIn(slots'[j]) = BytesIn(slots[j])
                          /\ slots'[j].src = slots[j].src /\ slots'[j].dst = slots[j].dst
    BY DEF SameBytes, BytesIn
  <2>2. \A q : {j \in DOMAIN slots' : slots'[j].src = q[1] /\ slots'[j].dst = q[2]}
                 = {j \in DOMAIN slots : slots[j].src = q[1] /\ slots[j].dst = q[2]}
    BY <2>1
  <2> QED  BY <2>1, <2>2 DEF BytesAt
<1> QED  BY <1>1, ReceivedIs

\* Connections that go away are forgotten.
LEMMA ForgetStep ==
    ASSUME NEW t, PairsDistinct(t), \A q : BytesAt(t, q) = BytesAt(slots, q),
           NEW S, DOMAIN slots' = DOMAIN t \ S,
           \A j \in DOMAIN slots' : slots'[j] = t[j],
           UNCHANGED found
    PROVE  Stream!Forget
<1> DEFINE Q == {q \in Addrs \X Addrs :
                    \E j \in DOMAIN t \cap S : t[j].src = q[1] /\ t[j].dst = q[2]}
<1>1. \A q : BytesAt(slots', q) =
                 IF \E j \in DOMAIN t \cap S : t[j].src = q[1] /\ t[j].dst = q[2]
                 THEN {} ELSE BytesAt(slots, q)
  BY BytesWithout DEF SameBytes
<1>2. Received' = [q \in Addrs \X Addrs |-> IF q \in Q THEN {} ELSE Received[q]]
  BY <1>1, ReceivedIs
<1>3. Q \in SUBSET (Addrs \X Addrs)
  OBVIOUS
<1> HIDE DEF Q
<1> QED  BY <1>2, <1>3 DEF Stream!Forget, Stream!Directions, found

\* A RST, or a packet without data for us.
LEMMA ResetForgets ==
    ASSUME Inv, pc = "capture", NEW p \in Packets, NEW i \in 1 .. (slotsalloc + 1),
           SlotFor(p, i), ResetPacket(p, i)
    PROVE  Stream!Forget
<1> DEFINE t == TableFor(p, i)
           u == Without(t, {i})
           back == {j \in DOMAIN u : u[j].src = p.dst /\ u[j].dst = p.src}
           gone == {j \in back : First(j, back)}
<1>1. PairsDistinct(t) /\ \A q : BytesAt(t, q) = BytesAt(slots, q)
  BY TableForPacket, BytesOfTableFor, ZenonT(30) DEF PairsDistinct
<1>2. slots' = Without(u, gone) /\ UNCHANGED found
  BY DEF ResetPacket
<1> HIDE DEF t, gone
<1>3. /\ DOMAIN slots' = DOMAIN t \ ({i} \cup gone)
      /\ \A j \in DOMAIN slots' : slots'[j] = t[j]
  BY <1>2 DEF Without
<1> QED  BY <1>1, <1>2, <1>3, ForgetStep

\* A packet without data changes nothing MediaStream speaks of.
LEMMA EmptyStutters ==
    ASSUME Inv, pc = "capture", NEW p \in Packets, NEW i \in 1 .. (slotsalloc + 1),
           SlotFor(p, i), EmptyPacket(p, i)
    PROVE  UNCHANGED <<Received, found>>
<1>1. \A q : BytesAt(slots', q) = BytesAt(slots, q)
  BY BytesOfTableFor DEF EmptyPacket
<1> QED  BY <1>1, ReceivedIs DEF EmptyPacket

\* A segment that is copied adds bytes, and takes none away: what it writes over
\* is what it brings.
LEMMA DataReceives ==
    ASSUME OneStretch, Inv, BytesInv, pc = "capture",
           NEW p \in Packets, NEW i \in 1 .. (slotsalloc + 1),
           SlotFor(p, i), DataPacket(p, i)
    PROVE  Stream!Receive
<1> DEFINE t == TableFor(p, i)
           c == t[i]
           d == connection_push(c, p.pos, Offset(p.seq, c.isn), p.len, clock)
           q0 == <<p.src, p.dst>>
<1>1. /\ DOMAIN t = Live \cup {i} /\ c.src = p.src /\ c.dst = p.dst
      /\ \A j, k \in DOMAIN t : t[j].src = t[k].src /\ t[j].dst = t[k].dst => j = k
      /\ \A q : BytesAt(t, q) = BytesAt(slots, q)
  BY TableForPacket, BytesOfTableFor
<1>2. slots' = [t EXCEPT ![i] = d] /\ ~TooFarAhead(c, Offset(p.seq, c.isn)) /\ UNCHANGED found
  BY DEF DataPacket
<1>3. IsTarget(c, i, p)
  BY <1>1, TableOfPacket DEF IsTarget
<1>4. IsConnection(c, Addrs) /\ c.len <= MAXCONNECTIONDATA
  BY <1>3, TargetOK DEF BytesInv
<1>5. PICK r \in Packets : BeganWith(c, r)
  <2>1. CASE i \in Live /\ c = slots[i]
    BY <2>1 DEF BytesInv
  <2>2. CASE c = connection_new(p.src, p.dst, p.seq, clock)
    BY <2>2 DEF BeganWith, connection_new
  <2> QED  BY <2>1, <2>2, <1>3 DEF IsTarget
<1> HIDE DEF t, c
<1>6. BeganWith(d, r)
  BY <1>1, <1>2, <1>4, <1>5, PushKeepsOrder
<1>7. DOMAIN c.data \subseteq DOMAIN d.data /\ d.src = c.src /\ d.dst = c.dst
  BY DEF connection_push, CopyBytes
<1> HIDE DEF d
<1>8. \A o \in DOMAIN c.data : d.data[o] = c.data[o]
  BY <1>5, <1>6, <1>7 DEF BeganWith
<1>9. BytesIn(c) \subseteq BytesIn(d)
  BY <1>7, <1>8 DEF BytesIn
<1>10. /\ DOMAIN slots' = DOMAIN t /\ slots'[i] = d
       /\ \A j \in DOMAIN t : j # i => slots'[j] = t[j]
  BY <1>1, <1>2
<1>11. ASSUME NEW q \in Addrs \X Addrs
       PROVE  IF q = q0 THEN BytesAt(t, q) \subseteq BytesAt(slots', q)
              ELSE BytesAt(slots', q) = BytesAt(t, q)
  <2>1. \A j \in DOMAIN t : slots'[j].src = t[j].src /\ slots'[j].dst = t[j].dst
                            /\ BytesIn(t[j]) \subseteq BytesIn(slots'[j])
    BY <1>7, <1>9, <1>10 DEF c
  <2>2. BytesAt(t, q) \subseteq BytesAt(slots', q)
    BY <2>1, <1>10 DEF BytesAt
  <2>3. CASE q # q0
    <3>1. ~(t[i].src = q[1] /\ t[i].dst = q[2])
      BY <2>3, <1>1 DEF c
    <3>2. \A j \in DOMAIN t : t[j].src = q[1] /\ t[j].dst = q[2] => slots'[j] = t[j]
      BY <3>1, <1>10
    <3>3. BytesAt(slots', q) \subseteq BytesAt(t, q)
      BY <2>1, <3>2, <1>10 DEF BytesAt
    <3>4. BytesAt(slots', q) = BytesAt(t, q)
      BY <2>2, <3>3, Zenon
    <3> QED  BY <3>4, <2>3
  <2> QED  BY <2>2, <2>3
<1>12. q0 \in Addrs \X Addrs
  BY PcapAssumption DEF Packet
<1>13. Received' = [Received EXCEPT ![q0] = @ \cup Received'[q0]]
  BY <1>1, <1>11, <1>12, ReceivedIs
<1> QED  BY <1>2, <1>12, <1>13 DEF Stream!Receive, Stream!Directions, found

\* A file that is handed on lies in the bytes of its direction.
LEMMA FindFinds ==
    ASSUME Inv, BytesInv, pc = "scan", UNCHANGED slots,
           NEW h \in Signatures(Conn, ptr, End(Scanned)), h[1] + h[2].len <= End(Scanned),
           (dispatched \cup dropped)' = dispatched \cup dropped \cup
              {[src |-> Conn.src, dst |-> Conn.dst, bytes |-> Bytes(Conn, h[1], h[2].len)]}
    PROVE  Stream!Find
<1> DEFINE m == h[2]
           q == <<Conn.src, Conn.dst>>
<1>1. /\ m \in Media /\ Bytes(Conn, h[1], m.len) = Signature(m, m.len)
      /\ \A k \in 0 .. (m.len - 1) : \E o \in DOMAIN Conn.data : Conn.data[o] = m.start + k
  BY FoundIsMedia
<1>2. cur \in Live /\ Conn.src \in Addrs /\ Conn.dst \in Addrs
  BY DEF Inv, TypeOK, ControlOK, IsConnection, Conn
<1>3. m.start \in Nat /\ m.len \in Nat
  BY <1>1, PcapAssumption
<1> HIDE DEF m
<1>4. BytesIn(Conn) \subseteq BytesAt(slots, q)
  BY <1>2 DEF BytesAt, Conn, Live
<1>5. Stream!BytesOf(m) \subseteq BytesIn(Conn)
  <2> SUFFICES ASSUME NEW b \in m.start .. (m.start + m.len - 1) PROVE b \in BytesIn(Conn)
    BY DEF Stream!BytesOf
  <2>1. b - m.start \in 0 .. (m.len - 1) /\ b = m.start + (b - m.start)
    BY <1>3
  <2> QED  BY <2>1, <1>1 DEF BytesIn
<1>6. q \in Addrs \X Addrs
  BY <1>2
<1>7. Stream!BytesOf(m) \subseteq Received[q]
  BY <1>4, <1>5, <1>6, ReceivedIs
<1>8. Stream!File(q, m) = [src |-> Conn.src, dst |-> Conn.dst, bytes |-> Bytes(Conn, h[1], m.len)]
  BY <1>1 DEF Stream!File, Signature
<1>9. Received' = Received
  BY ReceivedIs
<1> QED  BY <1>1, <1>6, <1>7, <1>8, <1>9 DEF Stream!Find, Stream!Directions, m

\* Each step is one of MediaStream, or changes nothing it speaks of.
LEMMA StreamStep ==
    ASSUME OneStretch, Inv, BytesInv, [Next]_vars
    PROVE  [Stream!Next]_<<Received, dispatched \cup dropped>>
<1>1. ASSUME NEW p \in Packets, ProcessPacket(p)
      PROVE  [Stream!Next]_<<Received, dispatched \cup dropped>>
  <2>1. PICK i \in 1 .. (slotsalloc + 1) :
           /\ pc = "capture" /\ SlotFor(p, i)
           /\ ResetPacket(p, i) \/ DataPacket(p, i) \/ EmptyPacket(p, i)
    BY <1>1 DEF ProcessPacket
  <2> QED  BY <2>1, ResetForgets, DataReceives, EmptyStutters DEF Stream!Next, found
<1>2. CASE Handle /\ UNCHANGED slots
  <2>1. Received' = Received
    BY <1>2, ReceivedIs
  <2>2. CASE UNCHANGED found
    BY <2>1, <2>2 DEF found
  <2> QED  BY <2>1, <2>2, FoundStep, FindFinds DEF Stream!Next
<1>3. CASE ScanDone \/ FinFlag
  <2>1. /\ slots = [k \in Live |-> slots[k]] /\ UNCHANGED found
        /\ \A k \in Live : IsConnection(slots[k], Addrs)
    BY <1>3 DEF Inv, TypeOK, ScanDone, FinFlag
  <2>2. DOMAIN slots' = DOMAIN slots
    BY <1>3 DEF ScanDone, FinFlag
  <2>3. ASSUME NEW j \in DOMAIN slots PROVE SameBytes(slots'[j], slots[j])
    <3>1. CASE ScanDone
      <4>1. PICK blocks : slots' = [slots EXCEPT ![cur].blocks = blocks]
        BY <3>1 DEF ScanDone
      <4>2. slots'[j] = slots[j] \/ slots'[j] = [slots[j] EXCEPT !.blocks = blocks]
        BY <4>1, <2>1
      <4> QED  BY <4>2, <2>1 DEF SameBytes, IsConnection, Live
    <3>2. CASE FinFlag
      <4>1. slots'[j] = slots[j] \/ slots'[j] = [slots[j] EXCEPT !.fin = TRUE]
        BY <3>2, <2>1 DEF FinFlag
      <4> QED  BY <4>1, <2>1 DEF SameBytes, IsConnection, Live
    <3> QED  BY <1>3, <3>1, <3>2
  <2> QED  BY <2>1, <2>2, <2>3, SameTableStep DEF found
<1>4. CASE SweepDelete
  <2>1. /\ DOMAIN slots' = DOMAIN slots \ {cur} /\ UNCHANGED found
        /\ \A j \in DOMAIN slots' : slots'[j] = slots[j]
    BY <1>4 DEF SweepDelete, Without
  <2>2. PairsDistinct(slots)
    BY DEF Inv, OneConnectionPerPair, PairsDistinct, Live
  <2> QED  BY <2>1, <2>2, ForgetStep DEF Stream!Next
<1>5. CASE Tick \/ UNCHANGED vars
  <2>1. slots' = slots /\ UNCHANGED found
    BY <1>5 DEF Tick, table, vars, found
  <2> QED  BY <2>1, ReceivedIs DEF found
<1>6. CASE Handle /\ ~UNCHANGED slots
  <2>1. ScanDone \/ FinFlag \/ SweepDelete
    BY <1>6 DEF Handle, Extract, ExtractBlock, ExtractReturn, Scan, FindNothing, FindPart,
       FindMedia, Sweep, SweepDiscard, SweepKeep, SweepReturn, table
  <2> QED  BY <2>1, <1>3, <1>4
<1> QED  BY <1>1, <1>2, <1>5, <1>6 DEF Next

\* PcapEngine implements MediaStream: whatever happens to packets and connections,
\* a file is found only when each of its bytes was received on one direction of
\* one connection and not forgotten since. (process_packet and all it calls)
THEOREM FindsOnlyWhatWasReceived == ASSUME OneStretch PROVE Spec => FindsOnlyReceived
<1>1. Init => Stream!Init
  <2> SUFFICES ASSUME Init PROVE Stream!Init
    OBVIOUS
  <2>1. DOMAIN slots = {} /\ dispatched \cup dropped = {}
    BY DEF Init
  <2>2. \A q : BytesAt(slots, q) = {}
    BY <2>1 DEF BytesAt
  <2> QED  BY <2>1, <2>2, ReceivedIs DEF Stream!Init, Stream!Directions
<1>2. Inv /\ BytesInv /\ [Next]_vars => [Stream!Next]_<<Received, dispatched \cup dropped>>
  BY StreamStep
<1> QED  BY Invariance, BytesInvariance, <1>1, <1>2, PTL DEF Spec, FindsOnlyReceived, Stream!Spec
=============================================================================
