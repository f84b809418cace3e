----------------------------- MODULE Connection -----------------------------
(***************************************************************************)
(* One half of a captured TCP conversation (src/network/connection.c): the *)
(* buffer into which segments are copied and the list of data blocks, the  *)
(* extents of that buffer which hold data worth searching for media.       *)
(*                                                                         *)
(* A byte of the conversation is named by its index in sequence-number     *)
(* space, so the buffer is a function from the offsets written so far to   *)
(* the indices of the bytes copied there; an offset outside its domain is  *)
(* malloc'ed memory nobody wrote.  The block list is kept sorted by `off'  *)
(* and never holds two blocks with the same `off', so a set of blocks says *)
(* as much as the list does (MergeLoop compares the two).  Of the array    *)
(* moff[NMEDIATYPES] one entry is kept: every driver owns its entry.       *)
(***************************************************************************)
EXTENDS Integers

CONSTANTS SeqSpace,           \* number of TCP sequence numbers (2^32 in the code)
          WRAPLEN,            \* out-of-order packet margin
          MAXCONNECTIONDATA,  \* bytes after which a connection is dropped
          TIMEOUT             \* seconds without data after which it is dropped

ASSUME ConnectionAssumption ==
    /\ SeqSpace \in Nat \ {0}
    /\ WRAPLEN \in Nat
    /\ MAXCONNECTIONDATA \in Nat
    /\ TIMEOUT \in Nat

Block == [off : Nat, len : Nat \ {0}, moff : Nat, dirty : BOOLEAN]

\* A connection between endpoints in `addrs'.
IsConnection(c, addrs) ==
    /\ DOMAIN c.data \subseteq Nat
    /\ c \in [src : addrs, dst : addrs, isn : 0 .. (SeqSpace - 1), len : Nat,
              fin : BOOLEAN, last : Nat, data : [DOMAIN c.data -> Nat],
              blocks : SUBSET Block]

End(b)    == b.off + b.len
Extent(b) == b.off .. (End(b) - 1)

\* Offsets that extract_media may look at.
Covered(blocks) == UNION {Extent(b) : b \in blocks}

\* Any two blocks leave a gap between them: touching blocks were combined.
Separated(blocks) ==
    \A a, b \in blocks : a # b => End(a) < b.off \/ End(b) < a.off

-----------------------------------------------------------------------------
\* Mutants of Offset: the comparison forgotten; what precedes the isn put at 0.
Offset_Signed(seq, isn) == seq - isn

Offset_Clamped(seq, isn) == IF seq < isn THEN 0 ELSE seq - isn

\* Offset of a segment in the stream, in 32-bit unsigned arithmetic.  The
\* branch for a sequence number below the isn is transcribed as it stands: it
\* adds 2^32 - 1 where the comment above it asks for arithmetic modulo 2^32.
Offset(seq, isn) ==
    IF seq < isn THEN (SeqSpace - 1) - (isn - seq) ELSE seq - isn

NewBlock(off, len) == [off |-> off, len |-> len, moff |-> 0, dirty |-> TRUE]

\* Mutant of Absorber: a gap of one byte is bridged.
Absorber_BridgesGap(blocks, off) == {b \in blocks : b.off < off /\ off <= End(b) + 1}

\* The block left of `off' that the new block runs into ...
Absorber(blocks, off) == {b \in blocks : b.off < off /\ off <= End(b)}

\* Mutants of Absorbed: > for >=, and a gap of one byte bridged.
Absorbed_Strict(blocks, off, len) ==
    {b \in blocks : /\ off <= b.off
                    /\ b.off < off + len
                    /\ \A x \in blocks : off <= x.off => b.off <= x.off}

Absorbed_BridgesGap(blocks, off, len) ==
    {b \in blocks : /\ off <= b.off
                    /\ b.off <= off + len + 1
                    /\ \A x \in blocks : off <= x.off => b.off <= x.off}

\* ... and the first block right of it that begins within its reach.
Absorbed(blocks, off, len) ==
    {b \in blocks : /\ off <= b.off
                    /\ b.off <= off + len
                    /\ \A x \in blocks : off <= x.off => b.off <= x.off}

\* Mutants of Combine: the combined block is not marked as changed; its length is
\* that of the second block alone.
Combine_KeepsClean(b, next) ==
    [off |-> b.off, len |-> End(next) - b.off, moff |-> b.moff, dirty |-> b.dirty]

Combine_NextLength(b, next) ==
    [off |-> b.off, len |-> next.len, moff |-> b.moff, dirty |-> TRUE]

\* Combining a block with the one that follows it: the length becomes the end
\* of the FOLLOWING block, also when that block ends before the first one does.
Combine(b, next) ==
    [off |-> b.off, len |-> End(next) - b.off, moff |-> b.moff, dirty |-> TRUE]

\* Insertion of a block in the sorted list and the passes that combine blocks.
\* On a separated list the passes combine at most twice: the block on the left
\* with the new one, and the result with the first block on the right; after
\* that the end is the end of a block of the old list, which touches nothing.
PushBlock(blocks, off, len) ==
    LET left  == Absorber(blocks, off)
        right == Absorbed(blocks, off, len)
        fresh == NewBlock(off, len)
        first == IF left = {} THEN fresh
                 ELSE Combine(CHOOSE b \in left : TRUE, fresh)
        whole == IF right = {} THEN first
                 ELSE Combine(first, CHOOSE b \in right : TRUE)
    IN  (blocks \ (left \cup right)) \cup {whole}

\* Mutant of Searched: the dirty flag is not reset.
Searched_LeavesDirty(b, upto) ==
    [off |-> b.off, len |-> b.len, moff |-> upto, dirty |-> b.dirty]

\* A block that extract_media has searched up to `upto'.
Searched(b, upto) ==
    [off |-> b.off, len |-> b.len, moff |-> upto, dirty |-> FALSE]

\* memcpy of `len' bytes, the first being byte `pos' of the stream.
CopyBytes(data, off, len, pos) ==
    [o \in DOMAIN data \cup off .. (off + len - 1) |->
        IF o \in off .. (off + len - 1) THEN pos + (o - off) ELSE data[o]]

\* A byte of the buffer; what was never written is no byte of the stream.
Garbage == -1

ByteAt(data, o) == IF o \in DOMAIN data THEN data[o] ELSE Garbage

connection_new(src, dst, seq, now) ==
    [src |-> src, dst |-> dst, isn |-> seq, len |-> 0, fin |-> FALSE,
     last |-> now, data |-> [o \in {} |-> 0], blocks |-> {}]

connection_push(c, pos, off, len, now) ==
    [src |-> c.src, dst |-> c.dst, isn |-> c.isn, fin |-> c.fin,
     len    |-> IF off + len > c.len THEN off + len ELSE c.len,
     last   |-> now,
     data   |-> CopyBytes(c.data, off, len, pos),
     blocks |-> PushBlock(c.blocks, off, len)]

\* A segment this far ahead is logged as out of order and dropped.
TooFarAhead(c, off) == off > c.len + WRAPLEN

\* "a FIN has been seen and ... there are no gaps in the stream".
Finished(c) == c.fin /\ \A a, b \in c.blocks : a = b

\* Mutant of Sweepable: no limit on the size.
Sweepable_NoLimit(c, now) == now - c.last > TIMEOUT \/ Finished(c)

\* The condition under which sweep_connections discards a connection.
Sweepable(c, now) ==
    \/ now - c.last > TIMEOUT
    \/ Finished(c)
    \/ c.len > MAXCONNECTIONDATA
=============================================================================
