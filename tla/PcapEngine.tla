----------------------------- MODULE PcapEngine -----------------------------
(***************************************************************************)
(* The capture thread: process_packet and extract_media                    *)
(* (src/network/pcap_engine.c) over the table of connections               *)
(* (src/network/connection.c).  One packet is handled in several steps:    *)
(*                                                                         *)
(*   "capture"  the thread is in pcap_dispatch; a segment may arrive       *)
(*   "extract"  extract_media looks for the next dirty block of slot `cur' *)
(*   "scan"     the while loop over find_data on that block                *)
(*   "fin"      the test of the FIN flag, after which the sweep starts     *)
(*   "sweep"    sweep_connections looks at slot `cur'                      *)
(*   "delete"   sweep_connections, after the extract_media of slot `cur'   *)
(*                                                                         *)
(* The steps are those at which the thread calls out (find_data, the       *)
(* dispatch function of a driver, time), so that other parts of the        *)
(* program, and the clock, may move in between.                            *)
(***************************************************************************)
EXTENDS Connection

CONSTANTS Addrs,        \* endpoints: an address with a port
          Packets,      \* the segments the network may deliver, in any order
                        \* and any number of times
          InitSlots,    \* slots allocated at the start (64 in the code)
          MaxTime,      \* bound on the clock
          Media,        \* media files in the streams: [start, len], indices
          HdrLen,       \* bytes of signature by which a driver knows a file
          LimitReached, \* answers tmpfiles_limit_reached may give
          NULL          \* no packet

Packet == [src : Addrs, dst : Addrs, seq : 0 .. (SeqSpace - 1), pos : Nat,
           len : Nat, rst : BOOLEAN, fin : BOOLEAN]

ASSUME PcapAssumption ==
    /\ Packets \subseteq Packet
    /\ InitSlots \in Nat \ {0}
    /\ MaxTime \in Nat
    /\ HdrLen \in Nat \ {0}
    /\ \A m \in Media : m.start \in Nat /\ m.len \in Nat /\ m.len >= HdrLen
    /\ LimitReached \subseteq BOOLEAN

VARIABLES slots,       \* the connection table: from the slots in use to connections
          slotsalloc,  \* its size
          clock,       \* time(NULL)
          pc,          \* where the thread is, see above
          pkt,         \* the packet being handled
          cur,         \* slot being searched, or being looked at by the sweep
          ret,         \* where extract_media returns to
          boff,        \* offset of the block being searched
          ptr, oldptr, \* search pointers, as offsets in the buffer
          sweepnow,    \* `now' of sweep_connections
          dispatched,  \* what has been handed to dispatch_data
          dropped      \* what was found while the file limit was reached

table == <<slots, slotsalloc>>
scan  == <<boff, ptr, oldptr>>
found == <<dispatched, dropped>>
vars  == <<slots, slotsalloc, clock, pc, pkt, cur, ret, boff, ptr, oldptr,
           sweepnow, dispatched, dropped>>

-----------------------------------------------------------------------------
(* The connection table. *)

First(i, S) == i \in S /\ \A j \in S : i <= j

Matching(src, dst) ==
    {i \in DOMAIN slots : slots[i].src = src /\ slots[i].dst = dst}

FreeSlots == (1 .. slotsalloc) \ DOMAIN slots

\* Mutant of SlotFor: a free slot is taken before the table is searched to its end.
SlotFor_FreeFirst(p, i) ==
    IF FreeSlots # {} THEN First(i, FreeSlots)
    ELSE IF Matching(p.src, p.dst) # {} THEN First(i, Matching(p.src, p.dst))
    ELSE i = slotsalloc + 1

\* find_connection, else alloc_connection: the slot that will hold the packet's
\* connection.  A full table doubles, and its first new slot is taken.
SlotFor(p, i) ==
    IF Matching(p.src, p.dst) # {} THEN First(i, Matching(p.src, p.dst))
    ELSE IF FreeSlots # {} THEN First(i, FreeSlots)
    ELSE i = slotsalloc + 1

SlotsallocFor(i) == IF i <= slotsalloc THEN slotsalloc ELSE 2 * slotsalloc

\* The table after that, a new connection taking its isn from the packet.
TableFor(p, i) ==
    IF i \in DOMAIN slots THEN slots
    ELSE [j \in DOMAIN slots \cup {i} |->
            IF j = i THEN connection_new(p.src, p.dst, p.seq, clock) ELSE slots[j]]

\* connection_delete of the connections in the slots S.
Without(t, S) == [j \in DOMAIN t \ S |-> t[j]]

-----------------------------------------------------------------------------
(* A driver's find_data on the bytes [from, end) of a buffer, after          *)
(* find_png_image: no signature, start again just before the end; a          *)
(* signature but no end of file, start again at the signature; a whole file, *)
(* report it and start again behind it.                                      *)

Bytes(c, from, n) == [k \in 0 .. (n - 1) |-> ByteAt(c.data, from + k)]

Signature(m, n) == [k \in 0 .. (n - 1) |-> m.start + k]

\* Signatures that lie between two offsets, with the place where they begin.
Signatures(c, from, end) ==
    {h \in (from .. (end - HdrLen)) \X Media :
        Bytes(c, h[1], HdrLen) = Signature(h[2], HdrLen)}

FirstSignature(c, from, end, h) ==
    /\ h \in Signatures(c, from, end)
    /\ \A g \in Signatures(c, from, end) : h[1] <= g[1]

-----------------------------------------------------------------------------
Init ==
    /\ slots = [i \in {} |-> NULL]
    /\ slotsalloc = InitSlots
    /\ clock = 0
    /\ pc = "capture"
    /\ pkt = NULL
    /\ cur = 0
    /\ ret = "capture"
    /\ boff = 0 /\ ptr = 0 /\ oldptr = -1
    /\ sweepnow = 0
    /\ dispatched = {}
    /\ dropped = {}

\* Mutant of ResetPacket: the connection the other way stays.
ResetPacket_OneWay(p, i) ==
    /\ p.rst
    /\ slots' = Without(TableFor(p, i), {i})
    /\ slotsalloc' = SlotsallocFor(i)
    /\ UNCHANGED <<clock, pc, pkt, cur, ret, scan, sweepnow, found>>

\* RST: the connection goes away, and so does the one the other way, if any;
\* process_packet returns without a sweep.
ResetPacket(p, i) ==
    /\ p.rst
    /\ LET t    == Without(TableFor(p, i), {i})
           back == {j \in DOMAIN t : t[j].src = p.dst /\ t[j].dst = p.src}
       IN  slots' = Without(t, {j \in back : First(j, back)})
    /\ slotsalloc' = SlotsallocFor(i)
    /\ UNCHANGED <<clock, pc, pkt, cur, ret, scan, sweepnow, found>>

\* A segment with data close enough to what the connection has: copy and search.
DataPacket(p, i) ==
    LET c   == TableFor(p, i)[i]
        off == Offset(p.seq, c.isn)
    IN  /\ ~p.rst /\ p.len > 0
        /\ ~TooFarAhead(c, off)
        /\ slots' = [TableFor(p, i) EXCEPT
                        ![i] = connection_push(c, p.pos, off, p.len, clock)]
        /\ slotsalloc' = SlotsallocFor(i)
        /\ pkt' = p /\ cur' = i
        /\ pc' = "extract" /\ ret' = "fin"
        /\ UNCHANGED <<clock, scan, sweepnow, found>>

\* No data, or data too far ahead: only the flags count.
EmptyPacket(p, i) ==
    LET c == TableFor(p, i)[i]
    IN  /\ ~p.rst
        /\ p.len > 0 => TooFarAhead(c, Offset(p.seq, c.isn))
        /\ slots' = TableFor(p, i)
        /\ slotsalloc' = SlotsallocFor(i)
        /\ pkt' = p /\ cur' = i
        /\ pc' = "fin"
        /\ UNCHANGED <<clock, ret, scan, sweepnow, found>>

ProcessPacket(p) ==
    /\ pc = "capture"
    /\ \E i \in 1 .. (slotsalloc + 1) :
        /\ SlotFor(p, i)
        /\ ResetPacket(p, i) \/ DataPacket(p, i) \/ EmptyPacket(p, i)

-----------------------------------------------------------------------------
(* extract_media(slots[cur]) *)

Conn == slots[cur]

Dirty == {b \in Conn.blocks : b.dirty}

\* for (b = c->blocks; b; b = b->next): the next block that has changed.
ExtractBlock ==
    /\ pc = "extract"
    /\ \E b \in Dirty :
        /\ \A x \in Dirty : b.off <= x.off
        /\ boff' = b.off
        /\ ptr' = b.off + b.moff
        /\ oldptr' = -1
    /\ pc' = "scan"
    /\ UNCHANGED <<table, clock, pkt, cur, ret, sweepnow, found>>

\* Mutant of ExtractReturn: the walk over the blocks may stop early.
ExtractReturn_Early ==
    /\ pc = "extract"
    /\ pc' = ret
    /\ UNCHANGED <<table, clock, pkt, cur, ret, scan, sweepnow, found>>

ExtractReturn ==
    /\ pc = "extract"
    /\ Dirty = {}
    /\ pc' = ret
    /\ UNCHANGED <<table, clock, pkt, cur, ret, scan, sweepnow, found>>

Scanned == CHOOSE b \in Conn.blocks : b.off = boff

ScanGoesOn == ptr # oldptr /\ ptr < End(Scanned)

FindNothing ==
    /\ pc = "scan" /\ ScanGoesOn
    /\ Signatures(Conn, ptr, End(Scanned)) = {}
    /\ oldptr' = ptr
    /\ ptr' = IF End(Scanned) - ptr < HdrLen THEN ptr ELSE End(Scanned) - HdrLen
    /\ UNCHANGED <<table, clock, pc, pkt, cur, ret, boff, sweepnow, found>>

FindPart ==
    /\ pc = "scan" /\ ScanGoesOn
    /\ \E h \in Signatures(Conn, ptr, End(Scanned)) :
        /\ FirstSignature(Conn, ptr, End(Scanned), h)
        /\ h[1] + h[2].len > End(Scanned)
        /\ ptr' = h[1]
    /\ oldptr' = ptr
    /\ UNCHANGED <<table, clock, pc, pkt, cur, ret, boff, sweepnow, found>>

\* if (media && !tmpfiles_limit_reached()) dispatch_data(...)
FindMedia(full) ==
    /\ pc = "scan" /\ ScanGoesOn
    /\ \E h \in Signatures(Conn, ptr, End(Scanned)) :
        /\ FirstSignature(Conn, ptr, End(Scanned), h)
        /\ h[1] + h[2].len <= End(Scanned)
        /\ LET media == [src |-> Conn.src, dst |-> Conn.dst,
                         bytes |-> Bytes(Conn, h[1], h[2].len)]
           IN  /\ dispatched' = IF full THEN dispatched ELSE dispatched \cup {media}
               /\ dropped' = IF full THEN dropped \cup {media} ELSE dropped
        /\ ptr' = h[1] + h[2].len
    /\ oldptr' = ptr
    /\ UNCHANGED <<table, clock, pc, pkt, cur, ret, boff, sweepnow>>

\* The block has been searched as far as it goes: remember where, and that it
\* has not changed since.
ScanDone ==
    /\ pc = "scan" /\ ~ScanGoesOn
    /\ slots' = [slots EXCEPT ![cur].blocks =
                    (@ \ {Scanned}) \cup {Searched(Scanned, ptr - boff)}]
    /\ pc' = "extract"
    /\ UNCHANGED <<slotsalloc, clock, pkt, cur, ret, scan, sweepnow, found>>

-----------------------------------------------------------------------------
\* The FIN flag is recorded and the sweep begins.
FinFlag ==
    /\ pc = "fin"
    /\ slots' = IF pkt.fin THEN [slots EXCEPT ![cur].fin = TRUE] ELSE slots
    /\ sweepnow' = clock
    /\ cur' = 1
    /\ pc' = "sweep"
    /\ UNCHANGED <<slotsalloc, clock, pkt, ret, scan, found>>

\* One turn of the sweep: a connection to discard is searched first.
SweepDiscard ==
    /\ pc = "sweep" /\ cur <= slotsalloc
    /\ cur \in DOMAIN slots
    /\ Sweepable(Conn, sweepnow)
    /\ pc' = "extract" /\ ret' = "delete"
    /\ UNCHANGED <<table, clock, pkt, cur, scan, sweepnow, found>>

SweepKeep ==
    /\ pc = "sweep" /\ cur <= slotsalloc
    /\ cur \in DOMAIN slots => ~Sweepable(Conn, sweepnow)
    /\ cur' = cur + 1
    /\ UNCHANGED <<table, clock, pc, pkt, ret, scan, sweepnow, found>>

\* Mutant of SweepDelete: the slot after a deleted one is skipped.
SweepDelete_SkipsNext ==
    /\ pc = "delete"
    /\ slots' = Without(slots, {cur})
    /\ cur' = cur + 2
    /\ pc' = "sweep"
    /\ UNCHANGED <<slotsalloc, clock, pkt, ret, scan, sweepnow, found>>

SweepDelete ==
    /\ pc = "delete"
    /\ slots' = Without(slots, {cur})
    /\ cur' = cur + 1
    /\ pc' = "sweep"
    /\ UNCHANGED <<slotsalloc, clock, pkt, ret, scan, sweepnow, found>>

\* process_packet returns; the search pointers were its locals.
SweepReturn ==
    /\ pc = "sweep" /\ cur > slotsalloc
    /\ pc' = "capture"
    /\ pkt' = NULL /\ cur' = 0 /\ ret' = "capture"
    /\ boff' = 0 /\ ptr' = 0 /\ oldptr' = -1
    /\ sweepnow' = 0
    /\ UNCHANGED <<table, clock, found>>

Tick ==
    /\ clock < MaxTime
    /\ clock' = clock + 1
    /\ UNCHANGED <<table, pc, pkt, cur, ret, scan, sweepnow, found>>

-----------------------------------------------------------------------------
Extract == ExtractBlock \/ ExtractReturn

Scan == FindNothing \/ FindPart \/ ScanDone \/ \E full \in LimitReached : FindMedia(full)

Sweep == SweepDiscard \/ SweepKeep \/ SweepDelete \/ SweepReturn

\* What the thread does once it has a packet.
Handle == Extract \/ Scan \/ FinFlag \/ Sweep

Next == Handle \/ Tick \/ \E p \in Packets : ProcessPacket(p)

Spec == Init /\ [][Next]_vars

\* The thread is scheduled: it never stops for ever in the middle of a packet.
FairSpec == Spec /\ WF_vars(Handle)
-----------------------------------------------------------------------------
(* Properties *)

Live == DOMAIN slots

AtRest == pc = "capture"

TypeOK ==
    /\ slotsalloc \in Nat \ {0}
    /\ slots = [i \in Live |-> slots[i]] /\ Live \subseteq 1 .. slotsalloc
    /\ \A i \in Live : IsConnection(slots[i], Addrs)
    /\ clock \in Nat /\ sweepnow \in Nat
    /\ pc \in {"capture", "extract", "scan", "fin", "sweep", "delete"}
    /\ ret \in {"capture", "fin", "delete"}
    /\ cur \in Nat /\ boff \in Nat /\ ptr \in Nat /\ oldptr \in Nat \cup {-1}
    /\ pkt \in Packets \cup {NULL}

\* "If there is a gap in the received data, we don't search it" (connection.h):
\* whatever arrives in whatever order, every offset inside a block was received.
SearchOnlyReceived ==
    \A i \in Live : Covered(slots[i].blocks) \subseteq DOMAIN slots[i].data

\* Blocks never touch or overlap: the insertion, the sweep's test for gaps and
\* the search each take one block for one uninterrupted stretch of the stream.
BlocksSeparated == \A i \in Live : Separated(slots[i].blocks)

\* Between packets no block waits to be searched: RST, the sweep and the end of
\* the program delete connections without looking, and lose no data by it.
NothingUnsearchedAtRest ==
    AtRest => \A i \in Live : \A b \in slots[i].blocks : ~b.dirty

Reported(c, m) ==
    [src |-> c.src, dst |-> c.dst, bytes |-> Signature(m, m.len)]
        \in dispatched \cup dropped

\* Resuming the search at moff[] misses nothing: between packets every media
\* file that lies within one block has been handed on, although it arrived in
\* pieces, out of order, or with its signature split between two segments.
SearchComplete ==
    AtRest =>
        \A i \in Live : \A b \in slots[i].blocks : \A m \in Media :
            (\E o \in b.off .. (End(b) - m.len) :
                    Bytes(slots[i], o, m.len) = Signature(m, m.len))
            => Reported(slots[i], m)

\* What is handed on is a media file as it was sent: no byte of it missing, out
\* of place, taken from a gap or from what followed on another connection.
MediaIntact ==
    \A f \in dispatched \cup dropped :
        \E m \in Media : f.bytes = Signature(m, m.len)

\* Bytes lie in the buffer at the distance they have in the stream.
StreamOrder ==
    \A i \in Live : \A o, q \in DOMAIN slots[i].data :
        slots[i].data[q] - slots[i].data[o] = q - o

\* find_connection returns the first match, so that a second connection for the
\* same endpoints would take data that never reaches the first.
OneConnectionPerPair ==
    \A i, j \in Live :
        slots[i].src = slots[j].src /\ slots[i].dst = slots[j].dst => i = j

\* Behind the sweep nothing is left that should have gone: no connection that
\* is idle, finished or too big survives a packet.
SweptBehind ==
    pc \in {"sweep", "delete"} \/ (pc = "extract" /\ ret = "delete") =>
        \A i \in Live : i < cur => ~Sweepable(slots[i], sweepnow)

\* Between packets no connection holds more than MAXCONNECTIONDATA, and none ever
\* more than the segment that took it over the limit.
MemoryBounded ==
    \A i \in Live :
        /\ AtRest => slots[i].len <= MAXCONNECTIONDATA
        /\ \A o \in DOMAIN slots[i].data : o < slots[i].len
        /\ \/ slots[i].len <= MAXCONNECTIONDATA
           \/ \E p \in Packets :
                  slots[i].len <= MAXCONNECTIONDATA + WRAPLEN + p.len

\* A segment that repeats nothing becomes searchable and hides nothing: the
\* blocks then cover what they covered before and the new bytes.
FreshDataCovered ==
    \A i \in Live :
        LET new == DOMAIN slots'[i].data \ DOMAIN slots[i].data
            off == Offset(pkt'.seq, slots[i].isn)
        IN  AtRest /\ pc' = "extract" /\ cur' = i
              /\ off .. (off + pkt'.len - 1) = new
            => Covered(slots'[i].blocks) = Covered(slots[i].blocks) \cup new

FreshDataIsSearchable == [][FreshDataCovered]_vars

\* "A list of the extents in the buffer which contain valid data" (connection.h):
\* a segment that brings nothing new takes nothing out of the blocks, where the
\* search finds what was received.
RepeatCovered ==
    \A i \in Live :
        LET off == Offset(pkt'.seq, slots[i].isn)
        IN  AtRest /\ pc' = "extract" /\ cur' = i
              /\ off .. (off + pkt'.len - 1) \subseteq Covered(slots[i].blocks)
            => Covered(slots[i].blocks) \subseteq Covered(slots'[i].blocks)

RepeatHidesNothing == [][RepeatCovered]_vars

\* After a RST neither direction of the conversation has a connection.
BothForgotten ==
    \A p \in Packets :
        AtRest /\ p.rst /\ ProcessPacket(p) =>
            \A i \in DOMAIN slots' : {slots'[i].src, slots'[i].dst} # {p.src, p.dst}

ResetForgetsBoth == [][BothForgotten]_vars

\* The thread always comes back for the next packet: the search of a block ends,
\* whatever the drivers answer, and so does the sweep.
CaughtUp == ~AtRest ~> AtRest

-----------------------------------------------------------------------------
(* The inductive invariant: the properties above and what ties the place     *)
(* where the thread is to the table.                                         *)

\* Wherever the thread is going to use slot cur or the packet, they are there,
\* and the block it searches is one of the connection's, not yet clean.
ControlOK ==
    /\ pc \in {"extract", "scan", "fin", "delete"} => cur \in Live
    /\ pc \in {"extract", "scan"} => ret \in {"fin", "delete"}
    /\ pc = "fin" \/ (pc \in {"extract", "scan"} /\ ret = "fin") => pkt \in Packets
    /\ pc = "scan" =>
          /\ ret = "fin" /\ boff <= ptr
          /\ \E b \in slots[cur].blocks : b.off = boff /\ b.dirty

\* Only the connection that took the packet has blocks to search, and only until
\* extract_media has returned.
OnlyCurrentDirty ==
    \A i \in Live : \A b \in slots[i].blocks :
        b.dirty => pc \in {"extract", "scan"} /\ ret = "fin" /\ i = cur

Inv == /\ TypeOK /\ ControlOK /\ OnlyCurrentDirty /\ BlocksSeparated
       /\ SearchOnlyReceived /\ OneConnectionPerPair /\ SweptBehind

-----------------------------------------------------------------------------
(* What the properties of the bytes need besides Inv. *)

\* The segments of each direction come from a stretch of its stream over which
\* the sequence number does not pass through zero; one from before the isn, which
\* Offset puts at the far end of the sequence space, is then too far ahead.
OneStretch ==
    \A p, q \in Packets : p.src = q.src /\ p.dst = q.dst =>
        /\ p.seq - q.seq = p.pos - q.pos
        /\ p.seq - q.seq < SeqSpace - 1 - MAXCONNECTIONDATA - WRAPLEN

\* A connection began with packet p, and holds at each offset the byte of the
\* stream that lies as far from p's first one.
BeganWith(c, p) ==
    /\ c.src = p.src /\ c.dst = p.dst /\ c.isn = p.seq
    /\ \A o \in DOMAIN c.data : c.data[o] = p.pos + o

BytesInv ==
    /\ MemoryBounded /\ MediaIntact
    /\ \A i \in Live : \E p \in Packets : BeganWith(slots[i], p)

\* No file of a stream lies in another, or ends in one: what lies in a file
\* that is found is skipped.
MediaApart ==
    \A m, n \in Media : m # n =>
        m.start + m.len <= n.start \/ n.start + n.len <= m.start

\* Of the files that begin at the offsets S, all were handed on.
ReportedAt(c, S) == \A o \in S : \A m \in Media : c.data[o] = m.start => Reported(c, m)

\* What begins before moff was handed on, whatever the block has lost since;
\* and so was, in a block that has not changed, each file that ends in it.
BlockSearched(c, b) ==
    /\ b.off .. (b.off + b.moff - 1) \subseteq DOMAIN c.data
    /\ ReportedAt(c, b.off .. (b.off + b.moff - 1))
    /\ ~b.dirty => \A m \in Media : \A o \in b.off .. (End(b) - m.len) :
                        c.data[o] = m.start => Reported(c, m)

\* The same of the search under way; when it has stopped nothing whole is ahead.
SearchInv ==
    /\ \A i \in Live : \A b \in slots[i].blocks : BlockSearched(slots[i], b)
    /\ pc = "scan" =>
          /\ boff .. (ptr - 1) \subseteq DOMAIN Conn.data
          /\ ReportedAt(Conn, boff .. (ptr - 1))
          /\ ptr = oldptr => \A m \in Media : \A o \in ptr .. (End(Scanned) - m.len) :
                                 Conn.data[o] # m.start

-----------------------------------------------------------------------------
(* The table as module MediaStream sees it. *)

BytesIn(c) == {c.data[o] : o \in DOMAIN c.data}

Received ==
    [q \in Addrs \X Addrs |-> UNION {BytesIn(slots[i]) : i \in Matching(q[1], q[2])}]

Stream == INSTANCE MediaStream WITH received <- Received,
                                    found    <- dispatched \cup dropped

\* The engine finds media only in bytes it has received on one connection.
FindsOnlyReceived == Stream!Spec
=============================================================================
