------------------------------- MODULE Arrival -------------------------------
(***************************************************************************)
(* From packets to files: one TCP stream arrives in order, in segments of  *)
(* any size and framing, and the search of extract_media                   *)
(* (src/network/pcap_engine.c) runs the driver of the stream's files after *)
(* each.  PcapEngine has the order of segments and one driver that finds   *)
(* tokens; here the order is kept and the drivers are the real ones.       *)
(***************************************************************************)
EXTENDS MediaFinders, PacketHeaders

CONSTANTS Streams,  \* sequence of streams: driver, bytes, and the files in it
          Framings, \* headers that segments come in
          Sizes     \* sizes of segments

\* A stream is a sequence of bytes, or of characters for HTTP, behind the headers
\* of real packets.
ASSUME StreamsAssumption ==
    \A i \in DOMAIN Streams : LET s == Streams[i] IN
        /\ s.driver \in Drivers
        /\ s.bytes \in Seq({s.bytes[k] : k \in DOMAIN s.bytes})
        /\ s.driver # "HTTP" => \A k \in DOMAIN s.bytes : s.bytes[k] \in Byte
ASSUME FramingsAssumption == \A f \in Framings : Genuine(f)
ASSUME SizesAssumption == Sizes \subseteq Nat

VARIABLES
    stream,  \* which of Streams this is
    sent,    \* bytes of it in the packets so far
    got,     \* the data block: what was taken from the packets
    moff,    \* where the search resumes
    dirty,   \* is there something left to search?
    found,   \* what was dispatched: place, size and text
    odd      \* history: "misread" and "padded" packets

vars == <<stream, sent, got, moff, dirty, found, odd>>

Driver == Streams[stream].driver
Bytes == Streams[stream].bytes

Init ==
    /\ stream \in DOMAIN Streams
    /\ sent = 0 /\ got = <<>> /\ moff = 0
    /\ dirty = FALSE
    /\ found = <<>> /\ odd = {}

\* Ethernet frames are at least 60 bytes long; a sender pads shorter ones.
Padding(f, k) ==
    IF f.padded /\ DataAt(f) + k < 60 THEN [i \in 1 .. 60 - DataAt(f) - k |-> 0] ELSE <<>>

\* process_packet.  A packet that is misread counts for another connection,
\* and the stream has a gap from there on.  What pads a frame counts as data,
\* until the next segment is copied over it.
Packet(f, k) ==
    /\ ~dirty
    /\ "misread" \notin odd
    /\ sent + k <= Len(Bytes)
    /\ LET data == SubSeq(Bytes, sent + 1, sent + k)
           pad  == IF Driver = "HTTP" THEN <<>> ELSE Padding(f, k)
       IN CASE DataOffset(f) = IGNORED -> UNCHANGED vars
            [] DataOffset(f) = DataAt(f) ->
                 /\ data \o pad # <<>>
                 /\ got' = SubSeq(got, 1, sent) \o data \o pad
                 /\ sent' = sent + k
                 /\ dirty' = TRUE
                 /\ odd' = IF pad = <<>> THEN odd ELSE odd \cup {"padded"}
                 /\ UNCHANGED <<stream, moff, found>>
            [] OTHER ->
                 /\ odd' = odd \cup {"misread"}
                 /\ UNCHANGED <<stream, sent, got, moff, dirty, found>>

\* Mutants of Resume: a file is searched from where it began, and what holds
\* nothing complete is done with.
Resume_AtFound(r) == moff + r.at
Resume_AtEnd(r) == IF r.size = 0 THEN Len(got) ELSE moff + r.next

\* Where the search goes on after a call of find_data: where that says.
Resume(r) == moff + r.next

\* One turn of extract_media's loop over find_data, and what is dispatched.
Search ==
    /\ dirty
    /\ LET m == SubSeq(got, moff + 1, Len(got))
           r == IF m = <<>> THEN Nothing(0) ELSE Finder(Driver, m)
           text == IF Driver # "HTTP" THEN <<>>
                   ELSE Url(SubSeq(m, r.at + 1, r.at + r.size))
       IN /\ moff' = Resume(r)
          /\ dirty' = (r.next # 0 /\ moff' < Len(got))
          /\ found' = IF r.size = 0 THEN found
                      ELSE Append(found, [at |-> moff + r.at, size |-> r.size, text |-> text])
    /\ UNCHANGED <<stream, sent, got, odd>>

Next == (\E f \in Framings, k \in Sizes : Packet(f, k)) \/ Search

Spec == Init /\ [][Next]_vars

-----------------------------------------------------------------------------
(* Properties. *)

Files == Streams[stream].files
SameFile(a, b) == a.at = b.at /\ a.size = b.size

\* What is dispatched lies in the order of the stream, one behind the other,
\* even when a packet was misread or padded.
Apart == \A i, j \in DOMAIN found : i < j => found[i].at + found[i].size <= found[j].at

\* What is dispatched is a file of the stream, all of it has been received
\* (an MPEG stream but for its last frame), each is dispatched once, in the
\* order of the stream, and the text shown for a GET names what it asked for.
\* (find_*, is_jpeg_segment, find_png_eoi, mpeg_hdr_parse, parse_http_req)
FindsWholeFiles ==
    /\ Apart
    /\ odd = {} => \A i \in DOMAIN found : \E f \in Files :
          SameFile(f, found[i]) /\ f.needs <= Len(got) /\ f.text = found[i].text

\* Whatever the segments, once a file has arrived and the search is over, the
\* file has been found: no driver skips a file whose parts come one by one.
\* Headers and padding that the code knows nothing of are the exception.
\* (the place each find_* resumes at, the offsets of layer2.c and layer3.c)
FoundAtOnce ==
    odd = {} /\ ~dirty =>
        \A f \in Files : f.ends <= Len(got) => \E i \in DOMAIN found : SameFile(f, found[i])

-----------------------------------------------------------------------------
(* What the properties above rest on: the stream is described truly, and one *)
(* call of its finder is right, whatever part of it has arrived.             *)

\* The files lie in the stream one behind the other, and none is empty.
StreamsDescribed ==
    \A n \in DOMAIN Streams : LET s == Streams[n] IN
        \A f \in s.files :
            /\ f.at \in Nat /\ f.size \in Nat /\ f.ends \in Nat /\ f.needs \in Nat
            /\ f.size > 0 /\ f.at + f.size <= f.ends

\* No file lies across place p of stream s.
Between(s, p) == \A f \in s.files : p <= f.at \/ f.ends <= p

\* A call with the bytes of s from p to before n: what it finds is a file that
\* is there, it passes over no other and stops in none, and it says that it is
\* done only when no file from p on is complete.
FindsNext(s, p, n) ==
    LET m == SubSeq(s.bytes, p + 1, n)
        r == Finder(s.driver, m)
        text == IF s.driver # "HTTP" THEN <<>> ELSE Url(SubSeq(m, r.at + 1, r.at + r.size))
        passed == {f \in s.files : p <= f.at /\ f.at < p + r.next}
    IN /\ r.next \in Nat
       /\ Between(s, p + r.next)
       /\ IF r.size = 0 THEN passed = {}
          ELSE \E f \in s.files :
                  /\ passed = {f} /\ f.needs <= n
                  /\ f.at = p + r.at /\ f.size = r.size /\ f.text = text
       /\ r.next = 0 => \A f \in s.files : p <= f.at => n < f.ends

\* Every call that can be made on one of the streams, from a place between files.
FindersRight ==
    \A i \in DOMAIN Streams : LET s == Streams[i] IN
        \A n \in 1 .. Len(s.bytes), p \in 0 .. Len(s.bytes) - 1 :
            p < n /\ Between(s, p) => FindsNext(s, p, n)

-----------------------------------------------------------------------------
(* Streams of pictures, described by their formats and not by what a finder  *)
(* does with them.  f.parts are the places where the chunks or the segments  *)
(* of file f begin, counted from the beginning of the file.                  *)

WholeFile(s, f) ==
    /\ f.at \in Nat /\ f.size \in Nat \ {0}
    /\ f.ends = f.at + f.size /\ f.needs = f.ends /\ f.ends <= Len(s.bytes)
    /\ f.text = <<>>

Separate(s) == \A f, g \in s.files : f = g \/ f.ends <= g.at \/ g.ends <= f.at

\* Every file begins with the signature, which is nowhere else but inside files.
Marked(s, sig) ==
    /\ \A f \in s.files : Len(sig) <= f.size /\ Occurs(s.bytes, f.at, sig)
    /\ \A i \in 0 .. Len(s.bytes) - Len(sig) :
          Occurs(s.bytes, i, sig) => \E f \in s.files : f.at <= i /\ i < f.ends

\* A PNG: chunks of twelve bytes and the data they tell, the last one an IEND.
PngFile(b, f) ==
    /\ 8 \in f.parts /\ f.parts \subseteq 8 .. f.size - 12
    /\ \A d \in f.parts :
          IF SubSeq(b, f.at + d + 5, f.at + d + 8) \in IEND
          THEN d + 12 = f.size
          ELSE d + 12 + Uint32(b, f.at + d) \in f.parts

\* A JPEG: segments up to a start of scan, and no end marker from there to the last
\* two bytes.
JpegFile(b, f) ==
    /\ 2 \in f.parts /\ f.parts \subseteq 2 .. f.size - 4
    /\ \A d \in f.parts :
          IF At(b, f.at + d + 1) = SOS
          THEN /\ Occurs(b, f.ends - 2, EOI)
               /\ \A i \in f.at + d .. f.ends - 3 : ~Occurs(b, i, EOI)
          ELSE /\ SegmentLen(b, f.at + d) # 0
               /\ d + SegmentLen(b, f.at + d) \in f.parts

\* A WebP: a header of 20 bytes of the kinds the driver knows, and its size.
WebpFile(b, f) ==
    /\ f.size >= 20 /\ Uint32LE(b, f.at + 4) + 8 = f.size
    /\ Occurs(b, f.at, RIFF) /\ Occurs(b, f.at + 8, WEBP) /\ Occurs(b, f.at + 12, VP8)
    /\ \/ At(b, f.at + 15) \in {32, 76} /\ Uint32LE(b, f.at + 4) = Uint32LE(b, f.at + 16) + 12
       \/ At(b, f.at + 15) = 88

\* Nothing but files in the stream: find_webp_image is not right otherwise.
Filled(s) == \A i \in 0 .. Len(s.bytes) - 1 : \E f \in s.files : f.at <= i /\ i < f.ends

PictureStream(s) ==
    /\ Separate(s) /\ \A f \in s.files : WholeFile(s, f)
    /\ \/ /\ s.driver = "png" /\ Marked(s, PNG)
          /\ \A f \in s.files : PngFile(s.bytes, f)
       \/ /\ s.driver = "jpeg" /\ Marked(s, SOI)
          /\ \A f \in s.files : JpegFile(s.bytes, f)
       \/ /\ s.driver = "webp" /\ Filled(s)
          /\ \A f \in s.files : WebpFile(s.bytes, f)
=============================================================================
