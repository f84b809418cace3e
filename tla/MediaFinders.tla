----------------------------- MODULE MediaFinders -----------------------------
(***************************************************************************)
(* The find_data functions of the drivers (src/media/image.c, audio.c with *)
(* mpeghdr.c, and http.c) as pure operators.  m is what was received from  *)
(* the place where the search resumes; places count from 0 as in C, and    *)
(* the result says where to resume (next) and what was found (place `at',  *)
(* `size' bytes), if size is not 0.  Bytes of images and audio are         *)
(* numbers, those of HTTP are characters.                                  *)
(*                                                                         *)
(* A byte behind the data reads as 0: some checks let the code look one    *)
(* header too far, but what it finds there does not change its result.     *)
(***************************************************************************)
EXTENDS Integers, Sequences, SequencesExt, FiniteSetsExt

CONSTANTS EXTENT, \* MIN_MPEG_EXTENT: frames in a row that make a stream (100)
          MAXREQ  \* MAX_REQ: where a request without an end is given up (16384)

ASSUME LimitsAssumption == EXTENT \in Nat /\ MAXREQ \in Nat

Byte == 0 .. 255

NONE_AT == -1
Nothing(p) == [next |-> p, at |-> 0, size |-> 0]
Got(h, end) == [next |-> end, at |-> h, size |-> end - h]

At(m, i) == IF i < Len(m) THEN m[i + 1] ELSE 0

Occurs(m, i, s) == \A k \in 1 .. Len(s) : m[i + k] = s[k]

\* memstr over the bytes from `from' to before `to': the first occurrence.
Memstr(m, from, to, s) ==
    LET hits == {i \in from .. to - Len(s) : Occurs(m, i, s)}
    IN IF hits = {} THEN NONE_AT ELSE Min(hits)

-----------------------------------------------------------------------------
(* GIF *)

GIF89a == <<71, 73, 70, 56, 57, 97>>
GIF87a == <<71, 73, 70, 56, 55, 97>>

\* Bytes of a colour table whose size is in the low bits of byte b.
TableLen(b) == 3 * 2 ^ ((b % 8) + 1)

\* Data sub-blocks from b to behind their terminator, if there is space.  Here
\* and below f is what the further turns of the loop give, by place.
SubBlock(m, f, b) ==
    LET n == Len(m)
        c == b + At(m, b) + 1
    IN IF b >= n \/ c >= n THEN NONE_AT
       ELSE IF At(m, c) # 0 THEN f[c]
       ELSE IF c + 1 >= n THEN NONE_AT ELSE c + 1

SubBlocks(m, start) == LET f[b \in Nat] == SubBlock(m, f, b) IN f[start]

\* One turn of the do loop over blocks, for the header at h.  When space runs out
\* the search resumes there; at a block it does not know, behind the signature.
GifBlock(m, h, f, b) ==
    LET n == Len(m)
        then(c) == IF c = NONE_AT \/ c >= n THEN Nothing(h) ELSE f[c]
        bad == Nothing(h + 6)
    IN CASE At(m, b) = 44 ->      \* image: its table is sized by the header
              IF b + 9 > n THEN Nothing(h)
              ELSE LET c == IF At(m, b + 9) < 128 THEN b ELSE b + TableLen(At(m, h + 9))
                   IN IF c >= n THEN Nothing(h) ELSE then(SubBlocks(m, c + 11))
         [] At(m, b) = 33 ->      \* extension
              IF b + 1 >= n THEN Nothing(h)
              ELSE CASE At(m, b + 1) = 249 ->
                          IF b + 2 >= n THEN Nothing(h)
                          ELSE then(b + 2 + At(m, b + 2) + 2)
                     [] At(m, b + 1) = 254 -> then(SubBlocks(m, b + 2))
                     [] At(m, b + 1) = 1 ->
                          IF b + 2 >= n THEN Nothing(h)
                          ELSE IF At(m, b + 2) # 12 THEN bad
                          ELSE then(SubBlocks(m, b + 15))
                     [] At(m, b + 1) = 255 ->
                          IF b + 2 >= n THEN Nothing(h)
                          ELSE IF At(m, b + 2) # 11 THEN bad
                          ELSE then(SubBlocks(m, b + 14))
                     [] OTHER -> bad
         [] At(m, b) = 59 -> Got(h, b + 1)
         [] OTHER -> bad

GifBlocks(m, h, start) == LET f[b \in Nat] == GifBlock(m, h, f, b) IN f[start]

\* find_gif_image: a GIF89a anywhere goes before a GIF87a.
FindGif(m) ==
    LET n == Len(m)
        new == Memstr(m, 0, n, GIF89a)
        h == IF new # NONE_AT THEN new ELSE Memstr(m, 0, n, GIF87a)
        block == h + 13 + IF At(m, h + 10) < 128 THEN 0 ELSE TableLen(At(m, h + 10))
    IN IF n < 6 THEN Nothing(0)
       ELSE IF h = NONE_AT THEN Nothing(n - 6)
       ELSE IF n - h < 14 \/ block >= n THEN Nothing(h)
       ELSE GifBlocks(m, h, block)

-----------------------------------------------------------------------------
(* JPEG *)

SOI == <<255, 216>>
EOI == <<255, 217>>
SOS == 218

\* is_jpeg_segment: how far the next segment is, or 0.
SegmentLen(m, b) ==
    LET type == At(m, b + 1)
    IN IF At(m, b) # 255 THEN 0 ELSE
       CASE type \in {216, 217, 222, 223, 204} \cup 208 .. 215 -> 4
         [] type = 221 -> 8
         [] type \in (192 .. 207 \ {204}) \cup {SOS, 219} \cup 224 .. 254 ->
              256 * At(m, b + 2) + At(m, b + 3) + 2
         [] OTHER -> 0

\* One turn of the do loop, at the segment that the one before leads to; from a
\* start of scan to the first end marker.
JpegSegment(m, h, f, c) ==
    LET n == Len(m)
        eoi == Memstr(m, c, n, EOI)
    IN IF n < c THEN Nothing(h)
       ELSE IF At(m, c + 1) = SOS THEN IF eoi = NONE_AT THEN Nothing(h) ELSE Got(h, eoi + 2)
       ELSE IF SegmentLen(m, c) = 0 THEN Nothing(h)
       ELSE f[c + SegmentLen(m, c)]

JpegSegments(m, h) == LET f[c \in Nat] == JpegSegment(m, h, f, c) IN f[h + 2]

\* find_jpeg_image
FindJpeg(m) ==
    LET h == Memstr(m, 0, Len(m), SOI)
    IN IF h = NONE_AT THEN Nothing(Len(m) - 1) ELSE JpegSegments(m, h)

-----------------------------------------------------------------------------
(* PNG *)

PNG == <<137, 80, 78, 71, 13, 10, 26, 10>>

\* The code "iend" in upper or lower case, each letter for itself.
IEND == {<<i, e, n, d>> : i \in {73, 105}, e \in {69, 101}, n \in {78, 110}, d \in {68, 100}}

Uint32(m, i) == ((At(m, i) * 256 + At(m, i + 1)) * 256 + At(m, i + 2)) * 256 + At(m, i + 3)

\* find_png_eoi: chunk by chunk; data counts from the signature at h.
PngChunk(m, h, f, d) ==
    LET len == Len(m) - h
    IN IF d > len - 12 THEN NONE_AT
       ELSE IF SubSeq(m, h + d + 5, h + d + 8) \in IEND THEN h + d + 12
       ELSE IF Uint32(m, h + d) > len - d THEN NONE_AT
       ELSE f[d + 12 + Uint32(m, h + d)]

PngEnd(m, h) == LET f[d \in Nat] == PngChunk(m, h, f, d) IN f[8]

\* find_png_image
FindPng(m) ==
    LET h == Memstr(m, 0, Len(m), PNG)
    IN IF Len(m) < 8 THEN Nothing(0)
       ELSE IF h = NONE_AT THEN Nothing(Len(m) - 8)
       ELSE IF PngEnd(m, h) = NONE_AT THEN Nothing(h)
       ELSE Got(h, PngEnd(m, h))

-----------------------------------------------------------------------------
(* WebP *)

RIFF == <<82, 73, 70, 70>>
WEBP == <<87, 69, 66, 80>>
VP8  == <<86, 80, 56>>
Uint32LE(m, i) == ((At(m, i + 3) * 256 + At(m, i + 2)) * 256 + At(m, i + 1)) * 256 + At(m, i)

\* find_webp_image: everything but a file resumes where it began.  The size is
\* compared with all there is, not with what is left behind the header.  The
\* decoder (WebPGetInfo) agrees, and the 10 MB limit is not reached.
FindWebp(m) ==
    LET h == Memstr(m, 0, Len(m), RIFF)
        filesize == Uint32LE(m, h + 4)
        variant == At(m, h + 15)
    IN IF /\ Len(m) >= 20 /\ h # NONE_AT
          /\ Len(m) - h >= 20
          /\ Occurs(m, h + 8, WEBP) /\ Occurs(m, h + 12, VP8)
          /\ \/ variant \in {32, 76} /\ filesize = Uint32LE(m, h + 16) + 12
             \/ variant = 88
          /\ filesize + 8 <= Len(m)
       THEN Got(h, h + filesize + 8)
       ELSE Nothing(0)

-----------------------------------------------------------------------------
(* MPEG audio *)

\* bitrate_tbl, by column; -1 is bad, 0 is free.
Bitrate == <<
    <<0, 32, 64, 96, 128, 160, 192, 224, 256, 288, 320, 352, 384, 416, 448, -1>>,
    <<0, 32, 48, 56, 64, 80, 96, 112, 128, 160, 192, 224, 256, 320, 384, -1>>,
    <<0, 32, 40, 48, 56, 64, 80, 96, 112, 128, 160, 192, 224, 256, 320, -1>>,
    <<0, 32, 48, 56, 64, 80, 96, 112, 128, 144, 160, 176, 192, 224, 256, -1>>,
    <<0, 8, 16, 24, 32, 40, 48, 56, 64, 80, 96, 112, 128, 144, 160, -1>> >>
Samplerate == <<44100, 48000, 32000, -1>>

\* mpeg_hdr_parse: an audio header, as far as the length of its frame needs it.
Version(m, p) == <<3, 0, 2, 1>>[((At(m, p + 1) \div 8) % 4) + 1]  \* 2.5, -, 2, 1
Layer(m, p)   == <<0, 3, 2, 1>>[((At(m, p + 1) \div 2) % 4) + 1]
Column(m, p)  ==
    LET i == (IF Version(m, p) = 1 THEN 0 ELSE 3) + Layer(m, p) - 1
    IN IF i = 5 THEN 4 ELSE i
BitrateOf(m, p) == Bitrate[Column(m, p) + 1][(At(m, p + 2) \div 16) + 1]
SamplerateOf(m, p) ==
    Samplerate[((At(m, p + 2) \div 4) % 4) + 1] \div 2 ^ (Version(m, p) - 1)

IsHeader(m, p) ==
    /\ At(m, p) = 255 /\ At(m, p + 1) >= 224
    /\ Version(m, p) # 0 /\ Layer(m, p) # 0
    /\ BitrateOf(m, p) # -1
    /\ (At(m, p + 2) \div 4) % 4 # 3

\* mpeg_hdr_nextframe_offset
FrameLen(m, p) ==
    LET padded == (At(m, p + 2) \div 2) % 2
    IN IF Layer(m, p) = 1
       THEN ((12 * BitrateOf(m, p) * 1000) \div SamplerateOf(m, p) + padded) * 4
       ELSE (144 * BitrateOf(m, p) * 1000) \div SamplerateOf(m, p) + padded

HeaderPlaces(m) == {p \in 0 .. Len(m) - 5 : IsHeader(m, p)}

\* One turn of the do loop, at the n-th frame of the stream from start on, which
\* is at q; the last frame may be incomplete.
MpegFrame(m, start, f, q, n) ==
    LET r == q + FrameLen(m, q)
    IN IF r = q THEN Nothing(q + 1)
       ELSE IF n < EXTENT /\ r \in HeaderPlaces(m) THEN f[<<r, n + 1>>]
       ELSE IF n >= EXTENT THEN Got(start, r)
       ELSE Nothing(start)

MpegFrames(m, start) ==
    LET f[s \in HeaderPlaces(m) \X Nat] == MpegFrame(m, start, f, s[1], s[2])
    IN f[<<start, 1>>]

\* find_mpeg_stream
FindMpeg(m) ==
    LET n == Len(m)
    IN IF n < 4 THEN Nothing(0)
       ELSE IF HeaderPlaces(m) # {} THEN MpegFrames(m, Min(HeaderPlaces(m)))
       ELSE Nothing(n - 4)

-----------------------------------------------------------------------------
(* HTTP requests *)

CRLF == <<"\r", "\n">>  \* a text is the sequence of its characters
GET  == <<"G", "E", "T", " ">>
POST == <<"P", "O", "S", "T", " ">>
HTTP1 == <<" ", "H", "T", "T", "P", "/", "1", ".">>
NUL == "NUL"            \* the character of code 0, at which a C string ends
Scheme == <<"h", "t", "t", "p", ":", "/", "/">>
Host == CRLF \o <<"H", "o", "s", "t", ":", " ">>

Reads(m, i, s) == i >= 0 /\ i + Len(s) <= Len(m) /\ Occurs(m, i, s)

\* find_http_req: a GET anywhere goes before a POST.
FindHttp(m) ==
    LET n == Len(m)
        get == Memstr(m, 0, n, GET)
        req == IF get # NONE_AT THEN get ELSE Memstr(m, 0, n, POST)
        le  == Memstr(m, req + 4, n, CRLF)
        blank == Memstr(m, le + 2, n, CRLF \o CRLF)
    IN IF n < 40 THEN Nothing(0)
       ELSE IF req = NONE_AT THEN Nothing(n - 4)
       ELSE IF le = NONE_AT
            THEN Nothing(IF n - (req + 4) > MAXREQ THEN req + 4 ELSE req)
       ELSE IF le < req + 5 \/ ~Reads(m, le - 9, HTTP1) \/ m[le] \notin {"0", "1", NUL}
            THEN Nothing(le + 2)
       ELSE IF blank = NONE_AT
            THEN Nothing(IF n - (le + 2) > MAXREQ THEN n - 4 ELSE req)
       ELSE IF \/ Reads(m, req + 4, Scheme) \/ Reads(m, req + 5, Scheme)
               \/ Memstr(m, le, blank + 2, Host) # NONE_AT
            THEN [next |-> blank + 4, at |-> req, size |-> blank - req]
       ELSE Nothing(blank + 4)

\* "%.*s" of a text: what comes before a NUL.
Printed(s) ==
    LET ends == {i \in DOMAIN s : s[i] = NUL}
    IN IF ends = {} THEN s ELSE SubSeq(s, 1, Min(ends) - 1)

\* What is printed with a negative length: up to a NUL wherever there is one,
\* behind the request and behind the buffer it is printed into.
Overrun == <<"overrun">>

\* parse_http_req (src/media_dispatcher.c): the URL of a request found, whose
\* path it takes to begin four characters in.  <<>> when there is none.
Url(d) ==
    LET n == Len(d)
        le == Memstr(d, 0, n, CRLF)
        path == IF le < 13 THEN Overrun ELSE Printed(SubSeq(d, 5, le - 9))
        host == Memstr(d, le, n, Host)
        end  == Memstr(d, host + 8, n, CRLF)
    IN IF le = NONE_AT THEN <<>>
       ELSE IF Reads(d, 4, Scheme) THEN path
       ELSE IF host = NONE_AT \/ end = NONE_AT \/ end = host + 8 THEN <<>>
       ELSE Scheme \o Printed(SubSeq(d, host + 9, end)) \o path

Drivers == {"gif", "jpeg", "png", "webp", "mpeg", "HTTP"}

Finder(driver, m) ==
    CASE driver = "gif"  -> FindGif(m)
      [] driver = "jpeg" -> FindJpeg(m)
      [] driver = "png"  -> FindPng(m)
      [] driver = "webp" -> FindWebp(m)
      [] driver = "mpeg" -> FindMpeg(m)
      [] driver = "HTTP" -> FindHttp(m)
=============================================================================
