------------------------------ MODULE MCArrival ------------------------------
EXTENDS Arrival

LOCAL Concat(parts) == FoldLeft(LAMBDA s, p : s \o p, <<>>, parts)
LOCAL Fill(n, b) == [i \in 1 .. n |-> b]

\* A file that needs all of its bytes, starting at place `at' of its stream.
File(at, size) == [at |-> at, size |-> size, ends |-> at + size, needs |-> at + size,
                   text |-> <<>>, parts |-> {}]
InParts(file, parts) == [file EXCEPT !.parts = parts]
Stream(driver, bytes, files) == [driver |-> driver, bytes |-> bytes, files |-> files]

\* GIF: with and without a global colour table, an image with and without a
\* local one, and each kind of extension.  A signature cut short and a header
\* with an unknown block behind it precede and separate them.
Image == <<44, 0, 0, 0, 0, 1, 0, 1, 0, 0, 2, 2, 9, 9, 1, 9, 0>>
ImageLocal == <<44, 0, 0, 0, 0, 1, 0, 1, 0, 128, 7, 7, 7, 7, 7, 7, 2, 1, 9, 0>>
Control == <<33, 249, 4, 0, 0, 0, 0, 0>>
Comment == <<33, 254, 1, 9, 0>>
Text == <<33, 1, 12>> \o Fill(12, 5) \o <<1, 9, 0>>
Application == <<33, 255, 11>> \o Fill(11, 5) \o <<1, 9, 0>>
GifHeader(sig, table) ==
    sig \o <<1, 0, 1, 0, IF table THEN 128 ELSE 0, 0, 0>> \o IF table THEN Fill(6, 8) ELSE <<>>
Gif1 == GifHeader(GIF89a, TRUE) \o Control \o Image \o <<59>>
Gif2 == GifHeader(GIF89a, FALSE) \o Comment \o Text \o Application \o ImageLocal \o <<59>>
Gif3 == GifHeader(GIF87a, FALSE) \o Image \o <<59>>
NoGif == GifHeader(GIF89a, FALSE) \o <<1>>

\* JPEG: segments of variable length, among them a start of frame that is reserved,
\* a start of scan, data, an end.
Jpeg == <<255, 216, 255, 224, 0, 4, 255, 216, 255, 200, 0, 3, 7, 255, 218, 0, 3, 1,
          5, 255, 0, 6, 255, 217>>

\* PNG: chunks with and without data.
Chunk(name, data) == <<0, 0, 0, Len(data)>> \o name \o data \o <<1, 2, 3, 4>>
Png(end) == PNG \o Chunk(<<73, 72, 68, 82>>, <<9, 9>>) \o Chunk(<<73, 68, 65, 84>>, <<9>>)
                \o Chunk(end, <<>>)

\* WebP: a simple and an extended file.
Webp1 == RIFF \o <<16, 0, 0, 0>> \o WEBP \o VP8 \o <<32, 4, 0, 0, 0>> \o Fill(4, 9)
Webp2 == RIFF \o <<20, 0, 0, 0>> \o WEBP \o VP8 \o <<88, 3, 0, 0, 0>> \o Fill(8, 9)

\* MPEG: layer I at 32 kbit/s and 48 kHz (32 bytes, or 36 with padding), and
\* layer III of version 2 at 8 kbit/s and 24 kHz (48 bytes).
Frame1 == <<255, 255, 20, 0>> \o Fill(28, 1)
Frame2 == <<255, 255, 22, 0>> \o Fill(32, 1)
Frame3 == <<255, 243, 20, 0>> \o Fill(44, 1)
Audio(at, size, last) == [at |-> at, size |-> size, ends |-> at + size,
                          needs |-> at + size - last, text |-> <<>>]

\* HTTP: requests with a Host between other headers, or with a whole URL; a line
\* with a NUL for the last digit passes for a request too.
Line(chars) == chars \o CRLF
Version1 == HTTP1 \o <<"1">>
Other == <<"A", "c", "c", "e", "p", "t", ":", " ", "*", "/", "*">>
Name == <<"h">>
Path == <<"/", "p">>
Req1 == Concat(<<Line(GET \o Path \o Version1), Line(Other), SubSeq(Host, 3, 8), Line(Name),
                 Line(Other), CRLF>>)
Req2 == Concat(<<Line(GET \o Scheme \o Name \o Path \o Version1), Line(Other), CRLF>>)
Req3 == Concat(<<Line(POST \o Path \o Version1), SubSeq(Host, 3, 8), Line(Name),
                 Line(Other), CRLF>>)
NoHost == Concat(<<Line(GET \o Path \o HTTP1 \o <<NUL>>), Line(Other), Line(Other), CRLF>>)
Request(at, req, path) ==
    [at |-> at, size |-> Len(req) - 4, ends |-> at + Len(req), needs |-> at + Len(req),
     text |-> Scheme \o Name \o path]

MCStreams == <<
    Stream("gif", Concat(<<<<71, 73, 70, 56>>, Gif1, NoGif, Gif3>>),
           {File(4, Len(Gif1)), File(4 + Len(Gif1) + Len(NoGif), Len(Gif3))}),
    Stream("gif", NoGif \o Gif2, {File(Len(NoGif), Len(Gif2))}),
    Stream("jpeg", Concat(<<<<1, 255>>, Jpeg, <<255, 1, 217>>, Jpeg, <<7>>>>),
           {InParts(File(2, Len(Jpeg)), {2, 8, 13}),
            InParts(File(5 + Len(Jpeg), Len(Jpeg)), {2, 8, 13})}),
    Stream("png", Concat(<<<<137, 80>>, Png(<<73, 69, 78, 68>>), <<137>>,
                           Png(<<105, 69, 110, 100>>)>>),
           {InParts(File(2, 47), {8, 22, 35}), InParts(File(50, 47), {8, 22, 35})}),
    Stream("webp", Concat(<<Webp1, Webp2, Webp1>>), {File(0, 24), File(24, 28), File(52, 24)}),
    Stream("mpeg", Concat(<<<<255, 3>>, Frame1, Frame2, Frame3, Frame1, <<1>>>>),
           {Audio(2, 68, 36), Audio(70, 80, 32)}),
    Stream("HTTP", Concat(<<Req1, NoHost, Req2>>),
           {Request(0, Req1, Path), Request(Len(Req1) + Len(NoHost), Req2, Path)}),
    Stream("HTTP", Req3 \o Req3,
           {Request(0, Req3, <<" ">> \o Path), Request(Len(Req3), Req3, <<" ">> \o Path)})
    >>

\* Framings the code knows, one with an extension header, one that is padded,
\* and some it ignores.
Hdr(proto, len) == [proto |-> proto, len |-> len]
Wifi(subtype, both, len) ==
    [protocol |-> 0, type |-> 2, subtype |-> subtype, wep |-> 0, to_ds |-> both,
     from_ds |-> both, snap |-> TRUE, len |-> len]
NoWifi == Wifi(0, 0, 24)
Framing(link, radiotap, wifi, ether, net, padded) ==
    [link |-> link, radiotap |-> radiotap, wifi |-> wifi, ether |-> ether, net |-> net,
     padded |-> padded]
Ether(ether, net) == Framing("EN10MB", 0, NoWifi, ether, net, FALSE)
IpTcp == <<Hdr("ip", 20), Hdr("tcp", 20)>>

MCFramings == {
    Ether("ip", IpTcp),
    Framing("EN10MB", 0, NoWifi, "ip", IpTcp, TRUE),
    Ether("ip", <<Hdr("ip", 24), Hdr("ipip", 20), Hdr("tcp", 32)>>),
    Ether("ipv6", <<Hdr("ipv6", 40), Hdr("tcp", 20)>>),
    Ether("ipv6", <<Hdr("ipv6", 40), Hdr("dstopts", 8), Hdr("tcp", 20)>>),
    Ether("ip", <<Hdr("ip", 20), Hdr("udp", 8)>>),
    Ether("arp", <<>>),
    Framing("IEEE802_11_RADIO", 18, Wifi(8, 1, 32), "ip", IpTcp, FALSE),
    Framing("IEEE802_11", 0, Wifi(0, 0, 24), "ip", IpTcp, FALSE),
    Framing("IEEE802_11", 0, [NoWifi EXCEPT !.wep = 1], "ip", IpTcp, FALSE),
    Framing("PPP", 0, NoWifi, "ip", IpTcp, FALSE) }

\* What the proofs assume of the streams holds of these: each call of a finder,
\* with each part of a stream, does what FindsNext says.
ASSUME StreamsAreDescribed == StreamsDescribed
ASSUME CallsAreRight == FindersRight

\* The streams of the formats that the proofs describe are such streams.
ASSUME PicturesDescribed ==
    \A i \in DOMAIN Streams :
        Streams[i].driver \in {"png", "jpeg", "webp"} => PictureStream(Streams[i])
=============================================================================
