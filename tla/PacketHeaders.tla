---------------------------- MODULE PacketHeaders ----------------------------
(***************************************************************************)
(* From a captured packet to the TCP data in it: handle_link_layer         *)
(* (src/network/layer2.c) and layer3_find_tcp (layer3.c).  A packet is its *)
(* headers with their true lengths; the code keeps an offset, and what it  *)
(* reads there is a header only if one begins there.                       *)
(*   link   the datalink type      radiotap  length of that header, or 0   *)
(*   wifi   fields of an 802.11 header and its true length                 *)
(*   ether  the protocol that the link layer announces                     *)
(*   net    the headers from there on, each with the protocol number (by   *)
(*          name) that announces it and its length in bytes                *)
(***************************************************************************)
EXTENDS Integers, Sequences

IGNORED == -1  \* the code returns -1
MISREAD == -2  \* it goes on with bytes that are no header

SNAP == 8  \* sizeof(struct snap_header)

\* parse_ieee80211: data and QoS frames in clear text; the SNAP header must be
\* where the length computed says.
Ieee80211(w) ==
    LET len == 24 + (IF w.subtype = 8 THEN 2 ELSE 0)
                  + (IF w.to_ds = 1 /\ w.from_ds = 1 THEN 6 ELSE 0)
    IN IF /\ w.protocol = 0 /\ w.type = 2 /\ w.subtype \in {0, 8} /\ w.wep = 0
          /\ len = w.len /\ w.snap
       THEN len + SNAP ELSE IGNORED

\* handle_link_layer: offset of the network header.
LinkLayer(pkt) ==
    LET off == CASE pkt.link = "EN10MB" -> 14
                 [] pkt.link \in {"IEEE802_11_RADIO", "IEEE802_11"} -> Ieee80211(pkt.wifi)
                 [] OTHER -> IGNORED
    IN IF off = IGNORED \/ pkt.ether \notin {"ip", "ipv6"} THEN IGNORED
       ELSE off + pkt.radiotap

\* Where the headers of pkt.net really begin.
LinkLen(pkt) ==
    pkt.radiotap + IF pkt.link = "EN10MB" THEN 14 ELSE pkt.wifi.len + SNAP
Starts(pkt) ==
    LET s[i \in 1 .. Len(pkt.net) + 1] ==
            IF i = 1 THEN LinkLen(pkt) ELSE s[i - 1] + pkt.net[i - 1].len
    IN s
StartOf(pkt, i) == Starts(pkt)[i]
DataAt(pkt) == StartOf(pkt, Len(pkt.net) + 1)
Announced(pkt, i) == IF i < Len(pkt.net) THEN pkt.net[i + 1].proto ELSE "none"
Protocols(pkt) == {pkt.net[i].proto : i \in DOMAIN pkt.net} \cup {"none"}

\* A packet of headers none of which is empty, the first as the link layer says,
\* and nothing but data behind TCP.
Genuine(pkt) ==
    /\ pkt.radiotap \in Nat /\ pkt.wifi.len \in Nat
    /\ pkt.net \in Seq([proto : STRING, len : Nat \ {0}])
    /\ pkt.ether \in {"ip", "ipv6"} => pkt.net # <<>> /\ pkt.net[1].proto = pkt.ether
    /\ \A i \in DOMAIN pkt.net : pkt.net[i].proto = "tcp" => i = Len(pkt.net)

\* layer3_find_tcp, one turn: the header proto that is expected at offset o; f is
\* what the further turns give.  IP and IPv6 may be nested.  An option or routing
\* header is skipped by its length field, which counts eight bytes less than the
\* header has.  A hop-by-hop header has the number of IPPROTO_IP.
HeaderTurn(pkt, f, o, proto) ==
    LET here == {i \in DOMAIN pkt.net : StartOf(pkt, i) = o /\ pkt.net[i].proto = proto}
        i == CHOOSE i \in here : TRUE
        next == Announced(pkt, i)
    IN CASE proto \notin {"tcp", "ip", "ipip", "ipv6", "dstopts", "routing", "hopopts"}
              -> IGNORED
         [] OTHER ->
              IF here = {} \/ proto = "hopopts" THEN MISREAD
              ELSE IF proto = "tcp" THEN o + pkt.net[i].len
              ELSE IF proto \in {"dstopts", "routing"}
                   THEN f[<<o + pkt.net[i].len - 8, next>>]
              ELSE f[<<o + pkt.net[i].len, next>>]

\* The offset of the TCP data.
FindTcp(pkt, start, first) ==
    LET f[s \in Nat \X Protocols(pkt)] == HeaderTurn(pkt, f, s[1], s[2]) IN f[<<start, first>>]

\* process_packet's offset of the data in a packet.
DataOffset(pkt) ==
    IF LinkLayer(pkt) = IGNORED THEN IGNORED ELSE FindTcp(pkt, LinkLayer(pkt), pkt.ether)
=============================================================================
