---------------------------- MODULE MCPcapEngine ----------------------------
(***************************************************************************)
(* Values of the constants of PcapEngine for TLC.  A stream is given by    *)
(* its initial sequence number; byte 0 of it is the SYN, so that data      *)
(* begins at byte 1, as it does in TCP.                                    *)
(***************************************************************************)
EXTENDS PcapEngine

CONSTANTS A, B, C,   \* endpoints
          FirstIsn   \* initial sequence number of what A sends

Isn(src) == IF src = A THEN FirstIsn ELSE 30

Segment(src, dst, pos, len) ==
    [src |-> src, dst |-> dst, seq |-> (Isn(src) + pos) % SeqSpace, pos |-> pos,
     len |-> len, rst |-> FALSE, fin |-> FALSE]

Syn(src, dst) == Segment(src, dst, 0, 0)
Fin(src, dst, pos) == [Segment(src, dst, pos, 0) EXCEPT !.fin = TRUE]
Rst(src, dst, pos) == [Segment(src, dst, pos, 0) EXCEPT !.rst = TRUE]

-----------------------------------------------------------------------------
\* One direction: seven bytes, as a sender may cut them when it repeats itself,
\* with two files in them, the second right behind the first.
StreamPackets ==
    {Syn(A, B), Segment(A, B, 1, 2), Segment(A, B, 3, 2), Segment(A, B, 5, 3),
     Segment(A, B, 3, 1), Segment(A, B, 2, 4), Rst(A, B, 8)}

StreamMedia == {[start |-> 2, len |-> 4], [start |-> 6, len |-> 2]}

-----------------------------------------------------------------------------
\* Conversations, with their ends, through a table that has to grow.
TalkPackets ==
    {Syn(A, B), Segment(A, B, 1, 2), Segment(A, B, 3, 2), Fin(A, B, 5), Rst(A, B, 5),
     Segment(B, A, 1, 2), Fin(B, A, 3), Segment(C, B, 1, 2)}

TalkMedia == {[start |-> 1, len |-> 2]}

-----------------------------------------------------------------------------
\* What the theorems about the bytes suppose of the packets is so of these,
\* unless the sequence numbers of A pass through zero, as they do in Wraparound.
ASSUME UnwrappedIsOneStretch == FirstIsn + 8 < SeqSpace => OneStretch

\* In none of the scenarios does a media file begin within another.
ASSUME FilesLieApart == MediaApart
=============================================================================
