----------------------------- MODULE MediaStream -----------------------------
(***************************************************************************)
(* What the capture engine promises about the media it hands on, without   *)
(* buffers, blocks and search pointers: for each direction of each         *)
(* conversation there is the set of stream bytes received since it was     *)
(* last forgotten, and a media file is found only when every byte of it is *)
(* there.  PcapEngine implements this.                                     *)
(***************************************************************************)
EXTENDS Integers

CONSTANTS Addrs,  \* endpoints
          Media   \* media files in the streams: [start, len]

VARIABLES received,  \* for each direction, the bytes received and not forgotten
          found      \* the media files that have been found

Directions == Addrs \X Addrs

BytesOf(m) == m.start .. (m.start + m.len - 1)

File(q, m) == [src |-> q[1], dst |-> q[2],
               bytes |-> [k \in 0 .. (m.len - 1) |-> m.start + k]]

Init == received = [q \in Directions |-> {}] /\ found = {}

\* A segment adds bytes to one direction.
Receive ==
    /\ \E q \in Directions : received' = [received EXCEPT ![q] = @ \cup received'[q]]
    /\ UNCHANGED found

\* Connections end, are reset, or are given up.
Forget ==
    /\ \E S \in SUBSET Directions :
          received' = [q \in Directions |-> IF q \in S THEN {} ELSE received[q]]
    /\ UNCHANGED found

Find ==
    /\ \E q \in Directions, m \in Media :
          /\ BytesOf(m) \subseteq received[q]
          /\ found' = found \cup {File(q, m)}
    /\ UNCHANGED received

Next == Receive \/ Forget \/ Find

Spec == Init /\ [][Next]_<<received, found>>
=============================================================================
