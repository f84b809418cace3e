----------------------------- MODULE BoundedFifo -----------------------------
(***************************************************************************)
(* What the audio queue promises: chunks are played in the order in which  *)
(* they were accepted, each of them once, and a chunk is turned away only  *)
(* when more than MAX_BUFFERED bytes wait.  AudioQueue implements this.    *)
(***************************************************************************)
EXTENDS Integers, Sequences

CONSTANTS Chunks,       \* pieces of audio: [data, len]
          MAX_BUFFERED  \* bytes that may wait before data is dropped

VARIABLES queue,   \* the chunks that wait, the one being played first
          playing  \* is the first one being played?

\* Bytes in a sequence of chunks.
Bytes(q) == LET sum[n \in 0 .. Len(q)] == IF n = 0 THEN 0 ELSE sum[n - 1] + q[n].len
            IN  sum[Len(q)]

Waiting == Bytes(queue)

Init == queue = <<>> /\ playing = FALSE

Accept(c) ==
    /\ Waiting <= MAX_BUFFERED
    /\ queue' = Append(queue, c)
    /\ UNCHANGED playing

Start ==
    /\ queue # <<>> /\ ~playing
    /\ playing' = TRUE
    /\ UNCHANGED queue

Finish ==
    /\ playing
    /\ queue' = Tail(queue)
    /\ playing' = FALSE

Next == Start \/ Finish \/ \E c \in Chunks : Accept(c)

Spec == Init /\ [][Next]_<<queue, playing>>
=============================================================================
