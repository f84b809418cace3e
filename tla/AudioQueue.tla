----------------------------- MODULE AudioQueue -----------------------------
(***************************************************************************)
(* The queue between the capture thread and the thread that feeds the MPEG *)
(* player (src/media/playaudio.c): mpeg_submit_chunk in the one, mpeg_play *)
(* in the other, and the mutex between them.  The list is modelled with    *)
(* its pointers and with malloc and free, a freed chunk being free for the *)
(* next malloc, since what can go wrong is a chunk used after it was freed *)
(* or never freed.  `buffered' is read in one step and written in another. *)
(*                                                                         *)
(* The mutex is what makes the two threads' steps atomic: between taking   *)
(* and releasing it a thread makes several steps, and the other thread     *)
(* makes those of its own steps which do not need it.                      *)
(***************************************************************************)
EXTENDS Integers, Sequences, FiniteSets, FiniteSetsExt

CONSTANTS Nodes,        \* addresses malloc may return; a bound on the list
          Chunks,       \* pieces of audio drivers submit: [data, len]
          MAX_BUFFERED, \* bytes that may wait before data is dropped
          WRCHUNK,      \* bytes audiochunk_write writes at a time
          NIL

ASSUME AudioAssumption ==
    /\ IsFiniteSet(Nodes) /\ Nodes # {} /\ NIL \notin Nodes
    /\ MAX_BUFFERED \in Nat
    /\ WRCHUNK \in Nat \ {0}
    /\ \A c \in Chunks : c.len \in Nat \ {0}

VARIABLES
    alloc,           \* the nodes between malloc and free
    chunk, next,     \* what a node holds, and its next pointer
    rd, wr,          \* the node last played, and the one last inserted
    buffered,        \* bytes waiting
    lock,            \* who holds mpeg_mtx
    run_player,
    spc, item, node, sreg,  \* mpeg_submit_chunk: place, argument, A, `buffered' as read
    ppc, A, p, preg         \* mpeg_play: place, A, bytes written, `buffered' as read

list   == <<alloc, chunk, next, rd, wr>>
submit == <<spc, item, node, sreg>>
play   == <<ppc, A, p, preg>>
vars   == <<list, buffered, lock, run_player, submit, play>>

\* Which free address malloc returns makes no difference to anybody.
Malloc(used) == CHOOSE n \in Nodes \ used : TRUE

\* do_mpeg_player: a first node without data, which counts as played.
Init ==
    /\ rd = Malloc({}) /\ wr = rd /\ alloc = {rd}
    /\ chunk = [n \in Nodes |-> NIL]
    /\ next = [n \in Nodes |-> NIL]
    /\ buffered = 0
    /\ lock = "free"
    /\ run_player = TRUE
    /\ spc = "idle" /\ item = NIL /\ node = NIL /\ sreg = 0
    /\ ppc = "top" /\ A = NIL /\ p = 0 /\ preg = 0

-----------------------------------------------------------------------------
(* mpeg_submit_chunk, in the capture thread. *)

SubmitLock(c) ==
    /\ spc = "idle"
    /\ lock = "free"
    /\ lock' = "submit"
    /\ item' = c
    /\ spc' = "check"
    /\ UNCHANGED <<list, buffered, run_player, node, sreg, play>>

\* if (buffered > MAX_BUFFERED) goto finish; the test precedes the insertion,
\* so that one chunk may overshoot.
SubmitFull ==
    /\ spc = "check"
    /\ buffered > MAX_BUFFERED
    /\ lock' = "free"
    /\ spc' = "idle" /\ item' = NIL
    /\ UNCHANGED <<list, buffered, run_player, node, sreg, play>>

\* audiochunk_new
SubmitNew ==
    /\ spc = "check"
    /\ buffered <= MAX_BUFFERED
    /\ alloc # Nodes
    /\ node' = Malloc(alloc)
    /\ alloc' = alloc \cup {node'}
    /\ chunk' = [chunk EXCEPT ![node'] = item]
    /\ next' = [next EXCEPT ![node'] = NIL]
    /\ spc' = "link"
    /\ UNCHANGED <<rd, wr, buffered, lock, run_player, item, sreg, play>>

\* Mutant of SubmitLink: wr stays where it was.
SubmitLink_LosesTail ==
    /\ spc = "link"
    /\ next' = [next EXCEPT ![wr] = node]
    /\ sreg' = buffered
    /\ spc' = "count"
    /\ UNCHANGED <<alloc, chunk, rd, wr, buffered, lock, run_player, item, node, play>>

\* wr->next = A; wr = wr->next; and `buffered' is read.
SubmitLink ==
    /\ spc = "link"
    /\ next' = [next EXCEPT ![wr] = node]
    /\ wr' = node
    /\ sreg' = buffered
    /\ spc' = "count"
    /\ UNCHANGED <<alloc, chunk, rd, buffered, lock, run_player, item, node, play>>

\* Mutant of SubmitCount: the chunk is not counted.
SubmitCount_Forgets ==
    /\ spc = "count"
    /\ lock' = "free"
    /\ spc' = "idle" /\ item' = NIL /\ node' = NIL /\ sreg' = 0
    /\ UNCHANGED <<list, buffered, run_player, play>>

\* buffered += len; unlock.
SubmitCount ==
    /\ spc = "count"
    /\ buffered' = sreg + item.len
    /\ lock' = "free"
    /\ spc' = "idle" /\ item' = NIL /\ node' = NIL /\ sreg' = 0
    /\ UNCHANGED <<list, run_player, play>>

-----------------------------------------------------------------------------
(* mpeg_play, in a thread of its own. *)

PlayExit ==
    /\ ppc = "top"
    /\ ~run_player
    /\ ppc' = "ended"
    /\ UNCHANGED <<list, buffered, lock, run_player, submit, A, p, preg>>

PlayLock ==
    /\ ppc = "top"
    /\ run_player
    /\ lock = "free"
    /\ lock' = "play"
    /\ ppc' = "look"
    /\ UNCHANGED <<list, buffered, run_player, submit, A, p, preg>>

\* Mutant of PlayLook: an empty queue is taken for the end.
PlayLook_EndsWhenEmpty ==
    /\ ppc = "look"
    /\ A' = next[rd]
    /\ p' = 0
    /\ lock' = "free"
    /\ ppc' = IF next[rd] = NIL THEN "ended" ELSE "write"
    /\ UNCHANGED <<list, buffered, run_player, submit, preg>>

\* A = rd->next; unlock.
PlayLook ==
    /\ ppc = "look"
    /\ A' = next[rd]
    /\ p' = 0
    /\ lock' = "free"
    /\ ppc' = IF next[rd] = NIL THEN "sleep" ELSE "write"
    /\ UNCHANGED <<list, buffered, run_player, submit, preg>>

PlaySleep ==
    /\ ppc = "sleep"
    /\ ppc' = "top"
    /\ UNCHANGED <<list, buffered, lock, run_player, submit, A, p, preg>>

\* One turn of audiochunk_write.  A write that is interrupted counts as done,
\* and one that fails ends the chunk; both leave data unplayed.
PlayWrite ==
    /\ ppc = "write"
    /\ \/ p' = p + WRCHUNK
       \/ p' = chunk[A].len
    /\ ppc' = IF p' >= chunk[A].len THEN "done" ELSE "write"
    /\ UNCHANGED <<list, buffered, lock, run_player, submit, A, preg>>

\* Mutant of PlayRelock: the mutex is not taken.
PlayRelock_Unlocked ==
    /\ ppc = "done"
    /\ preg' = buffered
    /\ ppc' = "consume"
    /\ UNCHANGED <<list, buffered, lock, run_player, submit, A, p>>

PlayRelock ==
    /\ ppc = "done"
    /\ lock = "free"
    /\ lock' = "play"
    /\ preg' = buffered
    /\ ppc' = "consume"
    /\ UNCHANGED <<list, buffered, run_player, submit, A, p>>

\* Mutant of PlayConsume: the chunk just played is freed, not the one before it.
PlayConsume_FreesPlayed ==
    /\ ppc = "consume"
    /\ buffered' = preg - chunk[A].len
    /\ alloc' = alloc \ {A}
    /\ rd' = A
    /\ A' = NIL /\ p' = 0 /\ preg' = 0
    /\ lock' = "free"
    /\ ppc' = "top"
    /\ UNCHANGED <<chunk, next, wr, run_player, submit>>

\* buffered -= A->len; audiochunk_delete(rd); rd = A; unlock.  What a freed node
\* held is gone.
PlayConsume ==
    /\ ppc = "consume"
    /\ buffered' = preg - chunk[A].len
    /\ alloc' = alloc \ {rd}
    /\ chunk' = [chunk EXCEPT ![rd] = NIL]
    /\ next' = [next EXCEPT ![rd] = NIL]
    /\ rd' = A
    /\ A' = NIL /\ p' = 0 /\ preg' = 0
    /\ lock' = "free"
    /\ ppc' = "top"
    /\ UNCHANGED <<wr, run_player, submit>>

\* stop_mpeg_player, in a signal handler or in main.
Stop ==
    /\ run_player
    /\ run_player' = FALSE
    /\ UNCHANGED <<list, buffered, lock, submit, play>>

-----------------------------------------------------------------------------
SubmitGoesOn == SubmitFull \/ SubmitNew \/ SubmitLink \/ SubmitCount

Play == \/ PlayExit \/ PlayLock \/ PlayLook \/ PlaySleep \/ PlayWrite
        \/ PlayRelock \/ PlayConsume

Next == (\E c \in Chunks : SubmitLock(c)) \/ SubmitGoesOn \/ Play \/ Stop

\* Each thread goes on with what it has begun; a lock the other thread takes
\* and gives back again and again is not for ever out of reach.
Fairness == WF_vars(SubmitGoesOn) /\ WF_vars(Play)
                /\ SF_vars(PlayLock) /\ SF_vars(PlayRelock)

Spec == Init /\ [][Next]_vars /\ Fairness

-----------------------------------------------------------------------------
(* Properties *)

\* The nodes from r on, in the order of the next pointers nx.
ChainFrom(nx, r) ==
    LET follow[k \in 0 .. Cardinality(Nodes)] ==
            IF k = 0 THEN r
            ELSE IF follow[k - 1] = NIL THEN NIL ELSE nx[follow[k - 1]]
        last == Max({k \in DOMAIN follow : follow[k] # NIL})
    IN  [k \in 0 .. last |-> follow[k]]

Chain == ChainFrom(next, rd)

Queued == {Chain[k] : k \in DOMAIN Chain \ {0}}

\* What waits, and whether the first of it is being played.
Queue == [k \in 1 .. Max(DOMAIN Chain) |-> chunk[Chain[k]]]
Playing == ppc \in {"write", "done", "consume"}

Fifo == INSTANCE BoundedFifo WITH queue <- Queue, playing <- Playing

TypeOK ==
    /\ alloc \subseteq Nodes /\ {rd, wr} \subseteq Nodes
    /\ chunk \in [Nodes -> Chunks \cup {NIL}]
    /\ next \in [Nodes -> Nodes \cup {NIL}]
    /\ buffered \in Nat
    /\ lock \in {"free", "submit", "play"}

\* Neither thread holds a pointer to freed memory, the list is one chain from rd
\* to wr, and what was allocated is on it: nothing dangles and nothing leaks.
ListIntact ==
    LET nodes == {rd} \cup Queued \cup (IF spc = "link" THEN {node} ELSE {})
    IN  /\ alloc = nodes
        /\ wr \in nodes /\ next[wr] = NIL
        /\ A # NIL => A = next[rd]

\* With nobody inside, the count is the sum of what waits, so that the limit on
\* what waits is a limit on memory: one chunk more than MAX_BUFFERED at most.
CountIsWaiting ==
    lock = "free" =>
        /\ buffered = Fifo!Waiting
        /\ buffered > MAX_BUFFERED => \E c \in Chunks : buffered <= MAX_BUFFERED + c.len

\* Every chunk that was accepted is played, unless the player is stopped.
EveryChunkPlayed == \A n \in Nodes : n = wr ~> (n = rd \/ ~run_player)

\* Chunks are played once each, in order, and turned away only when the queue is full.
PlaysInOrder == Fifo!Spec

-----------------------------------------------------------------------------
(* What the properties rest on, step by step. *)

\* Where each thread is, and what it holds there.
ControlOK ==
    /\ spc \in {"idle", "check", "link", "count"}
    /\ ppc \in {"top", "look", "sleep", "write", "done", "consume", "ended"}
    /\ lock = "submit" <=> spc # "idle"
    /\ lock = "play" <=> ppc \in {"look", "consume"}
    /\ spc # "idle" => item \in Chunks
    /\ spc = "link" => node \in Nodes /\ chunk[node] = item /\ next[node] = NIL
    /\ spc = "count" => chunk[wr] = item /\ sreg = buffered
    /\ spc \in {"link", "count"} => buffered <= MAX_BUFFERED
    /\ IF Playing THEN A # NIL /\ A = next[rd] ELSE A = NIL
    /\ ppc = "consume" => preg = buffered

\* The list is q, and nothing else is allocated but what is about to be linked.
Linked(q, m) ==
    /\ q[0] = rd /\ q[m] = wr /\ next[wr] = NIL
    /\ \A i, j \in 0 .. m : q[i] = q[j] => i = j
    /\ \A k \in 1 .. m : next[q[k - 1]] = q[k] /\ chunk[q[k]] \in Chunks
    /\ alloc = {q[k] : k \in 0 .. m} \cup (IF spc = "link" THEN {node} ELSE {})
    /\ spc = "link" => \A k \in 0 .. m : q[k] # node
    /\ spc = "count" => m # 0

\* What waits is counted, but for a chunk linked and not counted yet.
Counted == buffered + (IF spc = "count" THEN item.len ELSE 0) = Fifo!Waiting

AudioInv ==
    /\ TypeOK /\ ControlOK /\ Counted
    /\ \E m \in 0 .. Cardinality(Nodes) : \E q \in [0 .. m -> Nodes] : Linked(q, m)
    /\ buffered > MAX_BUFFERED => \E c \in Chunks : buffered <= MAX_BUFFERED + c.len
=============================================================================
