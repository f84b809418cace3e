------------------------------ MODULE HttpRing ------------------------------
(***************************************************************************)
(* The HTTP display (src/http_display/httpd.c): a ring of messages written *)
(* by the capture thread (ws_send_media) and read, for every page that is  *)
(* open, by the thread that runs libwebsockets (ws_callback).  There is no *)
(* lock: the two share the ring, the list of sessions and vhost_data.      *)
(*                                                                         *)
(* The grain is that of the shared accesses.  The capture thread inserts a *)
(* message, then walks the list and reads each cell three times: to test   *)
(* it, to ask for a callback, to go on.  The service thread links a session*)
(* before it sets the session's wsi, which the walk uses; and its recount, *)
(* in lws_ring_consume_and_update_oldest_tail, asks for the number of      *)
(* waiting messages, hence for the ring's head, once per session.          *)
(*                                                                         *)
(* A message is its number; what it says (type and name of a file) makes   *)
(* no difference to the ring.  A slot whose message was destroyed is 0.    *)
(***************************************************************************)
EXTENDS Integers, Sequences, FiniteSets, SequencesExt

CONSTANTS Pages,    \* addresses of sessions; a bound on those open at a time
          SIZE,     \* slots of the ring (250); one always stays empty
          MaxSent,  \* bound on the messages that enter the ring
          HEAD, NIL \* the cell that holds the list's head, and its end

ASSUME HttpRingAssumption ==
    /\ SIZE \in Nat \ {0, 1}
    /\ MaxSent \in Nat
    /\ HEAD \notin Pages /\ NIL \notin Pages /\ HEAD # NIL

VARIABLES
    slot, head, oldest, \* lws_ring: payloads, next slot to fill, oldest tail
    list,               \* the sessions of pss_list, first first
    tail, want,         \* for each session its tail, and whether it has a
                        \* writable callback pending
    gone, after,        \* sessions freed, and the next pointer left in them
    cpc, at,            \* capture thread: place, and the cell its walk is at
    vpc, cur, todo, best, \* service thread: place, session of the callback,
                        \* sessions still to count, most waiting so far
    sent, joined, last, \* history: see Broadcast
    raced,              \* history: a message came in amid a recount
    skipped             \* history: a session left under the walk of the
                        \* message sent last

ring     == <<slot, head, oldest>>
sessions == <<list, tail, gone, after>>
capture  == <<cpc, at>>
service  == <<vpc, cur, todo, best>>
history  == <<sent, joined, last>>
windows  == <<raced, skipped>>
vars == <<ring, sessions, want, capture, service, history, windows>>

Slots == 0 .. SIZE - 1
Live == ToSet(list)
NothingBest == [n |-> 0, tail |-> 0]

\* init_http_display: the service thread exists, and has done nothing yet.
Init ==
    /\ slot = [i \in Slots |-> 0] /\ head = 0 /\ oldest = 0
    /\ list = <<>> /\ gone = {}
    /\ after = [p \in Pages |-> NIL]
    /\ tail = [p \in Pages |-> 0]
    /\ want = [p \in Pages |-> FALSE]
    /\ cpc = "idle" /\ at = HEAD
    /\ vpc = "off" /\ cur = NIL /\ todo = <<>> /\ best = NothingBest
    /\ sent = 0
    /\ joined = [p \in Pages |-> 0]
    /\ last = [p \in Pages |-> 0]
    /\ raced = FALSE /\ skipped = FALSE

-----------------------------------------------------------------------------
(* lws_ring, of libwebsockets. *)

\* lws_ring_get_count_waiting_elements
Waiting(t) == (head - t) % SIZE

\* Mutant of Free: the slot that tells full from empty is given away.
Free_AllSlots == SIZE - Waiting(oldest)

\* lws_ring_get_count_free_elements
Free == SIZE - 1 - Waiting(oldest)

Bump(t) == (t + 1) % SIZE

\* lws_ring_update_oldest_tail: destroy_message for every slot passed over.
Destroyed(t) == [i \in Slots |-> IF (i - oldest) % SIZE < (t - oldest) % SIZE
                                 THEN 0 ELSE slot[i]]

-----------------------------------------------------------------------------
(* The capture thread: ws_send_media. *)

\* The process ends, with both threads.
Crash == cpc' = "crashed" /\ vpc' = "crashed"

\* vhost_data is a null pointer until the service thread has run
\* PROTOCOL_INIT, and points to freed memory once the context is destroyed.
SendWithoutRing ==
    /\ cpc = "idle"
    /\ vpc \in {"off", "destroyed"}
    /\ Crash
    /\ UNCHANGED <<ring, sessions, want, at, cur, todo, best, history, windows>>

\* The ring is full, or malloc failed: the message is forgotten, and nobody
\* is asked to write what is there.
SendFull ==
    /\ cpc = "idle"
    /\ vpc \notin {"off", "destroyed"}
    /\ Free = 0
    /\ UNCHANGED vars

\* lws_ring_insert
Send ==
    /\ cpc = "idle"
    /\ vpc \notin {"off", "destroyed"}
    /\ Free > 0
    /\ sent < MaxSent
    /\ slot' = [slot EXCEPT ![head] = sent + 1]
    /\ head' = Bump(head)
    /\ sent' = sent + 1
    /\ cpc' = "look" /\ at' = HEAD
    /\ raced' = (raced \/ (vpc = "recount" /\ todo \notin {<<>>, list}))
    /\ skipped' = FALSE
    /\ UNCHANGED <<oldest, sessions, want, service, joined, last>>

\* What a cell of the list holds.
Cells == <<HEAD>> \o list \o <<NIL>>
Following(c) == Cells[CHOOSE i \in 2 .. Len(Cells) : Cells[i - 1] = c]

\* What reading a cell gives.  The memory of a session that left holds its
\* old pointer until it is freed, and zeroes once it is allocated again.
Held(c) == IF c \in gone THEN {after[c], NIL} ELSE {Following(c)}

\* while (*ppss)
WalkTest ==
    /\ cpc = "look"
    /\ \E c \in Held(at) :
          IF c = NIL THEN cpc' = "idle" /\ at' = HEAD
                     ELSE cpc' = "request" /\ at' = at
    /\ UNCHANGED <<ring, sessions, want, service, history, windows>>

\* Mutant of WalkRequest: only the first session is told.
WalkRequest_FirstOnly ==
    /\ cpc = "request"
    /\ \E c \in Held(at) \ {NIL} :
          /\ ~(vpc = "join" /\ cur = c)
          /\ want' = IF c \in Live THEN [want EXCEPT ![c] = TRUE] ELSE want
    /\ cpc' = "idle" /\ at' = HEAD
    /\ UNCHANGED <<ring, sessions, service, history, windows>>

\* lws_callback_on_writable((*ppss)->wsi).  A compiler may use what the test
\* read: that is a test and a request with nothing between.
WalkRequest ==
    /\ cpc = "request"
    /\ \E c \in Held(at) \ {NIL} :
          /\ ~(vpc = "join" /\ cur = c)
          /\ want' = IF c \in Live THEN [want EXCEPT ![c] = TRUE] ELSE want
    /\ cpc' = "advance"
    /\ UNCHANGED <<ring, sessions, at, service, history, windows>>

\* ppss = &(*ppss)->pss_list: *ppss is read anew after the call.
WalkAdvance ==
    /\ cpc = "advance"
    /\ \E c \in Held(at) \ {NIL} : at' = c
    /\ cpc' = "look"
    /\ UNCHANGED <<ring, sessions, want, service, history, windows>>

\* A null pointer is followed, when the last session was unlinked since the
\* test or the one met has no wsi yet; or memory that was freed is used.
WalkCrash ==
    /\ cpc \in {"look", "request", "advance"}
    /\ \/ skipped \/ vpc = "destroyed"
       \/ cpc \in {"request", "advance"} /\ NIL \in Held(at)
       \/ cpc = "request" /\ vpc = "join" /\ cur \in Held(at)
    /\ Crash
    /\ UNCHANGED <<ring, sessions, want, at, cur, todo, best, history, windows>>

-----------------------------------------------------------------------------
(* The service thread: http_server_dispatch and the cases of ws_callback. *)

\* lws_create_context, which runs PROTOCOL_INIT.
ProtocolInit ==
    /\ vpc = "off"
    /\ vpc' = "idle"
    /\ UNCHANGED <<ring, sessions, want, capture, cur, todo, best, history, windows>>

\* Mutant of Linked: the tail of a new session is not set.
Linked_NoTail(p) ==
    /\ vpc = "idle"
    /\ p \notin Live
    /\ list' = <<p>> \o list
    /\ gone' = gone \ {p} /\ after' = [after EXCEPT ![p] = NIL]
    /\ tail' = [tail EXCEPT ![p] = 0]
    /\ joined' = [joined EXCEPT ![p] = sent]
    /\ vpc' = "join" /\ cur' = p
    /\ UNCHANGED <<ring, want, capture, todo, best, sent, last, windows>>

\* LWS_CALLBACK_ESTABLISHED, to where the session is in the list.  A page
\* starts with the oldest message of the ring: its tail is set next, and here,
\* since only this thread reads it and moves the oldest tail.  The session may
\* be put where a freed one was.
Linked(p) ==
    /\ vpc = "idle"
    /\ p \notin Live
    /\ list' = <<p>> \o list
    /\ gone' = gone \ {p} /\ after' = [after EXCEPT ![p] = NIL]
    /\ tail' = [tail EXCEPT ![p] = oldest]
    /\ joined' = [joined EXCEPT ![p] = sent]
    /\ vpc' = "join" /\ cur' = p
    /\ UNCHANGED <<ring, want, capture, todo, best, sent, last, windows>>

\* pss->wsi = wsi.  No callback is asked for: the page waits for the next
\* message to be sent.
Established ==
    /\ vpc = "join"
    /\ vpc' = "idle" /\ cur' = NIL
    /\ UNCHANGED <<ring, sessions, want, capture, todo, best, history, windows>>

\* The sessions that must not leave for the walk to meet all the others: that
\* of the cell it is at, and, once that is asked, the one it goes on from.
UnderWalk ==
    CASE cpc \in {"look", "request"} -> {at}
      [] cpc = "advance" -> {at} \cup Held(at)
      [] OTHER -> {}

\* lws_ll_fwd_remove
Unlink(p) ==
    /\ \E i \in DOMAIN list : list[i] = p /\ list' = RemoveAt(list, i)
    /\ gone' = gone \cup {p}
    /\ after' = [after EXCEPT ![p] = Following(p)]
    /\ want' = [want EXCEPT ![p] = FALSE]
    /\ tail' = [tail EXCEPT ![p] = 0]
    /\ joined' = [joined EXCEPT ![p] = 0]
    /\ last' = [last EXCEPT ![p] = 0]
    /\ skipped' = (skipped \/ p \in UnderWalk)
    /\ UNCHANGED <<ring, capture, service, sent, raced>>

\* The page goes away, or, when want[p], lws_write to it fails and the
\* callback returns -1.  The oldest tail stays where it is, whoever had it.
Closed(p) ==
    /\ vpc = "idle"
    /\ p \in Live
    /\ Unlink(p)

\* LWS_CALLBACK_SERVER_WRITEABLE and nothing to write.
WriteableNothing(p) ==
    /\ vpc = "idle"
    /\ p \in Live /\ want[p]
    /\ tail[p] = head
    /\ want' = [want EXCEPT ![p] = FALSE]
    /\ UNCHANGED <<ring, sessions, capture, service, history, windows>>

\* lws_write, then lws_ring_consume.  Only who held the oldest tail looks
\* for a new one.
Writeable(p) ==
    /\ vpc = "idle"
    /\ p \in Live /\ want[p]
    /\ tail[p] # head
    /\ last' = [last EXCEPT ![p] = slot[tail[p]]]
    /\ tail' = [tail EXCEPT ![p] = Bump(@)]
    /\ want' = [want EXCEPT ![p] = FALSE]
    /\ cur' = p
    /\ IF oldest = tail[p]
       THEN vpc' = "recount" /\ todo' = list /\ best' = [n |-> 0, tail |-> Bump(tail[p])]
       ELSE vpc' = "again" /\ UNCHANGED <<todo, best>>
    /\ UNCHANGED <<ring, list, gone, after, capture, sent, joined, windows>>

\* One turn of the loop: the tail with the most messages waiting is oldest.
Recount ==
    /\ vpc = "recount"
    /\ todo # <<>>
    /\ LET t == tail[Head(todo)]
       IN best' = IF Waiting(t) >= best.n THEN [n |-> Waiting(t), tail |-> t] ELSE best
    /\ todo' = Tail(todo)
    /\ UNCHANGED <<ring, sessions, want, capture, vpc, cur, history, windows>>

\* Mutant of UpdateOldest: one slot more is destroyed.
UpdateOldest_OneMore ==
    /\ vpc = "recount"
    /\ todo = <<>>
    /\ slot' = [Destroyed(best.tail) EXCEPT ![best.tail] = 0]
    /\ oldest' = best.tail
    /\ vpc' = "again" /\ best' = NothingBest
    /\ UNCHANGED <<head, sessions, want, capture, cur, todo, history, windows>>

UpdateOldest ==
    /\ vpc = "recount"
    /\ todo = <<>>
    /\ slot' = Destroyed(best.tail)
    /\ oldest' = best.tail
    /\ vpc' = "again" /\ best' = NothingBest
    /\ UNCHANGED <<head, sessions, want, capture, cur, todo, history, windows>>

\* Mutant of Again: the callback asks for no other.
Again_Forgets ==
    /\ vpc = "again"
    /\ vpc' = "idle" /\ cur' = NIL
    /\ UNCHANGED <<ring, sessions, want, capture, todo, best, history, windows>>

\* Another callback when there is more to write to this page.
Again ==
    /\ vpc = "again"
    /\ want' = [want EXCEPT ![cur] = @ \/ tail[cur] # head]
    /\ vpc' = "idle" /\ cur' = NIL
    /\ UNCHANGED <<ring, sessions, capture, todo, best, history, windows>>

\* stop_http_display is called, while packets are still captured: the thread
\* is cancelled where it waits, or sees the flag first, leaves its loop and
\* destroys the context, with the ring and the sessions.  It also leaves its
\* loop when lws_service fails.
Stopped ==
    /\ vpc = "idle"
    /\ vpc' \in {"cancelled", "destroyed"}
    /\ UNCHANGED <<ring, sessions, want, capture, cur, todo, best, history, windows>>

CaptureStep == WalkTest \/ WalkRequest \/ WalkAdvance \/ WalkCrash
ServiceStep == ProtocolInit \/ Established \/ Recount \/ UpdateOldest \/ Again

Next ==
    \/ SendWithoutRing \/ SendFull \/ Send
    \/ CaptureStep
    \/ ServiceStep
    \/ \E p \in Pages : \/ Linked(p) \/ Closed(p)
                        \/ WriteableNothing(p) \/ Writeable(p)
    \/ Stopped

\* Both threads go on, and lws_service, which polls all sockets at once, calls
\* a session that asked for it though others come and go meanwhile.  Nobody
\* need send, connect, leave or stop.
Spec == /\ Init /\ [][Next]_vars
        /\ WF_vars(CaptureStep)
        /\ WF_vars(ServiceStep)
        /\ \A p \in Pages : SF_vars(WriteableNothing(p) \/ Writeable(p))

\* What a run need not explore: nothing is promised after a collision.
NotRaced == ~raced

-----------------------------------------------------------------------------
(* Properties. *)

\* A message is destroyed only when the last page that had not read it has
\* read it: what waits for an open page is still in the ring, the newest
\* message last.  (lws_ring_consume_and_update_oldest_tail)
UnreadIntact ==
    \A p \in Live : \A k \in 1 .. Waiting(tail[p]) :
        slot[(head - k) % SIZE] = sent + 1 - k

\* The same of every run in which no message was inserted between the first
\* and the last count of a recount: that window is the only one.
UnreadIntactUnlessRaced == raced \/ UnreadIntact

\* No message leaks and none is destroyed that was not passed over: the slots
\* from the oldest tail to the head are the last messages sent, the others
\* are empty.  (lws_ring_insert against destroy_message)
RingIsTheLastMessages ==
    ~raced => \A k \in 1 .. SIZE :
        slot[(head - k) % SIZE] = IF k <= Waiting(oldest) THEN sent + 1 - k ELSE 0

\* A page that has to read a message sent after it connected has a callback
\* coming: pending, about to be asked for by the callback that runs, or by
\* the walk of the sender, who crashed otherwise.  The one exception is the
\* window of the walk: a session left that it was at, or was about to go on
\* from, and no message was sent since.  (ws_send_media's walk of the list
\* against ESTABLISHED, CLOSED and the end of SERVER_WRITEABLE)
NoLostWakeup ==
    \A p \in Live :
        /\ ~raced /\ ~skipped /\ vpc \notin {"cancelled", "destroyed"}
        /\ sent > joined[p] /\ tail[p] # head
        => \/ want[p]
           \/ vpc \in {"recount", "again"} /\ cur = p
           \/ cpc # "idle"

\* What pages are given is what Broadcast says.
Promise == INSTANCE Broadcast WITH broken <- raced
KeepsPromise == Promise!Spec

\* The threads still run, and did not meet in a recount.
Serving == vpc \notin {"cancelled", "destroyed", "crashed"} /\ ~raced

\* When the walk of the latest message is over and has skipped nobody, every
\* message in the ring reaches every page that was open when it came in, unless the
\* page leaves, the display ends or the threads collide.  So a page that a
\* walk skipped when another left has to wait for the next message, and then
\* gets both.  (ws_send_media's walk against ws_callback)
EveryPageGetsIt ==
    \A p \in Pages, m \in 1 .. MaxSent :
        LET Waits   == p \in Live /\ sent >= m /\ joined[p] < m
            Settled == last[p] >= m \/ p \notin Live \/ ~Serving
        IN Waits /\ cpc = "idle" /\ ~skipped ~> Settled

-----------------------------------------------------------------------------
(* What the properties rest on; one named part for each reason. *)

\* The variables hold what they should; no session is listed twice, and one
\* that is not listed has been given nothing.
VarsOK ==
    /\ slot \in [Slots -> Nat] /\ head \in Slots /\ oldest \in Slots
    /\ tail \in [Pages -> Slots]
    /\ sent \in Nat /\ joined \in [Pages -> Nat] /\ last \in [Pages -> Nat]
    /\ raced \in BOOLEAN
    /\ list \in Seq(Pages) /\ IsInjective(list)
    /\ todo \in Seq(Pages)
    /\ best \in [n : Nat, tail : Slots]
    /\ \A p \in Pages : joined[p] <= sent /\ (p \notin Live => last[p] = 0)

\* No page waits for more than the ring still holds.
NoneBehindOldest ==
    /\ Waiting(oldest) <= sent
    /\ \A p \in Live : Waiting(tail[p]) <= Waiting(oldest)

\* A page's tail is behind the message it was given last, or at one that it
\* may be given first.
TailFollowsLast ==
    \A p \in Live : IF last[p] = 0 THEN sent - Waiting(tail[p]) <= joined[p]
                                   ELSE sent - Waiting(tail[p]) = last[p]

\* The best so far has as much waiting as any session counted, and no more
\* than the oldest; its number is right once a session was counted.
RecountOK ==
    vpc = "recount" =>
        /\ Live # {}
        /\ ToSet(todo) \subseteq Live /\ Len(todo) <= Len(list)
        /\ Waiting(best.tail) <= Waiting(oldest)
        /\ \A p \in Live \ ToSet(todo) : Waiting(tail[p]) <= Waiting(best.tail)
        /\ todo = list => best.n = 0
        /\ todo \notin {<<>>, list} => best.n = Waiting(best.tail)

RingInv ==
    /\ VarsOK
    /\ ~raced => /\ RingIsTheLastMessages
                 /\ NoneBehindOldest /\ TailFollowsLast /\ RecountOK

\* A page that has to read a message sent after it connected and has no
\* callback coming.
Forgotten(p) ==
    /\ p \in Live /\ sent > joined[p] /\ tail[p] # head
    /\ ~want[p] /\ ~(vpc \in {"recount", "again"} /\ cur = p)

\* The ith cell of the list.
Cell(i) == IF i = 0 THEN HEAD ELSE list[i]

\* The walk still comes to p: p is listed behind the cell the walk is at, and,
\* when it asked the next one already, behind that.
Ahead(p) ==
    \E i \in 0 .. Len(list), j \in 1 .. Len(list) :
        /\ at = Cell(i) /\ list[j] = p
        /\ IF cpc = "advance" THEN i + 1 < j ELSE i < j

WalkVarsOK ==
    /\ want \in [Pages -> BOOLEAN] /\ skipped \in BOOLEAN
    /\ gone \subseteq Pages /\ gone \cap Live = {}
    /\ after \in [Pages -> Pages \cup {NIL}]
    /\ \A p \in gone : after[p] \in Live \cup gone \cup {NIL}
    /\ cpc \in {"idle", "look", "request", "advance", "crashed"}
    /\ at \in Live \cup gone \cup {HEAD}
    /\ vpc \in {"recount", "again", "join"} => cur \in Pages

\* Unless a session left under it, the walk is at a cell of the list and comes
\* to every page that has no callback coming.
WalkInv ==
    /\ WalkVarsOK
    /\ ~skipped =>
          /\ cpc = "idle" => \A p \in Pages : ~Forgotten(p)
          /\ cpc \in {"look", "request", "advance"} =>
                /\ at \in Live \cup {HEAD}
                /\ \A p \in Pages : Forgotten(p) => Ahead(p)
=============================================================================
