# A verification development for driftnet

driftnet listens to network traffic, puts TCP streams together and picks
images, MPEG audio and HTTP requests out of them. This directory holds TLA+
modules that model its core, TLC configurations that check them on small
instances, and proofs that TLAPS checks. Paths below are relative to `src/src/`.

## 1. The system

### Components, their state and their operations

| Component | State | Operations | What makes it correct |
|---|---|---|---|
| Connection table (`network/connection.c`) | `slots`, `slotsalloc`; per connection the buffer, `isn`, `len`, `fin`, `last` and the sorted list of data blocks (`off`, `len`, `moff[]`, `dirty`) | `alloc_connection`, `find_connection`, `connection_new`, `connection_delete`, `connection_push`, `sweep_connections` | blocks cover received bytes only, never touch, and cover all of them; one connection per pair of endpoints; idle, finished and big connections go |
| Capture engine (`network/pcap_engine.c`) | `pc`, `running`, the capture thread, the packet at hand | `process_packet`, `extract_media`, opening, starting and closing | every file in the received data is found, whole and unaltered; each packet is finished |
| Packet parsing (`network/layer2.c`, `layer3.c`) | none | `handle_link_layer`, `parse_ieee80211`, `layer3_find_tcp` | the offset lands on the TCP payload |
| Media finders (`media/image.c`, `audio.c`, `http.c`, `mpeghdr.c`, `media.c`) | table of drivers | `find_*` | a pointer within the data, at which the search can resume; progress |
| Audio (`media/playaudio.c`) | list `rd`..`wr`, `buffered`, mutex, `run_player`, `mpeg_mgr_pid` | `mpeg_submit_chunk`, `mpeg_play`, `mpeg_player_manager`, `stop_mpeg_player` | chunks once and in order, no use after free, bounded memory; everything stops |
| Dispatcher (`media_dispatcher.c`) | none | one function per destination | a name is announced when its file is complete |
| Temporary directory (`common/tmpdir.c`) | path, type, limit, cached count | write, count, limit, clean | the limit holds; nothing of ours is left behind |
| GTK display (`display/display.c`) | rectangles, backing image, pipe | `pipe_event`, scroll, resize, save | each file is deleted once, when its picture is gone |
| HTTP display (`http_display/httpd.c`) | ring of 250 messages, sessions with tails | `ws_send_media`, `ws_callback`, stop | a session gets each message once, in order |
| PID file (`pid.c`) | lock, file | create, close | one instance at a time |
| Main (`driftnet.c`, `options.c`, `uid.c`) | `foad`, options | start, signals, shutdown | what is started is what is stopped, in an order in which nothing is used after it is gone |

### How they interact

Three threads and up to three other processes. The **capture thread** runs
`pcap_dispatch`, which calls `process_packet` for each packet; that copies the
segment into its connection, calls `extract_media`, which calls the drivers'
`find_data` and, for what they find, `dispatch_data`; then it sweeps the table.
The dispatch function writes a temporary file and sends its name through a pipe
to the **display process** or into the ring of the **HTTP thread**, or hands audio
to the queue of the **player thread**, which writes it to a pipe that a player
reads; the **manager process** keeps a **player process** running. **main** sleeps
until a signal handler sets `foad`, then stops the HTTP thread, the manager and
the capture thread, and clears the directory. Only the audio list has a mutex.

### What is hard here

Segments out of order, repeated, cut in another way or missing; sequence numbers
that wrap; searches that resume in the middle of a file; connections deleted by
a sweep that runs inside the handling of another packet; two threads on one
list; a signal handler that runs in several processes with different values of
the same variables; shutdown. `PROJECT.json` lists the hazards one by one, with
their lines and the properties that watch them.

## 2. The modules

| Module | Models | Kind |
|---|---|---|
| `Connection` | operations on one connection (`connection.c`), as operators on a record | operators |
| `ProofLemmas` | facts about numbers, sequences and recursive functions that several proofs need | proofs |
| `MergeLoop` | the list insertion and the combining loops as the code has them, block by block | state machine |
| `MergeLoopProofs` | that the loops compute `PushBlock` | proofs |
| `PcapEngine` | the capture thread over the connection table | state machine |
| `MCPcapEngine` | packets and media for TLC | model values |
| `PcapEngineProofs` | lemmas about `PushBlock`, theorems about `PcapEngine`, and that it implements `MediaStream` | proofs |
| `MediaStream` | what the engine promises: files found only in received bytes | abstract specification |
| `AudioQueue` | the audio list and its two threads | state machine |
| `MCAudioQueue` | chunks for TLC | model values |
| `AudioQueueProofs` | theorems about `AudioQueue`, that it implements `BoundedFifo`, and one about `AudioManager` | proofs |
| `BoundedFifo` | what the audio queue promises | abstract specification |
| `HttpRing` | the ring of messages, the session list and the two threads on them (`httpd.c`) | state machine |
| `Broadcast` | what the HTTP display promises an open page | abstract specification |
| `HttpRingProofs` | theorems about `HttpRing`, and that it implements `Broadcast` | proofs |
| `Display` | driftnet and the GTK child at the two ends of a pipe (`display.c`, `img.c`) | state machine |
| `MCDisplay` | images and windows for TLC | model values |
| `DisplayProofs` | theorems about `Display` | proofs |
| `MediaFinders` | the `find_data` of the six drivers, byte by byte | operators |
| `PacketHeaders` | from a captured packet to its TCP data (`layer2.c`, `layer3.c`) | operators |
| `Arrival` | a stream in segments of any cut and framing, searched by the real drivers | state machine, composes the two above |
| `MCArrival` | streams and framings for TLC | model values |
| `ArrivalProofs` | theorems about the three above: the finders, the headers and the search | proofs |
| `Options` | command line, drivers and their dispatch functions | operators |
| `PidFile` | several instances over one PID file (`pid.c`) | state and actions |
| `TmpDir` | the temporary directory and its cached count (`tmpdir.c`) | state and actions |
| `Lifecycle` | main from the command line to the return (`driftnet.c`, `uid.c`) | state machine, composes the three above |
| `MCLifecycle` | command lines and directories for TLC | model values |
| `LifecycleProofs` | theorems about `PidFile` and `Lifecycle` | proofs |
| `AudioManager` | driftnet, the manager and the players as processes with signals | state machine |

A `Name_Suffix` operator before an operator `Name` is a mutant of it: the same
operator with a plausible mistake. It is used nowhere in the specifications; each property of
a passing run is violated when the mutant `PROJECT.json` names for it is put in
its original's place, which shows that the property is about the code.

### Connection and PcapEngine

A byte of a stream is named by its place in sequence-number space. The buffer
`data` is a function from the offsets written so far to the bytes copied
there, so that a byte in the wrong place, or an offset never written, shows.
The sorted list of blocks is a set: no two blocks have the same `off`, so the
order is that of the offsets. `PushBlock` states the result of the insertion and
the combining loops in one expression; `MergeLoop` keeps the loops, and its run
and its proof compare the two. Of `moff[]` one entry is kept, since no driver touches
another's.

`Offset` is transcribed with its branch for `seq < isn`, which adds 2^32 - 1
(`pcap_engine.c:366-367`), and `Combine` with the length it takes from the
following block (`connection.c:276`). Offsets are natural numbers; in the code
`off + len` is a 32-bit sum, which cannot overflow for a segment that passed the
test against `len + WRAPLEN`, as `len` stays within `MAXCONNECTIONDATA`, the
margin and a segment (property `MemoryBounded`).

The thread's place is `pc`; its steps are those between which it calls out
(drivers, dispatch, `time`):

- `ProcessPacket` (`process_packet` up to `extract_media`): find the slot or take
  one, doubling a full table; then `ResetPacket` (RST: both directions go, no
  sweep), `DataPacket` (copy, then search) or `EmptyPacket` (no data, or too far ahead).
- `ExtractBlock`, `ExtractReturn`: the loop over dirty blocks.
- `FindNothing`, `FindPart`, `FindMedia`, `ScanDone`: the while loop around `find_data`,
  with a driver that behaves like `find_png_image`. A driver knows a file by its
  first `HdrLen` bytes and its length, and never looks at the bytes between, so
  that it can be fooled by bytes which are not of the file.
- `FinFlag`, then the sweep slot by slot: `SweepDiscard` (which searches first),
  `SweepDelete`, `SweepKeep`, `SweepReturn`. `now` is read once, as in the code.
- `Tick` moves the clock between any two steps.

The network may deliver any packet of `Packets` at any time and as often as it
likes: loss, reordering, repetition and capture that begins in mid-stream are
all there. `tmpfiles_limit_reached` may answer anything in `LimitReached`.

### MergeLoop

`list` is the list that starts at `c->blocks`, `b` the place of the block the walk is at, `a` the
variable that says whether this walk has combined blocks. `Push` is the insertion (it stops at
the first place that fits); then `CombineTwo` and `NextBlock` are the two ways through the body of the
`for` loop, and `WalkAgain` and `WalkDone` the two ways out of the `do` loop. `before` and `seg` remember what was
pushed onto what. `Search` is `extract_media` between two pushes.

### AudioQueue

Nodes are addresses, `alloc` is what lies between `malloc` and `free`, and a freed address is
what the next `malloc` may return. `buffered += len` is a read and a write in
separate steps, so that the mutex is needed for it to be right. `PlayWrite` is one turn of
`audiochunk_write`: it ends the chunk early when the write fails, as the code does.
`stop_mpeg_player` may come at any time.

### AudioManager

`run_player` and `mpeg_mgr_pid` are copies in each process, as `fork` leaves them; the
handler `terminate_on_signal` runs in both. `waitpid` and `sleep` return early on
a signal, since `setup_signals` clears `sa_flags` before it uses them.

### HttpRing

`lws_ring`, of libwebsockets, is modelled from how `httpd.c` uses it: a payload per slot, the
next slot to fill, the oldest tail; a slot whose message was destroyed is 0. What the two
threads share without a lock is read and written one access per step: the capture thread's
`Send` inserts, then `WalkTest`, `WalkRequest` and `WalkAdvance` go through the list, each reading `*ppss`
anew; the service thread's `Linked` puts a session in the list and `Established` gives it its wsi, `Writeable` is
followed by the `Recount` of one session per step, `UpdateOldest` and `Again`. What a cell of
a session that left holds (`Held`) is its old pointer or zeroes.
Steps that crash the process are actions (`SendWithoutRing` before `PROTOCOL_INIT` or after
the context is gone, `WalkCrash` over a cell emptied since the test, a session without a wsi, or freed
memory): the properties are about runs that go on; nothing in the code prevents these ends.
Two windows are remembered. `raced`: a message came in amid a recount; `http_display` shows that this is
the only one in which messages are lost, `http_recount` what happens in it. `skipped`: a session left while the walk
was at its cell, or between the request of its callback and the step to the next. The walk then goes on
behind its neighbour, who is not told of the message. `NoLostWakeup` says that this is
the only way not to be told, `EveryPageGetsIt` that the next message whose walk skips nobody makes up for it.

### Display

Two processes: driftnet writes a file (or fails to), then its name; the child's `pipe_event` reads
up to `BATCH` names a call (`ReadName`, `EndEvent`), during which no other callback runs.
An image is a record of what `pipe_event` asks of it. `Layout` is the placement arithmetic with the
code's numbers; `Scrolled` and `Resized` share `Moved`. The working directory of the child is not
the temporary directory, so the `unlink(name)` of an image that is not shown deletes nothing.
`xread` never sees `EINTR` with data outstanding, as the descriptor does not block and
the names are written and read whole.

### MediaFinders, PacketHeaders and Arrival

The finders are pure: the data from where the search resumes goes in, the next place and
what was found come out; a PNG ends with an `IEND` in any mix of upper and lower case, as the code compares it. The loops are recursive functions, and one turn of a loop is an operator
that takes the function as a parameter (`GifBlock`, `PngChunk`, `HeaderTurn`, ...). A byte behind the data is 0, which
stands for whatever is there: where the code looks one header too far, its result does not depend
on what it finds. `PacketHeaders` sees a packet as a sequence of headers with their true
lengths; the code's offset is right if it ends where the data begins. `Arrival` composes the two
with the search loop of `extract_media` on one block that grows; `Resume` is the place at which a
turn of it leaves off. Where `parse_http_req` would print a path of negative length, `Url` says
`Overrun`. Its last section describes PNG, JPEG and WebP streams by their formats (`PictureStream`),
for the proofs: of a file it names the places `parts` where chunks or segments begin.

### Options, PidFile, TmpDir and Lifecycle

`Lifecycle` extends the other three. `pc` is main's place in `Steps`; each part is only
whether it runs. `Found(d)` is the capture thread writing a file of driver `d` and handing it to the dispatch
function main chose for it; if whom it goes to is not there the process crashes, and
`fault` says why. `stop_http_display` is two steps: `StopHttp` cancels the server's thread, `JoinHttp` waits
until it has ended (`ServerEnds`, or `ServerQuits` when `lws_service` fails by itself) and removes the link.
`PidFile` keeps the files behind a path apart from the path, as locks belong to files. `TmpDir`
keeps the seconds since the last count up to `CACHE` + 1, and `opendir` may fail: then the count is zero and
stays old, and `clean_tmpdir` removes nothing (`unread` remembers it).

## 3. The runs

| Run | Instance | States | Shows |
|---|---|---|---|
| `reassembly` | one stream of 7 bytes in 5 overlapping segments, SYN, RST; two files back to back | 20,051 | what is searched was received; blocks are separated; whole files in a block are found, unaltered; bytes keep their distance; fresh data becomes searchable; the engine refines `MediaStream`; every packet is finished |
| `conversations` | A to B, B to A, C to B with SYN, FIN, RST; one slot at first; timeout 1, clock to 2, limit of 3 bytes | 131,546 | nothing unsearched between packets; one connection per pair; the sweep leaves nothing behind it; sizes are bounded; a RST forgets both ways |
| `merge_loop` | every list that segments within 7 offsets build, any progress of the searches, each step of each walk | 1,319,590 | the loops of the code compute `PushBlock`; lists stay sorted and separated |
| `audio_queue` | 4 nodes, chunks of 1 and 2 bytes, limit of 2 bytes | 9,027 | no dangling pointer, no leak; the count is right when nobody is inside; the queue refines `BoundedFifo`; every chunk accepted is played |
| `http_display` | two pages at a time, a ring of three slots, four messages | 143,632 | a page is given messages once and in order; none leaks or is destroyed early; a wakeup is lost only when a session leaves under the walk; the ring refines `Broadcast`; once a walk is over that skipped nobody, every message reaches every page that stays |
| `display` | three files, three kinds of image, two sizes of window, a pipe of one name | 190,283 | a file lives as long as its image; images lie in the window and apart; nobody waits for ever |
| `lifecycle` | 187 command lines; one other instance; three names that count, one that does not | 275,231 | see the properties below |
| `arrival` | eight streams, eleven framings, segments of 1 or 17 bytes or none | 41,791 | every file is found when it has arrived, whole, once, in order (the order also when packets are misread or padded) |
| `http_recount` | as `http_display`, with a message amid a recount | violated | a message is freed before a page has read it |
| `retransmission` | as `reassembly` | violated | a retransmission inside a block hides what lies behind it |
| `wraparound` | as `reassembly`, sequence numbers pass zero | violated | bytes after the wrap are one offset too low |
| `manager_stops` | two players at most | violated | the manager does not stop |

**Bounds and why they suffice.** `connection_push` distinguishes how a segment lies with
respect to at most two blocks, on either side of it; seven bytes and two blocks
with a gap between them give each of these cases, and `MergeLoop` adds lists of up to four blocks.
`WRAPLEN` is 3, so that some segments are too far ahead at first and not later.
The files are four and two bytes long behind two-byte signatures, so that both
a signature and a file may be split between segments, and the file of two bytes
that follows the other at once checks where the search resumes. `InitSlots`
is 1, so the table doubles twice. `MAXCONNECTIONDATA` is 3 in `conversations`
so that a stream of four bytes exceeds it, and 8 in `reassembly`, where it plays no part.
`SeqSpace` is 64 for 2^32. In `audio_queue` the
nodes hold three chunks besides the one last played, as many as the limit can let in. Bounds in guards: `MaxTime` in `Tick`, `alloc # Nodes` in `SubmitNew`
(the limit keeps it from mattering), `MaxPlayers` in `ManagerStart`.

In `http_display` two pages and two usable slots let one page hold the oldest tail while the other is
ahead, leave with it, and connect to a full ring; four messages wrap it, and a page may be skipped by one
walk and told by the next. `NotRaced` is a state
constraint: behind a race nothing is promised, so nothing is explored. In `display` the first
image is too wide for the small window, the second too high for either, the third is cut off and
is not shown; the table of one rectangle doubles, the pipe holds one name, and `BATCH` is two
so that a call may end with the pipe empty or not. `MaxFiles`, `MaxNum` and `Existing` bound files written and saved.
In `lifecycle` the command lines are all of at most two options and four of three; `LIMIT` is two
of three names; `CACHE` is two seconds for five; `MaxFile` is two, so that a file may be stolen
by the instance that ended. In `arrival` the files carry the real signatures and headers, and one
to three segments of each kind; `EXTENT` is two frames for 100, `MAXREQ` 60 for 16384;
segments of 17 bytes skip more than any signature, those of one split each.

What the properties of `lifecycle` except is named in them. `HandedToTheStarted` lists the
ways in which a part that was never started, not yet up or already destroyed is used: audio in
adjunct mode (`playaudio.c:121`), a server not yet up or destroyed (`httpd.c:265`), and `-a -w`,
which stops a server that never was (`driftnet.c:282`). `EndsClean` excepts `.webp` files, whose
extension `is_tempfile` does not know (`tmpdir.c:331`), so that their directory stays too, and
everything when the directory could not be opened to clear it (`tmpdir.c:165`). `LimitIsLateByCache` speaks of a directory full of
images that `is_tempfile` knows: those of the WebP driver do not count, so that they are written without limit, whatever the
manual says; it also excepts a write right after a failed `opendir` (`tmpdir.c:311`).

What the streams of `arrival` leave out, because the finders do not find it: a WebP file behind
anything else (its size is compared with all there is, `image.c:418`, and a header that is no
file is searched again for ever); a false start of a JPEG or MPEG stream, at which the search
stays; a GIF whose local colour table has another size than `gifhdr[9]` says (`image.c:66`); a JPEG with a
restart interval, whose segment counts two bytes too many (`image.c:223`); a GIF87a or a POST in
front of a GIF89a or a GET in the same data, which is skipped (`image.c:45`, `http.c:56`); a request whose
Host is its last header, of which no URL is made. The URL of a POST keeps the blank in front
of its path, as `Req3` states. Text streams are not padded, since their bytes are characters in the model.

**Fairness.** `FairSpec` of `PcapEngine` assumes `WF(Handle)`: the capture thread is
scheduled while it handles a packet; packets and the clock owe nothing. `AudioQueue`
assumes that each thread goes on with what it began (`WF`) and that the player's
thread gets the mutex now and then (`SF` on its two lock steps), which a mutex
held for a few instructions per packet justifies; it also takes for granted that
a `write` to the player returns. `AudioManager` assumes that processes are scheduled
and that a player ends once its input has. `HttpRing` assumes that each thread goes on with what it began and
that `lws_service` calls every session that asked for it, though others come and go (`SF`); pages, senders and main owe nothing.
`Display` assumes that the capture thread's write returns when it can, that main ends what it
has begun to end, and that GTK polls the pipe; users owe nothing. `Lifecycle` assumes that
main is scheduled and that a cancelled thread ends: the server's because libwebsockets polls with a timeout, the capture
thread because `CaughtUp` shows that it is not in an endless search.
`CHECK_DEADLOCK FALSE` appears where the modelled program ends: `ManagerStops`, the two of `HttpRing`,
`Display`, `Lifecycle` and `Arrival`.

## 4. What the runs found

1. `connection.c:276`: combining a block with one that ends before it takes the end of the
   latter. A repeated segment inside a block so takes received data out of the list that connection.h:64
   calls "A list of the extents in the buffer which contain valid data" (`retransmission`); a longer segment
   in front of a block it covers loses its own end, by the same assignment. What does hold is
   `FreshDataIsSearchable`: a segment that repeats nothing is never hidden and hides nothing.
   Nor are blocks ever wrong the other way: they never cover what was not received
   (`SearchOnlyReceived`).
2. `pcap_engine.c:367`: one is missing in the arithmetic that the comment above it calls
   modulo 2^32 (`wraparound`).
3. `httpd.c:83`: the recount of the oldest tail compares counts taken at different times, and
   the ring's other thread may insert between them; a message a page has not read is
   then freed and its slot read (`http_recount`). Without that window everything the comment at
   `httpd.c:52` says holds (`http_display`).
4. `playaudio.c:262`, `driftnet.c:51`: the signal passed on to the manager "so that it can
   abort" changes nothing there, as the handler asks for a variable that is 0 in
   the manager (`manager_stops`).

Met while modelling and named in a property as an exception, or left out of a run, rather than
run on its own: see the two paragraphs before *Fairness*; an image that arrives before the
window was first drawn ends the display (`display.c:415`); new images may cover `BORDER` lines of
old ones after a change of size (`display.c:146`); IPv6 extension headers
are skipped by eight bytes too few (`layer3.c:121`); padding of short frames counts as data (`pcap_engine.c:311`);
`kill(0, SIGTERM)` without a player (`playaudio.c:262`); `.webp` images do not count for the limit that
`driftnet.1.in:68` states for all images (`tmpdir.c:333`); the length of the path of a request without one is
negative (`media_dispatcher.c:131`).

## 5. What is proved

All proofs are checked by tlapm to the last leaf, for every value of the constants that
satisfies the assumptions below. Every invariant and action property that a passing run checks
is also a theorem, and so are the refinements.

**Assumptions on the constants.** `ConnectionAssumption`, `PcapAssumption`: any endpoints, any
set of segments, any media no shorter than their header, any limits, at least one slot.
`MergeLoopAssumption`: any bound on the offsets. `AudioAssumption`: finitely many nodes and at
least one, chunks that are not empty, a write size that is not zero. `HttpRingAssumption`: a
ring of at least two slots, and marks that are no pages. `DisplayAssumption`: windows no smaller
than `gtk_widget_set_size_request` allows (332 by 252), images of any size, a pipe, a table and
a batch of at least one. `LifecycleAssumption`, `OptionsAssumption`, `PidFileAssumption`: any
command lines, any other instances, directories that hold finitely many files and one of the
user's, temporary names that are neither that file's nor the link's, a limit above zero when
there is one. `StreamsAssumption`, `FramingsAssumption`, `SizesAssumption`, `LimitsAssumption`: any
streams of bytes (of characters for HTTP), packets of headers none of which is empty, with nothing but data
behind TCP, segments of any size. TLC evaluates them in the runs.

The four theorems about bytes (`StreamKeepsOrder`, `FoundAsSent`, `SearchMissesNothing`,
`FindsOnlyWhatWasReceived`) have a hypothesis more, since what they state is not so without it,
and one of them has a second:

- `OneStretch`: the packets of each direction come from a stretch of its stream on which
  sequence numbers do not pass through zero. Where they do, `wraparound` shows the bytes
  misplaced. The bound on the stretch, `SeqSpace` less the limit and the margin, is what makes a
  segment from before the isn, which `Offset` puts at the far end of the sequence space, too far
  ahead to be copied.
- `MediaApart` (`SearchMissesNothing`): no file lies within another. A finder skips a file it
  has found, with what lies in it.

`MCPcapEngine` has TLC evaluate both for the packets and files of its runs.

Five of the theorems about `Arrival` have hypotheses too:

- `Pictures` (`WholeFilesFound`, `FilesFoundAtOnce`, `KnownFramesLoseNothing`): every stream is a
  `PictureStream`, that is, of PNG, JPEG or WebP files which lie apart, with other bytes between
  (none between WebP files, for the reason given in section 3), and which have the signature, the chunks or segments and
  the end their format says. A signature may appear within a file, but nowhere else outside one. Nothing is assumed of
  the finders. `MCArrival` has TLC evaluate it for its streams of these formats (`PicturesDescribed`).
- `Plain` (`DataIsWhereItIsRead`, `NothingMisread`, `KnownFramesLoseNothing`): no IPv6
  extension header, since those are skipped by eight bytes too few.

### The blocks of a connection

`PushBlockResult`, `PushBlockSeparated`, `PushBlockCovers`, `PushBlockCoversAll`: pushing a
segment onto a separated set of blocks leaves it separated; the result covers nothing but the
old extents and the segment; and it covers all of both when the segment overlaps no block.

`LoopsPushTheBlock` and `ListStaysSorted` tie this to the loops of the code. `MergeInv` says
what the list can look like while walks go on: the new block stands alone at its place
(`Inserted`), has been taken in by the one on its left (`JoinedLeft`), has taken in the one on
its right (`JoinedRight`), or both (`JoinedBoth`); and as long as something is left to combine,
the walk has it before it or will be repeated (`a`). For each shape a lemma says which
neighbours touch: only those the new block brought together. So the walks combine at most twice,
the last one finds nothing to combine, and what is left is what `PushBlock` states
(`LeftNeighbour`, `RightNeighbour`: `PushBlock`'s two sets are the blocks next to the place of
the push).

### The capture thread

- `Invariance`: `Spec => []Inv`. None of the safety properties is inductive alone. That the
  search has left nothing (`NothingUnsearchedAtRest`) needs to know that only the connection at
  hand can be dirty and only until the search returns (`OnlyCurrentDirty`); that needs the place
  of the thread to agree with the table (`ControlOK`: slot `cur` exists, `boff` is the offset of
  a dirty block of it, the sweep's searches find nothing to do); that in turn needs blocks with
  distinct offsets (`BlocksSeparated`). `SweptBehind` needs that the sweep is the only one to
  move and that `sweepnow` stays. `Inv` is the conjunction. From it: `TypeCorrect`,
  `GapsNotSearched`, `BlocksStaySeparated`, `PairsStayDistinct`, `SweepMissesNothing`,
  `NothingLeftUnsearched`; and the action properties `ResetIsComplete` and
  `FreshDataReachesSearch`, the latter from `PushBlockCoversAll`.
- `MemoryStaysBounded`: `MemoryBounded` is inductive with `Inv`: only the connection of the
  packet at hand is above the limit, and the sweep that follows takes it.
- `StreamKeepsOrder`, `FoundAsSent`: `BytesInv` adds what `StreamOrder` leaves out, that a
  buffer is a piece of the stream: it holds at each offset the byte as far from the first
  packet's first (`BeganWith`). Then what a search finds whole under a signature is the file of
  that signature.
- `SearchMissesNothing`: `SearchInv` says what the pointers that a search leaves mean. All that
  begins before `moff` has been handed on, also when the block has since been combined with
  another and has got shorter (`BlockSearched`); in a block that is clean so has each file that
  ends in it; and a search under way has handed on all that begins before `ptr`. A driver that
  sees a head without its end stays there, which is why resuming at `moff` misses nothing.
- `FindsOnlyWhatWasReceived`: the refinement of `MediaStream`. `BytesInv` gives `Find`; a packet
  is `Receive` or a stutter; RST and the sweep are `Forget`.

### The audio queue

`AudioInv` says that there is a list: nodes `q[0]` to `q[m]`, all different, from `rd` to `wr`,
and nothing else allocated but the node `mpeg_submit_chunk` is about to link (`Linked`); that
the count is what waits, less a chunk linked and not counted yet (`Counted`); and where each
thread can be with the mutex (`ControlOK`). The list is given by its existence, as the one that
pointers lead to is defined by choice; `ChainIs` proves that they are the same. From it
`AudioTypeOK`, `ListStaysIntact`, `CountStaysRight`, and, with `AudioStep` for the steps, the
refinement `QueuePlaysInOrder`.

### The HTTP display

`RingInv`: no page waits for more than the ring holds (`NoneBehindOldest`), its tail stands
behind what it was given last (`TailFollowsLast`), and a recount under way has not passed over
anyone (`RecountOK`); all this until a message comes in amid a recount, which is exactly what
`raced` remembers. From it `RingKeepsTheLast`, `UnreadStays` and the refinement `PromiseKept`.
`WalkInv` is about the walk of `ws_send_media` over a list that changes under it: unless a session left
from under it, it is at a cell of the list, and every page without a callback is still ahead
(`Ahead`), behind the next cell when that one was asked already; a session is put in at the front before
anything is sent to it. From it `NobodyForgotten`.

### The GTK display

`DisplayInv`: names pass through the pipe once (`NamesOK`), and `RowOK` says where the next
image may go: each image of the row at the bottom is left of `wrx`, all others end above the
row, or, after a change of size, at most two borders below its top. None of `ImagesApart`,
`FileLivesWithItsImage` and `BltInBounds` is inductive without these. From it `DisplayTypeOK`,
`FilesLiveWithTheirImages`, `NoImageOverAnother`, `BlitsStayInBounds`.

### Main, the directory and the PID file

`PidInv` is needed because `OneInstanceUnlessStolen` says nothing of files: until one is stolen,
a file that is open is the one at the path (`OpenIsNamed`), and who has passed the lock holds it
(`RunningHolds`), so that two who run hold the lock of the same file. `OneInstance` proves it
for `PidFile` alone, `OneInstanceOfMany` for `Lifecycle`, each step of which is one of `PidFile`
or none. `LifeInv` ties `pc` to what main has done so far: what validation left (`OptionsInv`),
the user (`DroppedInv`), the parts started (`PartsInv`), what was taken out of the directory and
cannot come back, unless it could not be opened (`DirectoryInv`), and that a count is not older than what is known of it
(`LimitInv`). From it `MakesNothingAsRoot`, `HandsToTheStarted`, `LeavesNothing` and
`LimitLateByCache`.

`LifecycleUsesPidFile` is that refinement; `OneInstanceOfMany` follows from it by `OneInstance`.

### The finders, the headers and the search

The loops of the finders, and that of `layer3_find_tcp`, are recursive functions, and a recursive
definition says nothing until it is known that such a function exists. `WalkExists` (`ProofLemmas`) shows it for
every loop that goes upward and stops below some place; `WalkEnds` gives what can be said of its result
without following it: it is the value at a place where the walk stops, within any set that the
walk does not leave. Both are inductions over the number of places left, done with the smallest
number of a set (`SmallestExists`, `UpTo`) as theorems with an operator parameter cannot be used.
Each loop is then shown to be such a walk, over offsets in the data for GIF, JPEG and PNG, over
counted frames for MPEG, over offsets and protocols for the headers.

- `PngIsRight`, `JpegIsRight`, `WebpIsRight`: on a `PictureStream`, each single call of the finder, with any
  part of the stream that begins between files, does what `FindsNext` says: it finds the file
  that comes first if that is there, passes over none, and stops in none. `ChunksLead` and
  `SegmentsLead` are the heart of it: the walk over a file cannot leave `parts`, so that it stops at the end of the
  file, or where the data end when the file is not all there.
- `FinderBounds`: with any bytes at all, each finder ends, resumes at or behind where it began and finds a
  file that ends before the place where it resumes, within the data. Two do not keep within: MPEG, whose last
  frame may be still to come, and WebP, whose size is compared with all the data. They are
  the exceptions of `FilesHaveArrived`.
- `FilesApart`, `FilesHaveArrived`, `SearchGoesForward`: from these bounds alone, so for every
  stream, cut and framing, misread and padded packets included: files dispatched are apart and in order, they
  have arrived, and the loop of `extract_media` ends. The invariant is `SearchInv`: the place of the
  search is a number, the data are bytes of the stream or padding (`InData`), and what was found lies apart
  and ends before the place of the search (`FoundInOrder`).
- `WholeFilesFound`, `FilesFoundAtOnce`: from right calls a right search follows, for every sequence of
  segments and framings (`RightCallsFindFiles`, `RightCallsFindAtOnce`). `ArrivalInv` says what a search leaves behind: while nothing odd
  has come, the data are the beginning of the stream, the search stands between two files
  (`SearchPlace`), what was found are files behind it (`FoundBehind`), it has skipped none (`NoneSkipped`), and
  when it is over no file that begins further on is complete (`NoneLeft`).
- `DataIsWhereItIsRead`: the offset `process_packet` arrives at is that of the data, or the packet is
  ignored, for every link layer, IP with options, IP in IP, IPv6, nested in any number. The headers' places
  are sums of lengths that exist and ascend (`LaidExists`, `LaidInOrder`), so that at one place with one protocol there
  is at most the header meant, and the walk goes from each to the next. From it `NothingMisread` and
  `KnownFramesLoseNothing`, in which `FoundAtOnce` loses its exception.

### The audio manager

`ManagerNeverStops` proves what `manager_stops` shows, for any number of players: in every run in which driftnet is told to
stop, `ManagerStops` is false. `ManagerInv` is the reason: `run_player` is true in the
manager and `mpeg_mgr_pid` is 0 there, and the handler changes the first only if the second is not 0.

### What is only model-checked

Liveness (`CaughtUp`, `EveryChunkPlayed`, `EveryPageGetsIt`, `SenderGoesOn`, `DisplayEnds`,
`EndsOnSignal`), which is out of the prover's reach. That the finders of GIF, MPEG and HTTP are right (`FindersRight`) is evaluated
by TLC, call by call, for the streams of `MCArrival`; for them the lemmas about right calls are all there is.

Some definitions have the form they have for the provers' sake: the records that
`connection_push`, `Combine` and `Searched` return are written field by field, since the SMT
backend handles that better than `EXCEPT` with several fields, and `MergeLoop` takes its walks
step by step where a recursive operator would have been shorter.

## 6. What is not modelled

Image decoding and drawing, the web page, logging, utilities other than `memstr`: computation
or plain system calls. `find_avif_image` is in no driver table (`media.c:33`) and never runs;
`get_link_level_hdr_length` is never called. Of the options, those that set a value used in one place
are left out, with the filter expression. Within what is modelled: the growth of `c->alloc`, the wording of
messages, IP fragments, failure of `malloc` where the program aborts,
`connection_free_slots` (it deletes everything at the end), the inside of libwebsockets, libpcap and GTK,
and the addresses and ports of packets in `PacketHeaders`. The claim of `connection.c:173-176` about FIN and gaps has no
property: the early discard is in the model.

## 7. Plan

Done: every module of section 2 and the proofs of section 5. What could follow:

1. Definitions like `PngFile` for GIF, MPEG and HTTP, and the theorems about pictures for their streams.
2. `PcapEngine` without `OneStretch`: which bytes lie where when sequence numbers do pass through zero.
