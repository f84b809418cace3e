------------------------------ MODULE Display ------------------------------
(***************************************************************************)
(* The GTK display (src/display/display.c, src/display/img.c): a child     *)
(* process that is sent names of image files through a pipe, shows the     *)
(* images in rows that scroll up, saves those that are clicked, and is the *)
(* one to delete the files it has shown.  driftnet itself writes the files *)
(* and the names, and clears its directory when it ends.                   *)
(*                                                                         *)
(* The child has one thread: pipe_event reads up to BATCH names in a call, *)
(* during which driftnet goes on but no other GTK callback runs.  Pixels   *)
(* are left out; the rectangles they are copied to and from are not.       *)
(***************************************************************************)
EXTENDS Integers, Sequences, FiniteSets, SequencesExt

CONSTANTS
    Images,     \* contents of files: [ext, size, header, full, w, h]
    Sizes,      \* sizes the window may have: <<width, height>>
    Points,     \* places to click at: <<x, y>>
    MaxFiles,   \* bound on the files written
    MaxNum,     \* bound on the numbers tried for saved files
    CAPACITY,   \* names a pipe holds (its bytes / TMPNAMELEN)
    BATCH,      \* names read in one call of pipe_event (4)
    TABLE,      \* rectangles allocated at first (16)
    Existing    \* numbers of saved files that exist already

ASSUME DisplayAssumption ==
    /\ Sizes \subseteq Nat \X Nat
    /\ \A s \in Sizes : s[1] >= 332 /\ s[2] >= 252   \* gtk_widget_set_size_request
    /\ \A i \in Images : {i.size, i.w, i.h} \subseteq Nat
    /\ {CAPACITY, BATCH, TABLE} \subseteq Nat \ {0}

BORDER == 6

VARIABLES
    wpc, img, disk, \* driftnet: place; contents of the files written so far,
                    \* file n being the nth; those in the directory
    pipe,           \* names in the pipe
    mode, nimgs,    \* child: place, names read in this call of pipe_event
    win, backing,   \* size of the window, of the backing image (<<0, 0>>: none)
    rects,          \* imgrects: [file, x, y, w, h], file 0 when free
    wrx, wry, rowheight,
    click, num, saved, \* last press; next number to save as; files saved
    resized         \* history: the backing image was replaced

driftnet == <<wpc, img, disk, pipe>>
layout   == <<win, backing, rects, wrx, wry, rowheight, resized>>
saving   == <<click, num, saved>>
vars     == <<driftnet, mode, nimgs, layout, saving>>

NoRect == [file |-> 0, x |-> 0, y |-> 0, w |-> 0, h |-> 0]
Used(table) == {i \in DOMAIN table : table[i].file # 0}
Files(table) == {table[i].file : i \in Used(table)}

\* do_image_display, and do_gtkdisplay up to gtk_main.
Init ==
    /\ wpc = "capture" /\ img = <<>> /\ disk = {} /\ pipe = <<>>
    /\ mode = "main" /\ nimgs = 0
    /\ win = <<0, 0>> /\ backing = <<0, 0>>
    /\ rects = [i \in 1 .. TABLE |-> NoRect]
    /\ wrx = 0 /\ wry = 0 /\ rowheight = 0
    /\ click = <<0, 0>> /\ num = 0 /\ saved = {}
    /\ resized = FALSE

-----------------------------------------------------------------------------
(* driftnet. *)

\* tmpfile_write_mediaffile: the file is there, unless open failed.  The name
\* is used in either case.
WriteFile(i) ==
    /\ wpc = "capture"
    /\ Len(img) < MaxFiles
    /\ img' = Append(img, i)
    /\ disk' \in {disk, disk \cup {Len(img) + 1}}
    /\ wpc' = "send"
    /\ UNCHANGED <<pipe, mode, nimgs, layout, saving>>

\* display_send_img: waits while the pipe is full, and fails unnoticed when
\* the child is gone (SIGPIPE is ignored).
SendName ==
    /\ wpc = "send"
    /\ \/ mode = "dead" /\ UNCHANGED pipe
       \/ mode # "dead" /\ Len(pipe) < CAPACITY /\ pipe' = Append(pipe, Len(img))
    /\ wpc' = "capture"
    /\ UNCHANGED <<img, disk, mode, nimgs, layout, saving>>

\* network_close cancels the thread wherever it is; clean_tmpdir removes the
\* files with an extension it knows.
Clean ==
    /\ wpc \in {"capture", "send"}
    /\ wpc' = "cleaned"
    /\ disk' = {n \in disk : img[n].ext = "webp"}
    /\ UNCHANGED <<img, pipe, mode, nimgs, layout, saving>>

\* The end of main closes the pipe.
Exit ==
    /\ wpc = "cleaned"
    /\ wpc' = "gone"
    /\ UNCHANGED <<img, disk, pipe, mode, nimgs, layout, saving>>

-----------------------------------------------------------------------------
(* Rectangles. *)

\* Every rectangle in use dy further down.
Moved(table, dy) ==
    [i \in DOMAIN table |->
        IF table[i].file = 0 THEN NoRect ELSE [table[i] EXCEPT !.y = @ + dy]]

\* The table without the rectangles of gone.
Without(table, gone) ==
    [i \in DOMAIN table |-> IF table[i] \in gone THEN NoRect ELSE table[i]]

\* scroll_backing_image: what is above the window is let go of.
Scrolled(table, dy) ==
    LET up == Moved(table, -dy)
    IN Without(up, {r \in ToSet(up) : r.y + r.h < 0})

\* make_backing_image: what is above the window or right of it is.
Resized(table, dh, width) ==
    LET moved == Moved(table, dh)
    IN Without(moved, {r \in ToSet(moved) : r.x > width \/ r.y + r.h < 0})

\* Mutant of Added: the loop goes on after a free entry.
Added_NoBreak(table, r) ==
    IF Used(table) # DOMAIN table
    THEN [i \in DOMAIN table |-> IF i \in Used(table) THEN table[i] ELSE r]
    ELSE table \o <<r>> \o [i \in 1 .. Len(table) - 1 |-> NoRect]

\* add_image_rectangle: the first free entry; the table doubles when full.
Added(table, r) ==
    LET free == DOMAIN table \ Used(table)
    IN IF free # {} THEN [table EXCEPT ![CHOOSE i \in free : \A j \in free : i <= j] = r]
       ELSE table \o <<r>> \o [i \in 1 .. Len(table) - 1 |-> NoRect]

Covers(r, p) == /\ r.x <= p[1] /\ p[1] < r.x + r.w
                  /\ r.y <= p[2] /\ p[2] < r.y + r.h

\* find_image_rectangle: the index of the first one, or 0.
Find(table, p) ==
    LET hits == {i \in Used(table) : Covers(table[i], p)}
    IN IF hits = {} THEN 0 ELSE CHOOSE i \in hits : \A j \in hits : i <= j

\* Mutant of Layout: a new row takes no more room than a higher image does.
Layout_SameRow(i) ==
    LET w == IF i.w > win[1] - 2 * BORDER THEN win[1] - 2 * BORDER ELSE i.w
        h == IF i.h > win[2] - 2 * BORDER THEN win[2] - 2 * BORDER ELSE i.h
        newrow == win[1] - wrx < w
        dy == IF rowheight < h + BORDER THEN h + BORDER - rowheight ELSE 0
    IN [x |-> IF newrow THEN BORDER ELSE wrx, w |-> w, h |-> h, dy |-> dy,
        rowheight |-> IF newrow \/ rowheight < h + BORDER THEN h + BORDER ELSE rowheight]

\* Mutant of Layout: the width of the image is not cut to the window's.
Layout_Wide(i) ==
    LET h == IF i.h > win[2] - 2 * BORDER THEN win[2] - 2 * BORDER ELSE i.h
        newrow == win[1] - wrx < i.w
        dy == IF newrow THEN h + BORDER
              ELSE IF rowheight < h + BORDER THEN h + BORDER - rowheight ELSE 0
    IN [x |-> IF newrow THEN BORDER ELSE wrx, w |-> i.w, h |-> h, dy |-> dy,
        rowheight |-> IF newrow \/ rowheight < h + BORDER THEN h + BORDER ELSE rowheight]

\* Where pipe_event slots image i in: cut to the window, on this row or, when
\* that has no room, on a new one; dy is how far everything else moves up.
Layout(i) ==
    LET w == IF i.w > win[1] - 2 * BORDER THEN win[1] - 2 * BORDER ELSE i.w
        h == IF i.h > win[2] - 2 * BORDER THEN win[2] - 2 * BORDER ELSE i.h
        newrow == win[1] - wrx < w
        dy == IF newrow THEN h + BORDER
              ELSE IF rowheight < h + BORDER THEN h + BORDER - rowheight ELSE 0
    IN [x |-> IF newrow THEN BORDER ELSE wrx, w |-> w, h |-> h, dy |-> dy,
        rowheight |-> IF newrow \/ rowheight < h + BORDER THEN h + BORDER ELSE rowheight]

-----------------------------------------------------------------------------
(* The child: GTK callbacks. *)

\* img_load_file and img_load find a driver for the extension, which then
\* likes the header, and later the whole file.
Loads(i) == i.ext \in {"gif", "jpeg", "png", "webp"} /\ i.header

Interesting(i) ==
    /\ i.size > 100
    /\ Loads(i)
    /\ i.w > 8 /\ i.h > 8
    /\ i.full

\* Mutant of Expose: what no longer fits is dropped, its file is not.
Expose_KeepsFiles(size) ==
    /\ mode = "main"
    /\ size # backing
    /\ win' = size /\ backing' = size
    /\ rects' = IF backing = <<0, 0>> THEN rects
                ELSE Resized(rects, size[2] - backing[2], size[1])
    /\ wrx' = BORDER /\ wry' = size[2] - BORDER /\ rowheight' = 2 * BORDER
    /\ resized' = (backing # <<0, 0>>)
    /\ UNCHANGED <<wpc, img, pipe, mode, nimgs, saving, disk>>

\* expose_event and configure_event, when the size has changed: new images
\* start again at the lower left, as if the row there were empty.
Expose(size) ==
    /\ mode = "main"
    /\ size # backing
    /\ win' = size /\ backing' = size
    /\ rects' = IF backing = <<0, 0>> THEN rects
                ELSE Resized(rects, size[2] - backing[2], size[1])
    /\ disk' = disk \ (Files(rects) \ Files(rects'))
    /\ wrx' = BORDER /\ wry' = size[2] - BORDER /\ rowheight' = 2 * BORDER
    /\ resized' = (backing # <<0, 0>>)
    /\ UNCHANGED <<wpc, img, pipe, mode, nimgs, saving>>

\* Add an image below and to the right of the others.
Show(n) ==
    LET at == Layout(img[n])
        others == IF at.dy = 0 THEN rects ELSE Scrolled(rects, at.dy)
    IN /\ rects' = Added(others, [file |-> n, x |-> at.x, y |-> wry - at.h,
                                  w |-> at.w, h |-> at.h])
       /\ disk' = disk \ (Files(rects) \ Files(others))
       /\ wrx' = at.x + at.w + BORDER
       /\ rowheight' = at.rowheight
       /\ UNCHANGED <<win, backing, wry, resized>>

\* One turn of pipe_event's loop.  A file that is not there is passed over;
\* one that is not shown stays, since unlink is given its name without the
\* directory.  An image that comes before the window was ever drawn is copied
\* to a backing image that does not exist.
ReadName ==
    /\ mode \in {"main", "event"}
    /\ nimgs < BATCH
    /\ pipe # <<>>
    /\ pipe' = Tail(pipe)
    /\ LET n == Head(pipe)
           show == n \in disk /\ Interesting(img[n])
       IN \/ /\ ~show
             /\ mode' = "event" /\ nimgs' = nimgs + 1
             /\ UNCHANGED <<disk, layout>>
          \/ /\ show /\ backing # <<0, 0>>
             /\ mode' = "event" /\ nimgs' = nimgs + 1
             /\ Show(n)
          \/ /\ show /\ backing = <<0, 0>>
             /\ mode' = "dead" /\ nimgs' = 0
             /\ UNCHANGED <<disk, layout>>
    /\ UNCHANGED <<wpc, img, saving>>

\* Mutant of EndEvent: the end of the pipe is taken for an empty pipe.
EndEvent_NoEof ==
    /\ mode = "event"
    /\ nimgs = BATCH \/ pipe = <<>>
    /\ mode' = "main" /\ nimgs' = 0
    /\ UNCHANGED <<driftnet, layout, saving>>

\* Mutant of EndEvent: FALSE is returned when nothing is there, and GTK no
\* longer calls pipe_event.
EndEvent_Unwatches ==
    /\ mode = "event"
    /\ nimgs = BATCH \/ pipe = <<>>
    /\ mode' = "main"
    /\ nimgs' = IF nimgs = BATCH THEN 0 ELSE BATCH
    /\ UNCHANGED <<driftnet, layout, saving>>

\* The call ends after BATCH names, or when nothing is there, for now
\* (EAGAIN) or for good.
EndEvent ==
    /\ mode = "event" \/ (mode = "main" /\ wpc = "gone" /\ pipe = <<>>)
    /\ nimgs = BATCH \/ pipe = <<>>
    /\ mode' = IF nimgs < BATCH /\ wpc = "gone" THEN "quit" ELSE "main"
    /\ nimgs' = 0
    /\ UNCHANGED <<driftnet, layout, saving>>

Press(p) ==
    /\ mode = "main"
    /\ click' = p
    /\ UNCHANGED <<driftnet, mode, nimgs, layout, num, saved>>

\* button_release_event and save_image: the rectangle that is now under both
\* points is saved under the next number that is free.
Release(p) ==
    /\ mode = "main"
    /\ num <= MaxNum
    /\ LET i == Find(rects, click)
           n == CHOOSE k \in num .. num + Cardinality(Existing \cup saved) :
                    /\ k \notin Existing \cup saved
                    /\ num .. k - 1 \subseteq Existing \cup saved
       IN /\ i # 0 /\ i = Find(rects, p)
          /\ num' = n + 1
          /\ saved' = IF rects[i].file \in disk THEN saved \cup {n} ELSE saved
    /\ UNCHANGED <<driftnet, mode, nimgs, layout, click>>

CloseWindow ==
    /\ mode = "main"
    /\ mode' = "quit"
    /\ UNCHANGED <<driftnet, nimgs, layout, saving>>

\* The end of do_gtkdisplay, and abort.
Finish ==
    /\ mode = "quit"
    /\ mode' = "dead"
    /\ disk' = disk \ Files(rects)
    /\ UNCHANGED <<wpc, img, pipe, nimgs, layout, saving>>

\* What the main loop of GTK does about the pipe, and after the main loop.
PipeEvent == ReadName \/ EndEvent \/ Finish

Next ==
    \/ \E i \in Images : WriteFile(i)
    \/ SendName \/ Clean \/ Exit
    \/ \E s \in Sizes : Expose(s)
    \/ ReadName \/ EndEvent
    \/ \E p \in Points : Press(p) \/ Release(p)
    \/ CloseWindow \/ Finish

\* The capture thread writes what it can write, main ends what it has begun
\* to end, and GTK's loop polls the pipe.  The user need not do anything.
Spec == /\ Init /\ [][Next]_vars
        /\ WF_vars(SendName)
        /\ WF_vars(Exit)
        /\ WF_vars(PipeEvent)

-----------------------------------------------------------------------------
(* Properties. *)

TypeOK ==
    /\ wpc \in {"capture", "send", "cleaned", "gone"}
    /\ img \in Seq(Images) /\ disk \subseteq DOMAIN img
    /\ ToSet(pipe) \subseteq DOMAIN img /\ Len(pipe) <= CAPACITY
    /\ mode \in {"main", "event", "quit", "dead"} /\ nimgs \in 0 .. BATCH
    /\ backing \in Sizes \cup {<<0, 0>>} /\ win = backing
    /\ Files(rects) \subseteq DOMAIN img
    /\ \A i, j \in Used(rects) : rects[i].file = rects[j].file => i = j
    /\ click \in Points \cup {<<0, 0>>} /\ resized \in BOOLEAN

\* The files that were read from the pipe.
Read == {n \in DOMAIN img : n \notin ToSet(pipe) /\ (n = Len(img) => wpc # "send")}

\* A file is deleted once its image has left the window, and no sooner: as
\* long as driftnet and the display live, every image in the table has its
\* file, to be saved from, and no other file of an image remains.  (the
\* deletions in make_backing_image, scroll_backing_image, do_gtkdisplay)
FileLivesWithItsImage ==
    /\ wpc \in {"capture", "send"} /\ mode # "dead"
        => Files(rects) = {n \in Read \cap disk : Interesting(img[n])}
    /\ mode = "dead" /\ backing # <<0, 0>> => disk \cap Files(rects) = {}

Overlap(a, b) ==
    /\ a.x < b.x + b.w /\ b.x < a.x + a.w
    /\ a.y < b.y + b.h /\ b.y < a.y + a.h

\* No image is drawn over another, so that what is clicked is what is seen.
\* After a change of size the row at the bottom is taken for empty, and a new
\* image may cover as much as BORDER lines of what is there.
ImagesApart ==
    \A i, j \in Used(rects) : i # j /\ Overlap(rects[i], rects[j]) =>
        /\ resized
        /\ \/ rects[i].y + rects[i].h - rects[j].y <= BORDER
           \/ rects[j].y + rects[j].h - rects[i].y <= BORDER

\* img_simple_blt, which does not clip, is asked for a rectangle inside the
\* backing image, and images stay above the lower border.
BltInBounds ==
    [][ /\ \A i \in Used(rects') : rects'[i].y + rects'[i].h <= backing'[2] - BORDER
        /\ \A i \in Used(rects') : rects'[i].file \notin Files(rects) =>
              /\ rects'[i].x >= BORDER /\ rects'[i].x + rects'[i].w <= backing'[1]
              /\ rects'[i].y >= BORDER /\ rects'[i].w > 0 /\ rects'[i].h > 0 ]_vars

\* The capture thread does not wait for ever on a full pipe: the display
\* reads on, or is gone and the write fails.
SenderGoesOn == wpc = "send" ~> wpc # "send"

\* When driftnet has ended the display ends, having read all names.
DisplayEnds == wpc = "gone" ~> mode = "dead"

-----------------------------------------------------------------------------
(* What the properties rest on; one named part for each reason. *)

\* A name is in the pipe once and not before it is sent; what is shown was
\* read.
NamesOK ==
    /\ pipe \in Seq(Nat) /\ IsInjective(pipe)
    /\ wpc = "send" => Len(img) # 0 /\ Len(img) \notin ToSet(pipe)
    /\ Files(rects) \subseteq Read

Rect == [file : Nat, x : Int, y : Int, w : Nat, h : Nat]

Right(r) == r.x + r.w
Bottom(r) == r.y + r.h

\* Every image of the row at the bottom is left of the place for the next;
\* all others end above the row, or, after a change of size, above where the
\* row begins when it is taken for empty.
RowOK ==
    /\ rects \in Seq(Rect)
    /\ wrx \in Int /\ wry \in Int /\ rowheight \in Int
    /\ backing = <<0, 0>> => Used(rects) = {}
    /\ backing # <<0, 0>> =>
          /\ wry = backing[2] - BORDER /\ wrx >= BORDER
          /\ \A i \in Used(rects) :
                /\ Bottom(rects[i]) <= wry
                /\ \/ Right(rects[i]) + BORDER <= wrx
                   \/ Bottom(rects[i]) <= wry - rowheight + (IF resized THEN 2 * BORDER ELSE 0)

DisplayInv == TypeOK /\ NamesOK /\ FileLivesWithItsImage /\ RowOK /\ ImagesApart
=============================================================================
