-------------------------------- MODULE Log --------------------------------
(* The log. Every line goes into a ring of lines, which the web page reads   *)
(* page by page from the newest back, and into a ring of bytes in memory     *)
(* that a reset leaves alone: the next start finds there what the device     *)
(* said before it went down, and after a crash keeps it in flash. The byte   *)
(* ring is written store by store, and the device may go down between any    *)
(* two of them. A cell of that ring stands for a byte.                       *)
EXTENDS Naturals, Sequences

CONSTANTS
    RingLines,      \* LOG_RING_SIZE
    RingCells,      \* PREV_RING_SIZE
    Widths,         \* the lengths of lines
    Limit,          \* entries of a page
    MaxLines,       \* lines of one start (a bound)
    MaxBoots,       \* bound
    MaxTimeouts     \* times the mutex is not had in time (a bound)

VARIABLES
    lines, count, next, seq,    \* s_lines (by slot), s_count, s_next, s_seq
    ring,       \* s_prev_ring
    w,          \* the append under way: its stage, cells still to come, copied
    prev,       \* s_prev_log, and where it is from
    deferred,   \* s_prev_deferred_save, not yet done
    loadTried,  \* s_prev_flash_load_tried
    saved,      \* the log in flash
    page,       \* the web page: entries shown, cursor, and the start all of them are of
    boots, timeouts,
    text, before,   \* history: the cells of this start's lines, and of the last one's
    last            \* history: the last whole line of the last start, and whether memory was kept

vars == <<lines, count, next, seq, ring, w, prev, deferred, loadTried, saved, page, boots, timeouts,
          text, before, last>>
rest == <<lines, count, next, seq, ring, w, prev, deferred, loadTried, saved, boots, text, before,
          last>>

Cells(line) == [i \in 1 .. line.width + 1 |-> [no |-> line.no, at |-> IF i > line.width THEN 0 ELSE i]]
Newline(cell) == cell.at = 0
Blank == [no |-> 0, at |-> 1]
Quiet == [at |-> "idle", line |-> 0, todo |-> << >>, copied |-> 0]
NoPage == [shown |-> << >>, cursor |-> 0, done |-> FALSE, late |-> FALSE, boot |-> 0]
NoLog == [from |-> "", body |-> << >>]

Check(head, used) == [head |-> head, used |-> used]
RingReset == [head |-> 0, used |-> 0, check |-> Check(0, 0), cells |-> [i \in 0 .. RingCells - 1 |-> Blank]]
RingValid == ring.check = Check(ring.head, ring.used)

\* A line on its way into the rings: its text and its end are two pieces.
Begun(n, width) ==
    LET line == [no |-> n, width |-> width] c == Cells(line) IN
    [at |-> "copy", line |-> n, todo |-> <<SubSeq(c, 1, width), <<c[width + 1]>> >>, copied |-> 0]

Init ==
    /\ lines = [i \in 0 .. RingLines - 1 |-> 0] /\ count = 0 /\ next = 0 /\ seq = 0
    /\ ring = RingReset /\ w = Begun(1, 1) /\ text = Cells([no |-> 1, width |-> 1]) /\ before = << >>
    /\ prev = NoLog /\ deferred = FALSE /\ loadTried = FALSE /\ saved = NoLog
    /\ page = NoPage /\ last = [no |-> 0, kept |-> FALSE] /\ boots = 1 /\ timeouts = 0

(* ---- Writing ------------------------------------------------------------ *)
\* idf_log_line, with the mutex.
Say(width) ==
    /\ w = Quiet /\ seq < MaxLines
    /\ w' = Begun(seq + 1, width) /\ text' = text \o Cells([no |-> seq + 1, width |-> width])
    /\ UNCHANGED <<lines, count, next, seq, ring, prev, deferred, loadTried, saved, page, boots,
                   timeouts, before, last>>

\* prev_ring_append: the data, then the three words about it.
Piece == Head(w.todo)
Copy ==
    /\ w.at = "copy"
    /\ ring' = [ring EXCEPT !.cells[(ring.head + w.copied) % RingCells] = Piece[w.copied + 1]]
    /\ w' = [w EXCEPT !.copied = @ + 1, !.at = IF w.copied + 1 = Len(Piece) THEN "head" ELSE "copy"]
    /\ UNCHANGED <<lines, count, next, seq, prev, deferred, loadTried, saved, page, boots, timeouts,
                   text, before, last>>

MoveHead ==
    /\ w.at = "head" /\ w' = [w EXCEPT !.at = "used"]
    /\ ring' = [ring EXCEPT !.head = (@ + Len(Piece)) % RingCells]
    /\ UNCHANGED <<lines, count, next, seq, prev, deferred, loadTried, saved, page, boots, timeouts,
                   text, before, last>>

CountUsed ==
    /\ w.at = "used" /\ w' = [w EXCEPT !.at = "check"]
    /\ ring' = [ring EXCEPT !.used = IF @ + Len(Piece) > RingCells THEN RingCells ELSE @ + Len(Piece)]
    /\ UNCHANGED <<lines, count, next, seq, prev, deferred, loadTried, saved, page, boots, timeouts,
                   text, before, last>>

\* append_log_line_locked, after the second piece.
Seal ==
    /\ w.at = "check"
    /\ ring' = [ring EXCEPT !.check = Check(ring.head, ring.used)]
    /\ IF Len(w.todo) > 1
       THEN /\ w' = [w EXCEPT !.at = "copy", !.todo = Tail(@), !.copied = 0]
            /\ UNCHANGED <<lines, count, next, seq>>
       ELSE /\ lines' = [lines EXCEPT ![next] = w.line]
            /\ next' = (next + 1) % RingLines
            /\ count' = IF count < RingLines THEN count + 1 ELSE count
            /\ seq' = seq + 1 /\ w' = Quiet
    /\ UNCHANGED <<prev, deferred, loadTried, saved, page, boots, timeouts, text, before, last>>

\* Whether the mutex is had: a line being written holds it.
Had(late) == IF late THEN w # Quiet /\ timeouts < MaxTimeouts ELSE w = Quiet

(* ---- The log of the last start ------------------------------------------ *)
\* As if the ring always began at the place to write next.
StartAtHead == ring.head
\* prev_log_capture
Start == (ring.head + RingCells - ring.used) % RingCells

\* A full ring begins in the middle of a line: what stands before its first
\* line end goes.
Trim(body) ==
    LET ends == {i \in 1 .. Len(body) : Newline(body[i])} IN
    IF ring.used = RingCells /\ ends # {}
    THEN SubSeq(body, (CHOOSE i \in ends : \A j \in ends : i <= j) + 1, Len(body))
    ELSE body

FromRam == IF RingValid /\ ring.used > 0
           THEN Trim([i \in 1 .. ring.used |-> ring.cells[(Start + i - 1) % RingCells]])
           ELSE << >>

\* A reset, and idf_log_init. The ring is kept by all of them but a loss of
\* power, after which it holds anything, and its check does not fit.
Restart(crash, kept) ==
    /\ boots < MaxBoots /\ boots' = boots + 1 /\ last' = [no |-> seq, kept |-> kept]
    /\ LET had == kept /\ RingValid /\ ring.used > 0 IN
         /\ prev' = IF had THEN [from |-> "ram", body |-> FromRam] ELSE NoLog
         /\ deferred' = (had /\ crash)
    /\ ring' = RingReset /\ w' = Begun(1, 1)
    /\ lines' = [i \in 0 .. RingLines - 1 |-> 0] /\ count' = 0 /\ next' = 0 /\ seq' = 0
    /\ loadTried' = FALSE
    /\ before' = text /\ text' = Cells([no |-> 1, width |-> 1])
    /\ UNCHANGED <<saved, page, timeouts>>

\* prev_log_deferred_task, fifteen seconds later; then its line.
Save ==
    /\ deferred /\ seq < MaxLines
    /\ deferred' = FALSE
    /\ \E late \in BOOLEAN :
         /\ Had(late)
         /\ timeouts' = timeouts + (IF late THEN 1 ELSE 0)
         /\ IF late THEN UNCHANGED <<saved, w, text>>
            ELSE /\ saved' = prev
                 /\ w' = Begun(seq + 1, 1) /\ text' = text \o Cells([no |-> seq + 1, width |-> 1])
    /\ UNCHANGED <<lines, count, next, seq, ring, prev, loadTried, page, boots, before, last>>

\* idf_log_prev_dump: without the mutex in time it takes the log for none.
ReadPrev ==
    /\ ~loadTried
    /\ \E late \in BOOLEAN :
         /\ Had(late)
         /\ timeouts' = timeouts + (IF late THEN 1 ELSE 0)
         /\ late \/ prev = NoLog
    /\ loadTried' = TRUE
    /\ prev' = IF saved # NoLog THEN [saved EXCEPT !.from = "flash"] ELSE prev
    /\ UNCHANGED <<lines, count, next, seq, ring, w, deferred, saved, page, boots, text, before, last>>

(* ---- The log page -------------------------------------------------------- *)
\* The page goes on with the entry it already has.
EndWithCursor(first, cursor) == IF cursor = 0 THEN seq + 1 - first ELSE IF cursor < first THEN 0
                                ELSE IF cursor <= seq THEN cursor - first + 1 ELSE seq + 1 - first
\* idf_web_paginate_log_json: how many of the lines come before the cursor.
End(first, cursor) == IF cursor = 0 THEN seq + 1 - first ELSE IF cursor <= first THEN 0
                      ELSE IF cursor <= seq THEN cursor - first ELSE seq + 1 - first

\* idf_log_json_since(0): the lines and the number of the first; without the
\* mutex in time there are none.
Snapshot(late) ==
    LET n == IF late THEN 0 ELSE count IN
    [first |-> seq + 1 - n, lines |-> [i \in 1 .. n |-> lines[(next + RingLines - n + i - 1) % RingLines]]]

\* idf_web_paginate_log_json
Page(snap, cursor) ==
    LET end == IF snap.lines = << >> THEN 0 ELSE End(snap.first, cursor)
        begin == IF end > Limit THEN end - Limit ELSE 0 IN
    [entries |-> [i \in 1 .. end - begin |-> [id |-> snap.first + begin + i - 1, line |-> snap.lines[begin + i]]],
     cursor |-> IF begin > 0 THEN snap.first + begin ELSE 0]

\* handle_empty_log, for the newest page or for the page before the cursor.
Load(more) ==
    /\ more => page.cursor # 0
    /\ \E late \in BOOLEAN :
         /\ Had(late)
         /\ timeouts' = timeouts + (IF late THEN 1 ELSE 0)
         /\ LET p == Page(Snapshot(late), IF more THEN page.cursor ELSE 0) IN
            page' = [shown |-> IF more THEN p.entries \o page.shown ELSE p.entries,
                     cursor |-> p.cursor, done |-> p.cursor = 0,
                     late |-> late \/ (more /\ page.late),
                     boot |-> IF more /\ page.boot # boots THEN 0 ELSE boots]
    /\ UNCHANGED rest

Next == \/ \E width \in Widths : Say(width)
        \/ Copy \/ MoveHead \/ CountUsed \/ Seal
        \/ \E crash, kept \in BOOLEAN : Restart(crash, kept)
        \/ Save \/ ReadPrev \/ \E more \in BOOLEAN : Load(more)
Spec == Init /\ [][Next]_vars

-----------------------------------------------------------------------------
TypeOK ==
    /\ count \in 0 .. RingLines /\ next \in 0 .. RingLines - 1 /\ seq \in 0 .. MaxLines
    /\ ring.head \in 0 .. RingCells - 1 /\ ring.used \in 0 .. RingCells
    /\ w.at \in {"idle", "copy", "head", "used", "check"} /\ prev.from \in {"", "ram", "flash"}
    /\ deferred \in BOOLEAN /\ loadTried \in BOOLEAN
    /\ page.cursor \in 0 .. MaxLines /\ boots \in 1 .. MaxBoots /\ timeouts \in 0 .. MaxTimeouts

Within(part, whole) ==
    \E a \in 0 .. Len(whole) - Len(part) : part = SubSeq(whole, a + 1, a + Len(part))
AfterFirstEnd(body) ==
    LET ends == {i \in 1 .. Len(body) : Newline(body[i])} IN
    IF ends = {} THEN << >>
    ELSE SubSeq(body, (CHOOSE i \in ends : \A j \in ends : i <= j) + 1, Len(body))

\* Whenever the device went down, in the middle of a line or of a wrap of the
\* ring, what the next start keeps is, after its first line, what the last
\* start said, in its order and without a hole.
PrevTrue == prev.from = "ram" => Within(AfterFirstEnd(prev.body), before)

\* However lines arrive between its requests, the page shows lines in their
\* order, each once and under its own number; and a page that has come to the
\* end has everything from the oldest line that still exists.
PageTrue ==
    page.boot = boots =>
        /\ \A i \in 1 .. Len(page.shown) : page.shown[i].line = page.shown[i].id
        /\ \A i \in 1 .. Len(page.shown) - 1 : page.shown[i + 1].id = page.shown[i].id + 1
        /\ page.done /\ ~page.late /\ page.shown # << >> => page.shown[1].id <= seq + 1 - count

\* "a crash loses at most the current line": every line that was written whole,
\* and that the ring has room for, is in what the next start keeps.
LosesOneLine ==
    last.kept /\ last.no > 0 /\ prev.from # "flash" =>
        \E i \in 1 .. Len(prev.body) : Newline(prev.body[i]) /\ prev.body[i].no = last.no
=============================================================================
