---------------------------- MODULE Pagination ----------------------------
(* Keyset pagination: a client walks down a feed that is ordered by           *)
(* (created_at, seq), newest first, page by page, while rows are inserted.    *)
(* The cursor is a JavaScript Date, whose unit is the millisecond; the clock  *)
(* of the database counts TICKS_PER_MS to one of them.                        *)
EXTENDS Integers, Sequences, SequencesExt, FiniteSets

CONSTANTS TICKS_PER_MS,   \* 1 where the application writes created_at itself
          LIMIT,          \* rows of a page
          MAX_ROWS,       \* bound: rows of the feed
          MAX_TICKS       \* bound: the database's clock

VARIABLES feed,      \* seq -> [created_at, committed]
          ticks,     \* the database's clock
          walk       \* the client: [at, snapshot_seq, cursor, shown, pinned]

page_vars == <<feed, ticks, walk>>

NoCursor == [created_at |-> MAX_TICKS + 1, seq |-> 0]
Start == [at |-> "start", snapshot_seq |-> 0, cursor |-> NoCursor, shown |-> <<>>, pinned |-> {}]

PageInit == feed = <<>> /\ ticks = 0 /\ walk = Start

(* The sequence number is drawn and created_at set when the row is inserted;  *)
(* other transactions see it once it is committed.  An application that sets  *)
(* created_at itself does so some time before.                                *)
insert_row(created_at) ==
    /\ Len(feed) < MAX_ROWS
    /\ created_at = ticks \/ TICKS_PER_MS = 1
    /\ feed' = Append(feed, [created_at |-> created_at, committed |-> FALSE])
    /\ UNCHANGED <<ticks, walk>>

commit_row(seq) ==
    /\ seq \in DOMAIN feed /\ ~feed[seq].committed
    /\ feed' = [feed EXCEPT ![seq].committed = TRUE]
    /\ UNCHANGED <<ticks, walk>>

clock_ticks == ticks < MAX_TICKS /\ ticks' = ticks + 1 /\ UNCHANGED <<feed, walk>>

visible == {seq \in DOMAIN feed : feed[seq].committed}

(* encodeCursor and decodeCursor: the date goes through an ISO string.        *)
encodeCursor(seq) ==
    [created_at |-> (feed[seq].created_at \div TICKS_PER_MS) * TICKS_PER_MS, seq |-> seq]

before_or_at(seq, cursor) ==
    \/ feed[seq].created_at < cursor.created_at
    \/ feed[seq].created_at = cursor.created_at /\ seq <= cursor.seq

(* created_at < c OR (created_at = c AND seq < s) *)
buildKeysetClause(seq, cursor) ==
    \/ feed[seq].created_at < cursor.created_at
    \/ feed[seq].created_at = cursor.created_at /\ seq < cursor.seq

newer(a, b) ==
    \/ feed[a].created_at > feed[b].created_at
    \/ feed[a].created_at = feed[b].created_at /\ a > b

selected(snapshot_seq, cursor) ==
    SetToSortSeq({seq \in visible : seq <= snapshot_seq /\ buildKeysetClause(seq, cursor)}, newer)

(* One request: the page, and the cursor of its last row if more follow.      *)
page_from(snapshot_seq, cursor, pinned) ==
    LET rows == selected(snapshot_seq, cursor)
        hasNext == Len(rows) > LIMIT
        page_rows == IF hasNext THEN SubSeq(rows, 1, LIMIT) ELSE rows
    IN  walk' = [at |-> IF hasNext THEN "more" ELSE "done",
                 snapshot_seq |-> snapshot_seq,
                 cursor |-> IF hasNext THEN encodeCursor(Last(page_rows)) ELSE cursor,
                 shown |-> walk.shown \o page_rows,
                 pinned |-> pinned]

max_seq == IF visible = {} THEN 0 ELSE CHOOSE s \in visible : \A r \in visible : r <= s

(* The first page pins MAX(seq), which a request without snapshot_seq asks    *)
(* for.                                                                       *)
first_page ==
    /\ walk.at = "start"
    /\ page_from(max_seq, NoCursor, visible)
    /\ UNCHANGED <<feed, ticks>>

next_page ==
    /\ walk.at = "more"
    /\ page_from(walk.snapshot_seq, walk.cursor, walk.pinned)
    /\ UNCHANGED <<feed, ticks>>

PageNext ==
    \/ \E created_at \in 0..ticks : insert_row(created_at)
    \/ \E seq \in 1..MAX_ROWS : commit_row(seq)
    \/ clock_ticks \/ first_page \/ next_page

PageSpec == PageInit /\ [][PageNext]_page_vars

-----------------------------------------------------------------------------
(* "feeds that must stay stable under concurrent writes": a client that       *)
(* follows the cursors to the end is shown no row twice and every row that    *)
(* was there when its snapshot was pinned.                                    *)
FeedIsStable ==
    /\ \A i, j \in DOMAIN walk.shown : walk.shown[i] = walk.shown[j] => i = j
    /\ walk.at = "done" => walk.pinned \subseteq {walk.shown[i] : i \in DOMAIN walk.shown}
=============================================================================
