----------------------------- MODULE LiveUpdates -----------------------------
(***************************************************************************)
(* The web app's event streams (frontend/src/app/hooks): the generic       *)
(* useSSE with its retries and its fallback to polling, as useLoanStream   *)
(* uses it, and the two hooks with a loop of their own, useCreditScore and *)
(* useNotificationStream.  One of them is mounted; the server's side is    *)
(* EventStream and NotificationService.                                    *)
(***************************************************************************)
EXTENDS Naturals, SequencesExt

CONSTANTS
  MAX_RECONNECT_ATTEMPTS,  \* useSSE's maxReconnectAttempts
  MAX_CHANGES,             \* bound: changes on the server, or notifications
  MAX_ENDS                 \* bound: streams that the server ends or drops

VARIABLES
  hook,       \* "loan", "score" or "notifications"
  signedIn,   \* the url, or isAuthenticated: the effect runs
  conn,       \* the request: none, opening, answering, open, ended, waiting
  attempts,   \* reconnectAttempts, a ref that outlives the effect
  status,     \* RealtimeStatus, useSSE only
  wire,       \* what the server has sent and the reader not yet read
  changes,    \* loan events, or notifications, so far
  unreadOf,   \* the notifications not read, on the server
  view,       \* the loan's or the score's entry: what it shows, and its mark
  throttled,  \* less than 500 ms since the last invalidation
  list,       \* the notifications kept under the key ["notifications"]
  unreadCount,\* and their unread count
  ends        \* streams ended so far

liveVars == <<hook, signedIn, conn, attempts, status, wire, changes, unreadOf,
              view, throttled, list, unreadCount, ends>>

server == <<changes, unreadOf>>
displayed == <<view, throttled, list, unreadCount>>

LiveInit ==
  /\ hook \in {"loan", "score", "notifications"}
  /\ signedIn = FALSE /\ conn = "none" /\ attempts = 0
  /\ status = "disconnected" /\ wire = <<>>
  /\ changes = 0 /\ unreadOf = {}
  /\ view = [seen |-> 0, invalid |-> FALSE] /\ throttled = FALSE
  /\ list = <<>> /\ unreadCount = 0 /\ ends = 0

(* The effect runs: at mount, or when the user signs in.                   *)
effect_runs ==
  /\ ~ signedIn
  /\ signedIn' = TRUE /\ conn' = "opening" /\ status' = "connecting"
  /\ UNCHANGED <<hook, attempts, wire, server, displayed, ends>>

(* Its clean-up: the request is aborted, the timers cleared.               *)
effect_ends ==
  /\ signedIn
  /\ signedIn' = FALSE /\ conn' = "none" /\ status' = "disconnected" /\ wire' = <<>>
  /\ UNCHANGED <<hook, attempts, server, displayed, ends>>

(* The server answers 200; for notifications it reads the unread ones, to  *)
(* be sent first, before it subscribes the stream to new ones.             *)
stream_answers ==
  /\ conn = "opening"
  /\ conn' = "answering"
  /\ wire' = IF hook = "notifications" THEN <<[init |-> TRUE, ids |-> unreadOf]>> ELSE <<>>
  /\ UNCHANGED <<hook, signedIn, attempts, status, server, displayed, ends>>

connected ==
  /\ conn = "answering"
  /\ conn' = "open" /\ status' = "connected" /\ attempts' = 0
  /\ UNCHANGED <<hook, signedIn, wire, server, displayed, ends>>

(* The catch block of useSSE: the third failure in a row starts polling,   *)
(* which stays until the effect runs again; the other loops retry for ever. *)
attempts_forgotten(n) == 0
counted_attempts(n) == n + 1

invalidated(v) == [v EXCEPT !.invalid = TRUE]

connect_fails ==
  /\ conn \in {"opening", "answering"}
  /\ wire' = <<>>
  /\ IF hook # "loan"
       THEN conn' = "waiting" /\ UNCHANGED <<attempts, status, view, throttled>>
       ELSE /\ attempts' = IF attempts < MAX_RECONNECT_ATTEMPTS
                             THEN counted_attempts(attempts) ELSE attempts
            /\ IF counted_attempts(attempts) >= MAX_RECONNECT_ATTEMPTS
                 THEN /\ conn' = "none" /\ status' = "polling"
                      /\ view' = IF throttled THEN view ELSE invalidated(view)
                      /\ throttled' = TRUE
                 ELSE conn' = "waiting" /\ UNCHANGED <<status, view, throttled>>
  /\ UNCHANGED <<hook, signedIn, server, list, unreadCount, ends>>

reconnect ==
  /\ conn = "waiting"
  /\ conn' = "opening" /\ status' = "connecting"
  /\ UNCHANGED <<hook, signedIn, attempts, wire, server, displayed, ends>>

(* The reader throws: what was on its way is lost, and this counts as a    *)
(* first failure, for the connection had reset the count.                  *)
stream_breaks ==
  /\ conn = "open" /\ ends < MAX_ENDS
  /\ ends' = ends + 1
  /\ conn' = "waiting" /\ wire' = <<>>
  /\ attempts' = IF hook = "loan" THEN counted_attempts(0) ELSE attempts
  /\ UNCHANGED <<hook, signedIn, status, server, displayed>>

(* The server closes the stream (its shutdown ends every response): the    *)
(* reader is done, the loop is left, and nothing connects again.           *)
stream_ends ==
  /\ conn = "open" /\ wire = <<>> /\ ends < MAX_ENDS
  /\ ends' = ends + 1
  /\ conn' = "ended"
  /\ UNCHANGED <<hook, signedIn, attempts, status, wire, server, displayed>>

(* The interval of startPolling.                                           *)
onFallbackPoll ==
  /\ status = "polling"
  /\ ~ throttled /\ ~ view.invalid
  /\ view' = invalidated(view) /\ throttled' = TRUE
  /\ UNCHANGED <<hook, signedIn, conn, attempts, status, wire, server, list, unreadCount, ends>>

throttle_passes ==
  /\ throttled
  /\ throttled' = FALSE
  /\ UNCHANGED <<hook, signedIn, conn, attempts, status, wire, server, view, list,
                 unreadCount, ends>>

(***************************************************************************)
(* The server                                                              *)
(***************************************************************************)
server_changes ==
  /\ changes < MAX_CHANGES
  /\ changes' = changes + 1
  /\ unreadOf' = IF hook = "notifications" THEN unreadOf \union {changes + 1} ELSE unreadOf
  /\ wire' = IF conn = "open" THEN Append(wire, [init |-> FALSE, ids |-> {changes + 1}]) ELSE wire
  /\ UNCHANGED <<hook, signedIn, conn, attempts, status, displayed, ends>>

note_read_elsewhere ==
  /\ \E n \in unreadOf : unreadOf' = unreadOf \ {n}
  /\ UNCHANGED <<hook, signedIn, conn, attempts, status, wire, changes, displayed, ends>>

query_refetched ==
  /\ view.invalid
  /\ view' = [seen |-> changes, invalid |-> FALSE]
  /\ UNCHANGED <<hook, signedIn, conn, attempts, status, wire, server, throttled, list,
                 unreadCount, ends>>

(***************************************************************************)
(* onMessage                                                               *)
(***************************************************************************)
(* invalidateLoanQueries drops what comes within half a second.            *)
loan_event ==
  /\ view' = IF throttled THEN view ELSE invalidated(view)
  /\ throttled' = TRUE
  /\ UNCHANGED <<list, unreadCount>>

score_event ==
  /\ view' = invalidated(view)
  /\ UNCHANGED <<throttled, list, unreadCount>>

ids_of(l) == {l[i].id : i \in DOMAIN l}

unread_in(l) == Len(SelectSeq(l, LAMBDA n : ~ n.read))

Newer(m, n) == m.id > n.id

fresh(ids, l) == ids \ ids_of(l)

note_of(id) == [id |-> id, read |-> FALSE]

notes_init(m) ==
  LET merged == SortSeq(SetToSeq({note_of(id) : id \in fresh(m.ids, list)}) \o list, Newer) IN
  /\ list' = merged
  /\ unreadCount' = unread_in(merged)

note_event(m) ==
  LET id == CHOOSE i \in m.ids : TRUE IN
  IF id \in ids_of(list) THEN UNCHANGED <<list, unreadCount>>
  ELSE list' = <<note_of(id)>> \o list /\ unreadCount' = unreadCount + 1

onMessage ==
  /\ conn = "open" /\ wire # <<>>
  /\ wire' = Tail(wire)
  /\ LET m == Head(wire) IN
     CASE hook = "loan"  -> loan_event
       [] hook = "score" -> score_event
       [] hook = "notifications" ->
            /\ IF m.init THEN notes_init(m) ELSE note_event(m)
            /\ UNCHANGED <<view, throttled>>
  /\ UNCHANGED <<hook, signedIn, conn, attempts, status, server, ends>>

LiveNext ==
  \/ effect_runs \/ effect_ends \/ stream_answers \/ connected \/ connect_fails \/ reconnect
  \/ stream_breaks \/ stream_ends \/ onFallbackPoll \/ throttle_passes
  \/ server_changes \/ note_read_elsewhere \/ query_refetched \/ onMessage

(* A request is answered or fails, and a timer fires.                      *)
LiveFairness == WF_liveVars(stream_answers \/ connected \/ connect_fails \/ reconnect)

LiveSpec == LiveInit /\ [][LiveNext]_liveVars /\ LiveFairness

(* The loan page does not say "connecting" for ever, however often the     *)
(* stream fails: it gets connected, or falls back to polling, unless the   *)
(* page is left.                                                           *)
ConnectingEnds == (hook = "loan" /\ status = "connecting") ~> (status # "connecting")

(* A notification is in the list once, whatever was pushed and sent again  *)
(* after a reconnection, and the unread count is the list's.               *)
PushedOnce == /\ Len(list) = Cardinality(ids_of(list))
              /\ unreadCount = unread_in(list)
=============================================================================
