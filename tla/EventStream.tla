----------------------------- MODULE EventStream -----------------------------
(* The SSE streams of indexed events (backend/src/services/eventStreamService, *)
(* controllers/eventStreamController.ts), and the Redis channel by which one   *)
(* backend instance tells the others (services/pubsubService.ts, index.ts).    *)
(* An event is a number, its place in contract_events.                         *)
EXTENDS Naturals, Sequences, FiniteSets, SequencesExt

CONSTANTS Instances,    \* backend processes
          Streams,      \* connection attempts
          StreamOf,     \* StreamOf[c]: [at, user, admin, asks], asks "none" without ?borrower
          AddressOf,    \* AddressOf[e]: whom event e is about
          MAX_CONNECTIONS_PER_USER,
          REPLAY_LIMIT

\* A wallet's address is none of the words that stand for no address; an event's
\* number is its place in AddressOf.
ASSUME StreamConstants ==
    /\ REPLAY_LIMIT \in Nat
    /\ \A c \in Streams : StreamOf[c].at \in Instances /\ StreamOf[c].user \notin {"all", "none", ""}

VARIABLES
    stored,      \* how many events contract_events holds
    channel,     \* channel[i]: events Redis has still to hand to instance i
    stream,      \* stream[c]: [pc, gone, replay, got]
    listening,   \* borrowerClients and adminClients: the connections they hold
    counted,     \* userClients: the connections it holds
    heartbeat    \* the instances whose heartbeat timer runs

stream_vars == <<stored, channel, stream, listening, counted, heartbeat>>

here(i) == {c \in Streams : StreamOf[c].at = i}

\* Whose events the stream carries, "all" for everybody's: the borrower asked for
\* when the query has that parameter, else all of them for an admin and one's own.
\* An empty parameter counts as given there and as absent in the two tests of it.
borrower(c) == CASE StreamOf[c].asks = "none" -> IF StreamOf[c].admin THEN "all" ELSE StreamOf[c].user
                 [] StreamOf[c].asks = ""     -> "all"
                 [] OTHER                     -> StreamOf[c].asks

wants(c, e) == borrower(c) \in {"all", AddressOf[e]}

may_stream(c) == StreamOf[c].admin \/ StreamOf[c].asks \in {"none", "", StreamOf[c].user}

StreamInit ==
    /\ stored = 0 /\ channel = [i \in Instances |-> <<>>]
    /\ stream = [c \in Streams |-> [pc |-> "none", gone |-> FALSE, replay |-> <<>>, got |-> <<>>]]
    /\ listening = {} /\ counted = {} /\ heartbeat = {}

-----------------------------------------------------------------------------
(* Opening and closing a stream.                                               *)

connections(c) == {d \in counted : StreamOf[d].user = StreamOf[c].user /\ StreamOf[d].at = StreamOf[c].at}

canOpenConnection(c) == Cardinality(connections(c)) < MAX_CONNECTIONS_PER_USER

\* streamEvents checks the limit and then awaits the replay query.
stream_opens(c) ==
    /\ stream[c].pc = "none" /\ may_stream(c) /\ canOpenConnection(c)
    /\ stream' = [stream EXCEPT ![c].pc = "querying"]
    /\ UNCHANGED <<stored, channel, listening, counted, heartbeat>>

\* ORDER BY id ASC LIMIT n (an event's number is its row id).
oldest_first(events, n) ==
    {rows \in [1..n -> events] :
        /\ \A i, j \in 1..n : i < j => rows[i] < rows[j]
        /\ \A e \in events \ Range(rows), i \in 1..n : rows[i] < e}

\* The query reads the oldest events after Last-Event-ID (any, or none); its
\* failure is logged and nothing is replayed.
replay_query(c) ==
    /\ stream[c].pc = "querying"
    /\ \E last \in 0..stored :
         LET mine == {e \in last+1..stored : wants(c, e)}
         IN  \E n \in {0, Min({REPLAY_LIMIT, Cardinality(mine)})} : \E rows \in oldest_first(mine, n) :
                stream' = [stream EXCEPT ![c].pc = "replaying", ![c].replay = rows]
    /\ UNCHANGED <<stored, channel, listening, counted, heartbeat>>

\* What follows the query runs without a break: the replay is written, the client
\* registered, and the close handlers attached.
streamEvents(c) ==
    /\ stream[c].pc = "replaying"
    /\ stream' = [stream EXCEPT ![c].pc = "open", ![c].got = IF stream[c].gone THEN @ ELSE @ \o stream[c].replay,
                                ![c].replay = <<>>]
    /\ listening' = listening \cup {c} /\ counted' = counted \cup {c}
    /\ heartbeat' = heartbeat \cup {StreamOf[c].at}
    /\ UNCHANGED <<stored, channel>>

\* stopHeartbeatIfEmpty.
beating(i, still) == IF here(i) \cap still = {} THEN heartbeat \ {i} ELSE heartbeat

\* The client goes away.  The handler unsubscribes it; one that leaves before the
\* handler is attached stays registered.
stream_closes(c) ==
    /\ stream[c].pc # "none" /\ ~stream[c].gone
    /\ stream' = [stream EXCEPT ![c].gone = TRUE]
    /\ \/ /\ stream[c].pc = "open"
          /\ listening' = listening \ {c} /\ counted' = counted \ {c}
          /\ heartbeat' = beating(StreamOf[c].at, listening \ {c})
       \/ stream[c].pc # "open" /\ UNCHANGED <<listening, counted, heartbeat>>
    /\ UNCHANGED <<stored, channel>>

-----------------------------------------------------------------------------
(* Events.                                                                     *)

\* broadcast writes to the listeners of one instance.  A write to a client that
\* has gone may throw: then it is dropped as a listener, and only as that.
broadcast(i, e) ==
    \E failed \in SUBSET {c \in listening \cap here(i) : stream[c].gone /\ wants(c, e)} :
        /\ listening' = listening \ failed
        /\ stream' = [c \in Streams |->
              IF c \in listening \cap here(i) /\ wants(c, e) /\ ~stream[c].gone
              THEN [stream[c] EXCEPT !.got = Append(@, e)] ELSE stream[c]]

\* An event is stored by the instance that indexed it, broadcast there and
\* published to the channel, which every instance subscribes to, this one too.
event_indexed(i) ==
    /\ stored < Len(AddressOf) /\ stored' = stored + 1
    /\ broadcast(i, stored + 1)
    /\ channel' = [j \in Instances |-> Append(channel[j], stored + 1)]
    /\ UNCHANGED <<counted, heartbeat>>

\* Redis is down: the publish is only logged.
event_indexed_alone(i) ==
    /\ stored < Len(AddressOf) /\ stored' = stored + 1
    /\ broadcast(i, stored + 1)
    /\ UNCHANGED <<channel, counted, heartbeat>>

initSubscriber(i) ==
    /\ channel[i] # <<>>
    /\ broadcast(i, Head(channel[i]))
    /\ channel' = [channel EXCEPT ![i] = Tail(@)]
    /\ UNCHANGED <<stored, counted, heartbeat>>

\* The heartbeat's write to a dead connection may throw: removeClient takes it out
\* of every map.
removeClient_uncounts(failed) == counted' = counted \ failed /\ UNCHANGED listening

removeClient(failed) == listening' = listening \ failed /\ counted' = counted \ failed

startHeartbeat(i) ==
    /\ i \in heartbeat
    /\ \E failed \in SUBSET {c \in listening \cap here(i) : stream[c].gone} : removeClient(failed)
    /\ UNCHANGED <<stored, channel, stream, heartbeat>>

\* closeAllConnections, at shutdown; the streams it ends close afterwards.
closeAllConnections(i) ==
    /\ listening' = listening \ here(i) /\ counted' = counted \ here(i)
    /\ heartbeat' = heartbeat \ {i}
    /\ UNCHANGED <<stored, channel, stream>>

StreamNext ==
    \/ \E c \in Streams : stream_opens(c) \/ replay_query(c) \/ streamEvents(c) \/ stream_closes(c)
    \/ \E i \in Instances : startHeartbeat(i) \/ event_indexed(i) \/ event_indexed_alone(i) \/ initSubscriber(i) \/ closeAllConnections(i)

-----------------------------------------------------------------------------
\* Whichever of close, failed write, heartbeat and shutdown comes first, every
\* client that listens is counted against its user's limit, and a heartbeat timer
\* watches it.
ListenersAccountedFor == listening \subseteq counted /\ \A c \in listening : StreamOf[c].at \in heartbeat

\* A borrower who asks for an address, or leaves the parameter out, is sent nothing
\* about another borrower, whether by replay, broadcast or the channel.
OwnEventsOnly ==
    \A c \in Streams : ~StreamOf[c].admin /\ StreamOf[c].asks # "" =>
        \A e \in Range(stream[c].got) : AddressOf[e] = StreamOf[c].user

\* Every listening client is counted and watched by a heartbeat, and a borrower is
\* sent nothing about another one (streamEvents, removeClient, broadcast).
StreamsSound == ListenersAccountedFor /\ OwnEventsOnly
=============================================================================
