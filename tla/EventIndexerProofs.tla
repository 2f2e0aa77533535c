------------------------- MODULE EventIndexerProofs -------------------------
(* The indexer implements EventFeed: a proof for every number of instances,   *)
(* every chain, every batch size and any number of faults and reorgs; and the *)
(* streams that carry what it indexed are sound.                              *)
EXTENDS EventIndexer, EventStream, FiniteSetTheorems, TLAPS

\* The time a leaf is given, by each of the two provers that try it.
USE SMTT(20), ZenonT(30)

\* Math.min and Math.max of two ledger numbers.
LEMMA MinOfTwo ==
    ASSUME NEW a \in Int, NEW b \in Int
    PROVE  Min({a, b}) = IF a <= b THEN a ELSE b
  <1>1. \A m \in {a, b} : (\A y \in {a, b} : m <= y) => m = IF a <= b THEN a ELSE b
    OBVIOUS
  <1>2. \E m \in {a, b} : \A y \in {a, b} : m <= y
    OBVIOUS
  <1>. QED
    BY <1>1, <1>2, ZenonT(30) DEF Min

\* The larger of two integers.
LEMMA MaxOfTwo ==
    ASSUME NEW a \in Int, NEW b \in Int
    PROVE  Max({a, b}) = IF a >= b THEN a ELSE b
  <1>1. \A m \in {a, b} : (\A y \in {a, b} : m >= y) => m = IF a >= b THEN a ELSE b
    OBVIOUS
  <1>2. \E m \in {a, b} : \A y \in {a, b} : m >= y
    OBVIOUS
  <1>. QED
    BY <1>1, <1>2, ZenonT(30) DEF Max

-----------------------------------------------------------------------------
(* What the tables and the jobs hold are ledger numbers.                      *)

CheckpointRow(c) == DOMAIN c = {"start", "end", "status", "digest"} /\ c.start \in Int /\ c.end \in Int

Job(j) ==
    /\ DOMAIN j = {"pc", "goal", "tip", "cursor", "todo", "from", "to", "got", "fresh"}
    /\ j.tip \in Int /\ j.cursor \in Int /\ j.from \in Int /\ j.to \in Int
    /\ \A c \in j.todo : CheckpointRow(c)

LedgerNumbers ==
    /\ chain \in Seq(Seq(DOMAIN Event)) /\ Len(chain) <= MAX_LEDGER
    /\ last_finalized \in Nat
    /\ \A c \in ledger_checkpoints : CheckpointRow(c)
    /\ DOMAIN job = Workers
    /\ \A w \in Workers : Job(job[w])

\* The job of a worker with nothing to do.
LEMMA IdleJob == Job(Idle)
  BY DEF Job, Idle

\* The last ledger of a chunk is a number.
LEMMA ChunkEnd ==
    ASSUME NEW from \in Int, NEW tip \in Int
    PROVE  chunk_end(from, tip) \in Int
  BY MinOfTwo, IndexerAssumption DEF chunk_end

\* The finalized ledger of a tip is a number.
LEMMA Finalized ==
    ASSUME NEW tip \in Int
    PROVE  finalized(tip) \in Int
  BY MaxOfTwo, IndexerAssumption DEF finalized

\* Where a rollback to a ledger leaves the cursor.
LEMMA RolledBackCursor ==
    ASSUME last_finalized \in Nat, NEW ledger \in Int
    PROVE  /\ rolled_back_cursor(ledger) \in Nat
           /\ rolled_back_cursor(ledger) <= last_finalized
           /\ rolled_back_cursor(ledger) < last_finalized =>
                rolled_back_cursor(ledger) = IF ledger >= 1 THEN ledger - 1 ELSE 0
           /\ rolled_back_cursor(ledger) = last_finalized => last_finalized < ledger \/ last_finalized = 0
  <1>. DEFINE m == Max({ledger - 1, 0})
  <1>1. m = IF ledger >= 1 THEN ledger - 1 ELSE 0
    BY MaxOfTwo
  <1>2. m \in Nat
    BY <1>1
  <1>. HIDE DEF m
  <1>3. Min({last_finalized, m}) = IF last_finalized <= m THEN last_finalized ELSE m
    BY <1>2, MinOfTwo
  <1>4. rolled_back_cursor(ledger) = Min({last_finalized, m})
    BY ZenonT(30) DEF rolled_back_cursor, m
  <1>. QED
    BY <1>1, <1>2, <1>3, <1>4

\* The tables hold numbers when the processes start.
LEMMA NumbersInitially == Init => LedgerNumbers
  <1>. SUFFICES ASSUME Init PROVE LedgerNumbers
    OBVIOUS
  <1>1. chain \in Seq(Seq(DOMAIN Event)) /\ Len(chain) <= MAX_LEDGER
    BY ChainAssumption DEF Init, MAX_LEDGER, Range
  <1>2. last_finalized \in Nat /\ \A c \in ledger_checkpoints : CheckpointRow(c)
    BY ChainAssumption, ZenonT(30) DEF Init, CheckpointRow
  <1>3. DOMAIN job = Workers /\ \A w \in Workers : Job(job[w])
    BY IdleJob, ZenonT(30) DEF Init
  <1>. QED
    BY <1>1, <1>2, <1>3, ZenonT(30) DEF LedgerNumbers

\* A worker's new job is well formed when the values it takes are.
LEMMA JobSet ==
    ASSUME LedgerNumbers, NEW w \in Workers, NEW j, Job(j), set(w, j)
    PROVE  DOMAIN job' = Workers /\ \A v \in Workers : Job(job'[v])
  BY ZenonT(30) DEF LedgerNumbers, set

\* The steps of a poll, those of a chunk excepted.
LEMMA PollKeepsNumbers ==
    ASSUME LedgerNumbers, NEW p \in Pollers, poll(p), ~chunk(p)
    PROVE  LedgerNumbers'
  <1>. p \in Workers /\ Job(job[p]) /\ Job(Idle)
    BY IdleJob, ZenonT(30) DEF Workers, LedgerNumbers
  <1>1. CASE poll_begin(p)
    <2>1. Job([Idle EXCEPT !.pc = "detect", !.tip = Len(chain)])
      BY DEF Job, Idle, LedgerNumbers
    <2>. QED
      BY <1>1, <2>1, JobSet, ZenonT(30) DEF poll_begin, LedgerNumbers, store
  <1>2. CASE detect_begin(p)
    <2>1. Job([job[p] EXCEPT !.pc = "cursor"])
      BY ZenonT(30) DEF Job
    <2>2. \A c \in getLatestVerifiedCheckpoint :
             Job([job[p] EXCEPT !.pc = "fetch", !.goal = "detect", !.todo = {c}, !.from = c.start, !.to = c.end])
      BY ZenonT(30) DEF Job, CheckpointRow, LedgerNumbers, getLatestVerifiedCheckpoint, verified
    <2>3. DOMAIN job' = Workers /\ \A v \in Workers : Job(job'[v])
      <3>1. CASE set(p, [job[p] EXCEPT !.pc = "cursor"])
        BY <2>1, <3>1, JobSet, ZenonT(30)
      <3>2. ASSUME NEW c \in getLatestVerifiedCheckpoint,
                   set(p, [job[p] EXCEPT !.pc = "fetch", !.goal = "detect", !.todo = {c}, !.from = c.start, !.to = c.end])
            PROVE  DOMAIN job' = Workers /\ \A v \in Workers : Job(job'[v])
        BY <2>2, <3>2, JobSet, ZenonT(30)
      <3>. QED
        BY <1>2, <3>1, <3>2, ZenonT(30) DEF detect_begin, goto
    <2>. QED
      BY <1>2, <2>3, ZenonT(30) DEF detect_begin, LedgerNumbers, store
  <1>3. CASE detectAndRollbackReorg(p)
    <2>. DEFINE rest == [job[p] EXCEPT !.got = <<>>, !.pc = "cursor"]
    <2>1. Job(rest) /\ Job([rest EXCEPT !.pc = "rollback"])
      BY ZenonT(30) DEF Job
    <2>2. \A c : \A d : CheckpointRow(c) => CheckpointRow([c EXCEPT !.digest = d])
      BY ZenonT(30) DEF CheckpointRow
    <2>3. DOMAIN job' = Workers /\ \A v \in Workers : Job(job'[v])
      BY <1>3, <2>1, JobSet, ZenonT(30) DEF detectAndRollbackReorg
    <2>4. \A c \in ledger_checkpoints' : CheckpointRow(c)
      <3>1. PICK c \in job[p].todo :
               ledger_checkpoints' \subseteq ledger_checkpoints \cup {[c EXCEPT !.digest = digestEvents(job[p].got)]}
        BY <1>3, ZenonT(30) DEF detectAndRollbackReorg
      <3>2. CheckpointRow(c)
        BY ZenonT(30) DEF Job
      <3>3. CheckpointRow([c EXCEPT !.digest = digestEvents(job[p].got)])
        BY <2>2, <3>2, ZenonT(30)
      <3>. QED
        BY <3>1, <3>3, ZenonT(30) DEF LedgerNumbers
    <2>. QED
      BY <1>3, <2>3, <2>4, ZenonT(30) DEF detectAndRollbackReorg, LedgerNumbers
  <1>4. CASE rollbackFromLedger(p)
    <2>1. Job([job[p] EXCEPT !.pc = "cursor"])
      BY ZenonT(30) DEF Job
    <2>2. DOMAIN job' = Workers /\ \A v \in Workers : Job(job'[v])
      BY <1>4, <2>1, JobSet, ZenonT(30) DEF rollbackFromLedger, goto
    <2>3. last_finalized' \in Nat
      <3>1. job[p].from \in Int /\ last_finalized \in Nat
        BY ZenonT(30) DEF Job, LedgerNumbers
      <3>2. rolled_back_cursor(job[p].from) \in Nat
        BY <3>1, RolledBackCursor, ZenonT(30)
      <3>. QED
        BY <1>4, <3>2, ZenonT(30) DEF rollbackFromLedger
    <2>. QED
      BY <1>4, <2>2, <2>3 DEF rollbackFromLedger, LedgerNumbers, checkpoints_below
  <1>5. CASE read_cursor(p)
    <2>1. Job([job[p] EXCEPT !.pc = "next", !.cursor = last_finalized, !.todo = suspects])
      BY DEF Job, LedgerNumbers, suspects
    <2>. QED
      BY <1>5, <2>1, JobSet, ZenonT(30) DEF read_cursor, LedgerNumbers, store
  <1>6. CASE next_range(p)
    <2>. DEFINE tip == finalized(job[p].tip)
                from == job[p].cursor + 1
    <2>1. tip \in Int /\ from \in Int
      BY Finalized DEF Job
    <2>2. chunk_end(from, tip) \in Int
      BY <2>1, ChunkEnd, ZenonT(30)
    <2>3. \A gap \in oldest(job[p].todo) :
             /\ Min({gap.end, tip}) \in Int
             /\ gap.start \in Int /\ gap \in job[p].todo
      BY <2>1, MinOfTwo DEF Job, CheckpointRow, oldest
    <2>4. \A gap \in oldest(job[p].todo) :
             /\ Job([job[p] EXCEPT !.pc = "fetch", !.goal = "backfill", !.got = <<>>, !.from = gap.start,
                                   !.to = Min({gap.end, tip})])
             /\ Job([job[p] EXCEPT !.todo = @ \ {gap}])
      BY <2>3, ZenonT(30) DEF Job
    <2>5. Job([job[p] EXCEPT !.pc = "fetch", !.goal = "advance", !.got = <<>>, !.from = from,
                             !.to = chunk_end(from, tip)])
      BY <2>1, <2>2, ZenonT(30) DEF Job
    <2>6. DOMAIN job' = Workers /\ \A v \in Workers : Job(job'[v])
      BY <1>6, <2>4, <2>5, JobSet, ZenonT(30) DEF next_range
    <2>. QED
      BY <1>6, <2>6, ZenonT(30) DEF next_range, LedgerNumbers, store
  <1>7. CASE backfilled(p)
    <2>1. \A gap : Job([job[p] EXCEPT !.pc = "next", !.todo = @ \ {gap}])
      BY ZenonT(30) DEF Job
    <2>2. Job([job[p] EXCEPT !.pc = "split"])
      BY ZenonT(30) DEF Job
    <2>3. DOMAIN job' = Workers /\ \A v \in Workers : Job(job'[v])
      BY <1>7, <2>1, <2>2, JobSet, ZenonT(30) DEF backfilled, goto
    <2>4. \A gap \in ledger_checkpoints :
             /\ CheckpointRow([gap EXCEPT !.status = "verified", !.digest = digestEvents(job[p].got)])
             /\ CheckpointRow([gap EXCEPT !.start = job[p].to + 1])
      BY DEF CheckpointRow, LedgerNumbers, Job
    <2>5. \A c \in ledger_checkpoints' : CheckpointRow(c)
      <3>1. PICK gap : ledger_checkpoints' \subseteq ledger_checkpoints \cup
                {x \in {[gap EXCEPT !.status = "verified", !.digest = digestEvents(job[p].got)],
                        [gap EXCEPT !.start = job[p].to + 1]} : gap \in ledger_checkpoints}
        BY <1>7, ZenonT(30) DEF backfilled
      <3>. QED
        BY <2>4, <3>1, ZenonT(30) DEF LedgerNumbers
    <2>. QED
      BY <1>7, <2>3, <2>5, ZenonT(30) DEF backfilled, LedgerNumbers, tables_but_checkpoints
  <1>8. CASE backfilled_part(p)
    <2>1. \A gap : Job([job[p] EXCEPT !.pc = "next", !.todo = @ \ {gap}])
      BY ZenonT(30) DEF Job
    <2>2. DOMAIN job' = Workers /\ \A v \in Workers : Job(job'[v])
      BY <1>8, <2>1, JobSet, ZenonT(30) DEF backfilled_part
    <2>3. CheckpointRow(Checkpoint(job[p].from, job[p].to, "verified", digestEvents(job[p].got)))
      BY ZenonT(30) DEF CheckpointRow, Checkpoint, Job
    <2>. QED
      BY <1>8, <2>2, <2>3, ZenonT(30) DEF backfilled_part, LedgerNumbers, tables_but_checkpoints
  <1>9. CASE record_previous(p)
    <2>1. PICK end : /\ end \in IF ledger_checkpoints = {} THEN {job[p].from - 1}
                                ELSE {c.end : c \in ledger_checkpoints}
                     /\ set(p, [job[p] EXCEPT !.pc = IF job[p].from > end + 1 THEN "gap" ELSE "range",
                                              !.cursor = end])
      BY <1>9, ZenonT(30) DEF record_previous
    <2>2. end \in Int
      BY <2>1 DEF LedgerNumbers, CheckpointRow, Job
    <2>3. Job([job[p] EXCEPT !.pc = IF job[p].from > end + 1 THEN "gap" ELSE "range", !.cursor = end])
      BY <2>2, ZenonT(30) DEF Job
    <2>. QED
      BY <1>9, <2>1, <2>3, JobSet, ZenonT(30) DEF record_previous, LedgerNumbers, store
  <1>10. CASE record_gap(p)
    <2>1. Job([job[p] EXCEPT !.pc = "range"])
      BY ZenonT(30) DEF Job
    <2>2. CheckpointRow(Checkpoint(job[p].cursor + 1, job[p].from - 1, "suspect", Unknown))
      BY DEF CheckpointRow, Checkpoint, Job
    <2>. QED
      BY <1>10, <2>1, <2>2, JobSet DEF record_gap, goto, LedgerNumbers, tables_but_checkpoints
  <1>11. CASE recordCheckpoint(p)
    <2>1. Job([job[p] EXCEPT !.pc = "update"])
      BY ZenonT(30) DEF Job
    <2>2. CheckpointRow(Checkpoint(job[p].from, job[p].to, "verified", digestEvents(job[p].got)))
      BY ZenonT(30) DEF CheckpointRow, Checkpoint, Job
    <2>. QED
      BY <1>11, <2>1, <2>2, JobSet DEF recordCheckpoint, goto, LedgerNumbers, tables_but_checkpoints
  <1>12. CASE updateLastIndexedLedger(p)
    <2>1. last_finalized \in Nat /\ job[p].to \in Int
      BY ZenonT(30) DEF LedgerNumbers, Job
    <2>2. last_finalized' \in Nat
      BY <1>12, <2>1, MaxOfTwo DEF updateLastIndexedLedger
    <2>. QED
      BY <1>12, <2>2, JobSet, ZenonT(30) DEF updateLastIndexedLedger, LedgerNumbers
  <1>. QED
    BY <1>1, <1>2, <1>3, <1>4, <1>5, <1>6, <1>7, <1>8, <1>9, <1>10, <1>11, <1>12 DEF poll

\* The steps of a chunk, of any worker, move no ledger number.
LEMMA ChunkKeepsNumbers ==
    ASSUME LedgerNumbers, NEW w \in Workers, chunk(w)
    PROVE  LedgerNumbers'
  <1>. Job(job[w])
    BY ZenonT(30) DEF LedgerNumbers
  <1>1. CASE fetchEventsInRange(w)
    <2>1. PICK got, pc : set(w, [job[w] EXCEPT !.got = got, !.pc = pc])
      BY <1>1, ZenonT(30) DEF fetchEventsInRange
    <2>2. Job([job[w] EXCEPT !.got = got, !.pc = pc])
      BY ZenonT(30) DEF Job
    <2>. QED
      BY <1>1, <2>1, <2>2, JobSet DEF fetchEventsInRange, LedgerNumbers, store
  <1>2. CASE storeEvents(w)
    <2>1. PICK fresh, pc : set(w, [job[w] EXCEPT !.fresh = fresh, !.pc = pc])
      BY <1>2, ZenonT(30) DEF storeEvents
    <2>2. Job([job[w] EXCEPT !.fresh = fresh, !.pc = pc])
      BY ZenonT(30) DEF Job
    <2>. QED
      BY <1>2, <2>1, <2>2, JobSet, ZenonT(30) DEF storeEvents, LedgerNumbers
  <1>3. CASE announce(w)
    <2>1. Job([job[w] EXCEPT !.pc = "done"])
      BY ZenonT(30) DEF Job
    <2>. QED
      BY <1>3, <2>1, JobSet, ZenonT(30) DEF announce, goto, LedgerNumbers
  <1>. QED
    BY <1>1, <1>2, <1>3, ZenonT(30) DEF chunk

\* The operator's calls, failures and the network.
LEMMA WorldKeepsNumbers ==
    ASSUME LedgerNumbers,
           \/ \E p \in Pollers : start(p) \/ stop(p)
           \/ reindex_next \/ replayed
           \/ \E range \in Ranges : reindexLedgerRange(range[1], range[2])
           \/ \E e \in quarantine_events : reprocessQuarantinedEvents(e)
           \/ \E w \in Workers : abandoned(w)
           \/ ledger_closes \/ reorganised \/ decoder_release
    PROVE  LedgerNumbers'
  <1>. "ops" \in Workers /\ Job(job["ops"]) /\ Job(Idle)
    BY IdleJob, ZenonT(30) DEF Workers, LedgerNumbers
  <1>1. CASE (\E p \in Pollers : start(p) \/ stop(p)) \/ decoder_release
    BY <1>1, ZenonT(30) DEF start, stop, decoder_release, LedgerNumbers, store
  <1>2. CASE reindex_next
    <2>. DEFINE from == job["ops"].to + 1
                last == job["ops"].cursor
    <2>1. from \in Int /\ last \in Int
      BY DEF Job
    <2>2. chunk_end(from, last) \in Int
      BY <2>1, ChunkEnd, ZenonT(30)
    <2>3. Job([job["ops"] EXCEPT !.pc = "fetch", !.got = <<>>, !.from = from, !.to = chunk_end(from, last)])
      BY <2>1, <2>2, ZenonT(30) DEF Job
    <2>4. DOMAIN job' = Workers /\ \A v \in Workers : Job(job'[v])
      BY <1>2, <2>3, JobSet, ZenonT(30) DEF reindex_next
    <2>. QED
      BY <1>2, <2>4, ZenonT(30) DEF reindex_next, LedgerNumbers, store
  <1>3. CASE replayed
    BY <1>3, JobSet, ZenonT(30) DEF replayed, LedgerNumbers
  <1>4. CASE \E range \in Ranges : reindexLedgerRange(range[1], range[2])
    <2>1. PICK range \in Ranges : reindexLedgerRange(range[1], range[2])
      BY <1>4, ZenonT(30)
    <2>2. range[1] \in Int /\ range[2] \in Int
      BY ChainAssumption, ZenonT(30)
    <2>3. chunk_end(range[1], range[2]) \in Int
      BY <2>2, ChunkEnd, ZenonT(30)
    <2>4. Job([Idle EXCEPT !.pc = "fetch", !.goal = "reindex", !.from = range[1], !.cursor = range[2],
                           !.to = chunk_end(range[1], range[2])])
      BY <2>2, <2>3, ZenonT(30) DEF Job
    <2>5. DOMAIN job' = Workers /\ \A v \in Workers : Job(job'[v])
      BY <2>1, <2>4, JobSet, ZenonT(30) DEF reindexLedgerRange
    <2>. QED
      BY <2>1, <2>5, ZenonT(30) DEF reindexLedgerRange, LedgerNumbers, store
  <1>5. CASE \E e \in quarantine_events : reprocessQuarantinedEvents(e)
    <2>1. PICK e \in quarantine_events : reprocessQuarantinedEvents(e)
      BY <1>5, ZenonT(30)
    <2>2. Job([Idle EXCEPT !.pc = "store", !.goal = "replay", !.got = <<e>>])
      BY ZenonT(30) DEF Job
    <2>. QED
      BY <2>1, <2>2, JobSet, ZenonT(30) DEF reprocessQuarantinedEvents, LedgerNumbers, store
  <1>6. CASE \E w \in Workers : abandoned(w)
    BY <1>6, JobSet, ZenonT(30) DEF abandoned, LedgerNumbers, store
  <1>7. CASE ledger_closes
    <2>1. Len(chain) + 1 \in DOMAIN Blocks /\ chain \in Seq(Seq(DOMAIN Event))
      BY <1>7, ChainAssumption DEF ledger_closes, MAX_LEDGER, LedgerNumbers
    <2>2. Blocks[Len(chain) + 1] \subseteq Seq(DOMAIN Event)
      BY <2>1, ChainAssumption
    <2>3. chain' \in Seq(Seq(DOMAIN Event)) /\ Len(chain') <= MAX_LEDGER
      BY <1>7, <2>1, <2>2, ChainAssumption DEF ledger_closes, MAX_LEDGER
    <2>. QED
      BY <1>7, <2>3, ZenonT(30) DEF ledger_closes, LedgerNumbers, store
  <1>8. CASE reorganised
    <2>1. PICK l \in 1..Len(chain) : \E b \in Blocks[l] \ {chain[l]} : chain' = [chain EXCEPT ![l] = b]
      BY <1>8, ZenonT(30) DEF reorganised
    <2>2. l \in DOMAIN Blocks /\ chain \in Seq(Seq(DOMAIN Event))
      BY ChainAssumption DEF MAX_LEDGER, LedgerNumbers
    <2>3. Blocks[l] \subseteq Seq(DOMAIN Event)
      BY <2>2, ChainAssumption
    <2>4. chain' \in Seq(Seq(DOMAIN Event)) /\ Len(chain') = Len(chain)
      BY <2>1, <2>2, <2>3
    <2>. QED
      BY <1>8, <2>4, ZenonT(30) DEF reorganised, LedgerNumbers, store
  <1>. QED
    BY <1>1, <1>2, <1>3, <1>4, <1>5, <1>6, <1>7, <1>8

\* Every step keeps the numbers of the tables and of the jobs.
LEMMA NumbersKept == LedgerNumbers /\ [Next]_vars => LedgerNumbers'
  <1>. SUFFICES ASSUME LedgerNumbers, [Next]_vars PROVE LedgerNumbers'
    OBVIOUS
  <1>. "ops" \in Workers /\ Pollers \subseteq Workers
    BY ZenonT(30) DEF Workers
  <1>1. CASE \E w \in Workers : chunk(w)
    BY <1>1, ChunkKeepsNumbers, ZenonT(30)
  <1>2. CASE \E p \in Pollers : poll(p) /\ ~chunk(p)
    BY <1>2, PollKeepsNumbers, ZenonT(30)
  <1>3. CASE UNCHANGED vars
    BY <1>3, ZenonT(30) DEF vars, store, LedgerNumbers
  <1>. QED
    BY <1>1, <1>2, <1>3, WorldKeepsNumbers DEF Next

-----------------------------------------------------------------------------
(* Step by step, the tables are a feed.                                       *)

\* An initial state of the indexer is an initial state of the feed.
LEMMA FeedInitially == LedgerNumbers => Feed!FeedInit
  BY ChainAssumption, ZenonT(30) DEF LedgerNumbers, Feed!FeedInit, Ledger

\* Whatever leaves the cursor and the rows alone is invisible to a reader.
LEMMA Invisible ==
    ASSUME last_finalized' = last_finalized, contract_events' = contract_events
    PROVE  UNCHANGED Feed!feed
  BY ZenonT(30) DEF Feed!feed

\* storeEvents adds rows under a cursor that stands still.
LEMMA StoreRepairs ==
    ASSUME LedgerNumbers, NEW w \in Workers, storeEvents(w)
    PROVE  Feed!Repair
  <1>1. last_finalized' = last_finalized /\ contract_events \subseteq contract_events'
    BY ZenonT(30) DEF storeEvents
  <1>. QED
    BY <1>1, ZenonT(30) DEF Feed!Repair

\* updateLastIndexedLedger makes the rows of the ledgers it passes visible.
LEMMA UpdatePublishes ==
    ASSUME LedgerNumbers, NEW p \in Pollers, updateLastIndexedLedger(p)
    PROVE  Feed!Publish \/ UNCHANGED Feed!feed
  <1>1. last_finalized \in Nat /\ job[p].to \in Int
    BY ZenonT(30) DEF LedgerNumbers, Job, Workers
  <1>2. /\ last_finalized' = IF last_finalized >= job[p].to THEN last_finalized ELSE job[p].to
        /\ contract_events' = contract_events
    BY <1>1, MaxOfTwo DEF updateLastIndexedLedger
  <1>3. CASE last_finalized >= job[p].to
    BY <1>2, <1>3, Invisible, ZenonT(30)
  <1>4. CASE ~(last_finalized >= job[p].to)
    <2>1. last_finalized' > last_finalized /\ last_finalized' \in Int
      BY <1>1, <1>2, <1>4
    <2>2. \A e \in DOMAIN Event : Ledger(e) \in Nat
      BY ChainAssumption, ZenonT(30) DEF Ledger
    <2>. QED
      BY <1>1, <1>2, <2>1, <2>2 DEF Feed!Publish
  <1>. QED
    BY <1>3, <1>4, ZenonT(30)

\* rollbackFromLedger cuts the cursor and the rows at the same ledger.
LEMMA RollbackRetracts ==
    ASSUME LedgerNumbers, NEW p \in Pollers, rollbackFromLedger(p)
    PROVE  Feed!Retract \/ UNCHANGED Feed!feed
  <1>. DEFINE ledger == job[p].from
  <1>1. last_finalized \in Nat /\ ledger \in Int
    BY ZenonT(30) DEF LedgerNumbers, Job, Workers
  <1>2. /\ last_finalized' = rolled_back_cursor(ledger)
        /\ contract_events' = contract_events \ {e \in contract_events : Ledger(e) >= ledger}
    BY ZenonT(30) DEF rollbackFromLedger
  <1>. HIDE DEF ledger
  <1>3. \A e \in DOMAIN Event : Ledger(e) \in Nat /\ Ledger(e) >= 1
    BY ChainAssumption DEF Ledger
  <1>4. /\ last_finalized' \in Nat /\ last_finalized' <= last_finalized
        /\ last_finalized' < last_finalized => last_finalized' = IF ledger >= 1 THEN ledger - 1 ELSE 0
        /\ last_finalized' = last_finalized => last_finalized < ledger \/ last_finalized = 0
    BY <1>1, <1>2, RolledBackCursor, ZenonT(30)
  <1>5. CASE last_finalized' < last_finalized
    <2>1. \A e \in DOMAIN Event : e \in contract_events /\ Ledger(e) <= last_finalized' => e \in contract_events'
      BY <1>1, <1>2, <1>3, <1>4, <1>5
    <2>2. \A e \in DOMAIN Event : Ledger(e) <= last_finalized' => Ledger(e) <= last_finalized
      BY <1>1, <1>3, <1>4
    <2>3. contract_events' \subseteq contract_events
      BY <1>2, ZenonT(30)
    <2>. QED
      BY <1>5, <2>1, <2>2, <2>3, ZenonT(30) DEF Feed!Retract
  <1>6. CASE last_finalized' = last_finalized
    <2>1. \A e \in DOMAIN Event : e \in contract_events /\ Ledger(e) <= last_finalized => e \in contract_events'
      BY <1>1, <1>2, <1>3, <1>4, <1>6
    <2>2. contract_events' \subseteq contract_events
      BY <1>2, ZenonT(30)
    <2>. QED
      BY <1>6, <2>1, <2>2, ZenonT(30) DEF Feed!feed
  <1>. QED
    BY <1>1, <1>4, <1>5, <1>6

\* A step of the indexer is a step of the feed or changes nothing the feed shows.
LEMMA FeedStep == LedgerNumbers /\ [Next]_vars => [Feed!FeedNext]_(Feed!feed)
  <1>. SUFFICES ASSUME LedgerNumbers, [Next]_vars PROVE Feed!FeedNext \/ UNCHANGED Feed!feed
    OBVIOUS
  <1>. "ops" \in Workers /\ Pollers \subseteq Workers
    BY ZenonT(30) DEF Workers
  <1>1. CASE \E w \in Workers : storeEvents(w)
    BY <1>1, StoreRepairs, ZenonT(30) DEF Feed!FeedNext
  <1>2. CASE \E p \in Pollers : updateLastIndexedLedger(p)
    BY <1>2, UpdatePublishes, ZenonT(30) DEF Feed!FeedNext
  <1>3. CASE \E p \in Pollers : rollbackFromLedger(p)
    BY <1>3, RollbackRetracts, ZenonT(30) DEF Feed!FeedNext
  <1>4. CASE \E p \in Pollers :
                \/ poll_begin(p) \/ detect_begin(p) \/ detectAndRollbackReorg(p) \/ read_cursor(p)
                \/ next_range(p) \/ backfilled(p) \/ backfilled_part(p)
                \/ record_previous(p) \/ record_gap(p) \/ recordCheckpoint(p)
    <2>. last_finalized' = last_finalized /\ contract_events' = contract_events
      BY <1>4, ZenonT(30) DEF poll_begin, detect_begin, detectAndRollbackReorg, read_cursor, next_range, backfilled,
           backfilled_part, record_previous, record_gap, recordCheckpoint, store, tables_but_checkpoints
    <2>. QED
      BY Invisible, ZenonT(30)
  <1>5. CASE \E w \in Workers : fetchEventsInRange(w) \/ announce(w) \/ abandoned(w)
    <2>. last_finalized' = last_finalized /\ contract_events' = contract_events
      BY <1>5, ZenonT(30) DEF fetchEventsInRange, announce, abandoned, store
    <2>. QED
      BY Invisible, ZenonT(30)
  <1>6. CASE \/ \E p \in Pollers : start(p) \/ stop(p)
             \/ reindex_next \/ replayed
             \/ \E range \in Ranges : reindexLedgerRange(range[1], range[2])
             \/ \E e \in quarantine_events : reprocessQuarantinedEvents(e)
             \/ ledger_closes \/ reorganised \/ decoder_release \/ UNCHANGED vars
    <2>. last_finalized' = last_finalized /\ contract_events' = contract_events
      BY <1>6, ZenonT(30) DEF start, stop, reindex_next, replayed, reindexLedgerRange, reprocessQuarantinedEvents,
           ledger_closes, reorganised, decoder_release, vars, store
    <2>. QED
      BY Invisible, ZenonT(30)
  <1>. QED
    BY <1>1, <1>2, <1>3, <1>4, <1>5, <1>6 DEF Next, poll, chunk

\* Readers of contract_events below last_finalized_ledger see a feed that is
\* published range by range and cut back only together with its position,
\* whatever the pollers, the operator, the faults and the reorgs do.
THEOREM IndexerImplementsFeed == Spec => FeedSpec
  <1>1. Init => LedgerNumbers /\ Feed!FeedInit
    BY NumbersInitially, FeedInitially, ZenonT(30)
  <1>2. LedgerNumbers /\ [Next]_vars => LedgerNumbers' /\ [Feed!FeedNext]_(Feed!feed)
    BY NumbersKept, FeedStep, ZenonT(30)
  <1>. QED
    BY <1>1, <1>2, PTL DEF Spec, FeedSpec, Feed!FeedSpec

-----------------------------------------------------------------------------
(* The event streams: who listens, and what a borrower is sent.               *)

\* The streams OwnEventsOnly is about: not an admin's, and the borrower parameter
\* an address or left out.
Borrowers(c) == ~StreamOf[c].admin /\ StreamOf[c].asks # ""

\* The rows of a replay and of what was sent.
Rows == Seq(Nat)

\* What is kept of a stream.
StreamStates == [pc : {"none", "querying", "replaying", "open"}, gone : BOOLEAN, replay : Rows, got : Rows]

\* The rows are events about the stream's own user.
OwnRows(c, rows) == \A k \in 1..Len(rows) : AddressOf[rows[k]] = StreamOf[c].user

\* The inductive invariant of OwnEventsOnly: also the rows still to be replayed
\* are the user's own, and only an admitted stream is past its start or listens.
StreamInv ==
    /\ stored \in Nat
    /\ stream \in [Streams -> StreamStates]
    /\ channel \in [Instances -> Seq(Nat)]
    /\ \A c \in Streams : stream[c].pc # "none" => may_stream(c)
    /\ listening \subseteq {c \in Streams : stream[c].pc = "open"}
    /\ \A c \in Streams : Borrowers(c) => OwnRows(c, stream[c].got) /\ OwnRows(c, stream[c].replay)

\* The fields of a stream, and an update of each.
LEMMA StreamFields ==
    ASSUME NEW r \in StreamStates
    PROVE  /\ r.pc \in {"none", "querying", "replaying", "open"} /\ r.replay \in Rows /\ r.got \in Rows
           /\ \A p \in {"none", "querying", "replaying", "open"} :
                 LET q == [r EXCEPT !.pc = p]
                 IN  q \in StreamStates /\ q.pc = p /\ q.replay = r.replay /\ q.got = r.got /\ q.gone = r.gone
           /\ \A b \in BOOLEAN :
                 LET q == [r EXCEPT !.gone = b]
                 IN  q \in StreamStates /\ q.pc = r.pc /\ q.replay = r.replay /\ q.got = r.got
           /\ \A w \in Rows :
                 LET q == [r EXCEPT !.replay = w]
                 IN  q \in StreamStates /\ q.pc = r.pc /\ q.replay = w /\ q.got = r.got /\ q.gone = r.gone
           /\ \A w \in Rows :
                 LET q == [r EXCEPT !.got = w]
                 IN  q \in StreamStates /\ q.pc = r.pc /\ q.replay = r.replay /\ q.got = w /\ q.gone = r.gone
  BY DEF StreamStates

\* What an admitted stream of a borrower wants is about that borrower.
LEMMA WantsOwn ==
    ASSUME NEW c \in Streams, NEW e, may_stream(c), Borrowers(c), wants(c, e)
    PROVE  AddressOf[e] = StreamOf[c].user
  <1>1. StreamOf[c].user \notin {"all", "none", ""}
    BY StreamConstants, ZenonT(30)
  <1>2. borrower(c) = StreamOf[c].user
    BY <1>1, ZenonT(30) DEF borrower, may_stream, Borrowers
  <1>. QED
    BY <1>1, <1>2, ZenonT(30) DEF wants

\* One more event of the user's own.
LEMMA OwnAppended ==
    ASSUME NEW c, NEW rows \in Rows, NEW e \in Nat, OwnRows(c, rows), AddressOf[e] = StreamOf[c].user
    PROVE  OwnRows(c, Append(rows, e))
  BY DEF OwnRows, Rows

\* The replay written behind what was sent.
LEMMA OwnJoined ==
    ASSUME NEW c, NEW rows \in Rows, NEW more \in Rows, OwnRows(c, rows), OwnRows(c, more)
    PROVE  rows \o more \in Rows /\ OwnRows(c, rows \o more)
  <1>1. rows \o more \in Seq(Nat) /\ Len(rows \o more) = Len(rows) + Len(more) /\ Len(rows) \in Nat /\ Len(more) \in Nat
    BY DEF Rows
  <1>2. ASSUME NEW k \in 1..Len(rows \o more)
        PROVE  AddressOf[(rows \o more)[k]] = StreamOf[c].user
    <2>1. CASE k <= Len(rows)
      <3>1. (rows \o more)[k] = rows[k] /\ k \in 1..Len(rows)
        BY <1>1, <1>2, <2>1 DEF Rows
      <3>. QED
        BY <3>1, ZenonT(30) DEF OwnRows
    <2>2. CASE ~(k <= Len(rows))
      <3>1. (rows \o more)[k] = more[k - Len(rows)] /\ k - Len(rows) \in 1..Len(more)
        BY <1>1, <1>2, <2>2 DEF Rows
      <3>. QED
        BY <3>1, ZenonT(30) DEF OwnRows
    <2>. QED
      BY <2>1, <2>2, ZenonT(30)
  <1>. QED
    BY <1>1, <1>2, ZenonT(30) DEF OwnRows, Rows

\* A step of one client, its stream's new state given.
LEMMA ClientStep ==
    ASSUME StreamInv, NEW c \in Streams, NEW r \in StreamStates, stream' = [stream EXCEPT ![c] = r],
           UNCHANGED <<stored, channel>>, listening' \subseteq listening \cup {c},
           may_stream(c), c \in listening' => r.pc = "open",
           Borrowers(c) => OwnRows(c, r.got) /\ OwnRows(c, r.replay)
    PROVE  StreamInv'
  <1>1. stream' \in [Streams -> StreamStates]
    BY DEF StreamInv
  <1>2. \A d \in Streams : stream'[d] = IF d = c THEN r ELSE stream[d]
    BY DEF StreamInv
  <1>3. \A d \in Streams : stream'[d].pc # "none" => may_stream(d)
    BY <1>2, ZenonT(30) DEF StreamInv
  <1>4. listening' \subseteq {d \in Streams : stream'[d].pc = "open"}
    BY <1>2, ZenonT(30) DEF StreamInv
  <1>5. \A d \in Streams : Borrowers(d) => OwnRows(d, stream'[d].got) /\ OwnRows(d, stream'[d].replay)
    BY <1>2, ZenonT(30) DEF StreamInv
  <1>6. stored' \in Nat /\ channel' \in [Instances -> Seq(Nat)]
    BY DEF StreamInv
  <1>. QED
    BY <1>1, <1>3, <1>4, <1>5, <1>6, ZenonT(30) DEF StreamInv, OwnRows, Borrowers, may_stream

\* A broadcast keeps the invariant.
LEMMA BroadcastKeeps ==
    ASSUME StreamInv, NEW i \in Instances, NEW e \in Nat, broadcast(i, e),
           stored' \in Nat, channel' \in [Instances -> Seq(Nat)]
    PROVE  StreamInv'
  <1>1. PICK failed \in SUBSET {c \in listening \cap here(i) : stream[c].gone /\ wants(c, e)} :
          /\ listening' = listening \ failed
          /\ stream' = [c \in Streams |->
                IF c \in listening \cap here(i) /\ wants(c, e) /\ ~stream[c].gone
                THEN [stream[c] EXCEPT !.got = Append(@, e)] ELSE stream[c]]
    BY ZenonT(30) DEF broadcast
  <1>2. ASSUME NEW c \in Streams
        PROVE  /\ stream'[c] \in StreamStates
               /\ stream'[c].pc = stream[c].pc /\ stream'[c].replay = stream[c].replay
               /\ \/ stream'[c].got = stream[c].got
                  \/ c \in listening /\ wants(c, e) /\ stream'[c].got = Append(stream[c].got, e)
    <2>1. stream[c] \in StreamStates
      BY ZenonT(30) DEF StreamInv
    <2>2. stream[c].got \in Rows /\ Append(stream[c].got, e) \in Rows
      <3>1. stream[c].got \in Rows
        BY <2>1, StreamFields, ZenonT(30)
      <3>. QED
        BY <3>1 DEF Rows
    <2>3. \/ stream'[c] = stream[c]
          \/ c \in listening /\ wants(c, e) /\ stream'[c] = [stream[c] EXCEPT !.got = Append(stream[c].got, e)]
      BY <1>1, ZenonT(30)
    <2>. QED
      BY <2>1, <2>2, <2>3, ZenonT(30) DEF StreamStates
  <1>3. stream' = [c \in Streams |-> stream'[c]]
    BY <1>1
  <1>4. stream' \in [Streams -> StreamStates]
    BY <1>2, <1>3, ZenonT(30)
  <1>5. ASSUME NEW c \in Streams, Borrowers(c)
        PROVE  OwnRows(c, stream'[c].got) /\ OwnRows(c, stream'[c].replay)
    <2>1. OwnRows(c, stream[c].got) /\ OwnRows(c, stream[c].replay) /\ stream[c].got \in Rows
      <3>1. stream[c] \in StreamStates
        BY ZenonT(30) DEF StreamInv
      <3>2. stream[c].got \in Rows
        BY <3>1, StreamFields, ZenonT(30)
      <3>. QED
        BY <1>5, <3>2, ZenonT(30) DEF StreamInv
    <2>2. CASE stream'[c].got = stream[c].got
      BY <1>2, <2>1, <2>2, ZenonT(30)
    <2>3. CASE c \in listening /\ wants(c, e) /\ stream'[c].got = Append(stream[c].got, e)
      <3>1. may_stream(c)
        BY <2>3, ZenonT(30) DEF StreamInv
      <3>. QED
        BY <1>2, <1>5, <2>1, <2>3, <3>1, WantsOwn, OwnAppended, ZenonT(30)
    <2>. QED
      BY <1>2, <2>2, <2>3, ZenonT(30)
  <1>6. \A c \in Streams : stream'[c].pc # "none" => may_stream(c)
    BY <1>2, ZenonT(30) DEF StreamInv
  <1>7. listening' \subseteq {c \in Streams : stream'[c].pc = "open"}
    BY <1>1, <1>2 DEF StreamInv
  <1>. QED
    BY <1>4, <1>5, <1>6, <1>7, ZenonT(30) DEF StreamInv, OwnRows, Borrowers, may_stream

\* What the query returns is a sequence of the events it selected.
LEMMA QueriedRows ==
    ASSUME NEW c \in Streams, NEW last \in 0..stored, stored \in Nat,
           NEW n \in {0, Min({REPLAY_LIMIT, Cardinality({e \in last+1..stored : wants(c, e)})})},
           NEW rows \in oldest_first({e \in last+1..stored : wants(c, e)}, n)
    PROVE  rows \in Rows /\ \A k \in 1..Len(rows) : wants(c, rows[k])
  <1>. DEFINE mine == {e \in last+1..stored : wants(c, e)}
  <1>1. IsFiniteSet(mine) /\ Cardinality(mine) \in Nat
    <2>1. IsFiniteSet(last+1..stored)
      BY FS_Interval
    <2>2. IsFiniteSet(mine)
      BY <2>1, FS_Subset, ZenonT(30)
    <2>. QED
      BY <2>2, FS_CardinalityType, ZenonT(30)
  <1>2. n \in Nat
    <2>1. REPLAY_LIMIT \in Nat
      BY StreamConstants, ZenonT(30)
    <2>. QED
      BY <1>1, <2>1, MinOfTwo
  <1>3. rows \in [1..n -> mine]
    BY ZenonT(30) DEF oldest_first
  <1>4. mine \subseteq Nat /\ \A e \in mine : wants(c, e)
    OBVIOUS
  <1>. QED
    BY <1>2, <1>3, <1>4 DEF Rows

\* Every step keeps the invariant.
LEMMA StreamInvKept == StreamInv /\ [StreamNext]_stream_vars => StreamInv'
  <1>. SUFFICES ASSUME StreamInv, [StreamNext]_stream_vars
                PROVE  StreamInv'
    OBVIOUS
  <1>0. ASSUME NEW c \in Streams
        PROVE  /\ stream[c] \in StreamStates
               /\ stream[c].pc # "none" => may_stream(c)
               /\ Borrowers(c) => OwnRows(c, stream[c].got) /\ OwnRows(c, stream[c].replay)
               /\ c \in listening => stream[c].pc = "open"
    BY ZenonT(30) DEF StreamInv
  <1>1. ASSUME NEW c \in Streams, stream_opens(c)
        PROVE  StreamInv'
    <2>. DEFINE r == [stream[c] EXCEPT !.pc = "querying"]
    <2>1. /\ stream[c].pc = "none" /\ may_stream(c) /\ stream' = [stream EXCEPT ![c] = r]
          /\ UNCHANGED <<stored, channel, listening>>
      BY <1>1, ZenonT(30) DEF stream_opens
    <2>2. r \in StreamStates /\ r.replay = stream[c].replay /\ r.got = stream[c].got
      BY <1>0, StreamFields, ZenonT(30)
    <2>3. c \notin listening'
      BY <1>0, <2>1
    <2>. QED
      BY <1>0, <2>1, <2>2, <2>3, ClientStep, ZenonT(30)
  <1>2. ASSUME NEW c \in Streams, replay_query(c)
        PROVE  StreamInv'
    <2>1. PICK last \in 0..stored :
            \E n \in {0, Min({REPLAY_LIMIT, Cardinality({e \in last+1..stored : wants(c, e)})})} :
              \E rows \in oldest_first({e \in last+1..stored : wants(c, e)}, n) :
                 stream' = [stream EXCEPT ![c].pc = "replaying", ![c].replay = rows]
      BY <1>2, ZenonT(30) DEF replay_query
    <2>2. PICK n \in {0, Min({REPLAY_LIMIT, Cardinality({e \in last+1..stored : wants(c, e)})})} :
            \E rows \in oldest_first({e \in last+1..stored : wants(c, e)}, n) :
               stream' = [stream EXCEPT ![c].pc = "replaying", ![c].replay = rows]
      BY <2>1, ZenonT(30)
    <2>3. PICK rows \in oldest_first({e \in last+1..stored : wants(c, e)}, n) :
            stream' = [stream EXCEPT ![c].pc = "replaying", ![c].replay = rows]
      BY <2>2, ZenonT(30)
    <2>4. rows \in Rows /\ \A k \in 1..Len(rows) : wants(c, rows[k])
      BY QueriedRows, ZenonT(30) DEF StreamInv
    <2>5. stream[c].pc = "querying" /\ UNCHANGED <<stored, channel, listening>>
      BY <1>2, ZenonT(30) DEF replay_query
    <2>6. may_stream(c) /\ c \notin listening'
      BY <1>0, <2>5
    <2>7. Borrowers(c) => OwnRows(c, rows)
      BY <2>4, <2>6, WantsOwn, ZenonT(30) DEF OwnRows
    <2>. DEFINE q == [stream[c] EXCEPT !.pc = "replaying"]
                r == [q EXCEPT !.replay = rows]
    <2>8. q \in StreamStates /\ q.got = stream[c].got
      BY <1>0, StreamFields, ZenonT(30)
    <2>9. stream' = [stream EXCEPT ![c] = r]
      BY <2>3, ZenonT(30)
    <2>. HIDE DEF q
    <2>10. r \in StreamStates /\ r.replay = rows /\ r.got = q.got
      BY <2>4, <2>8 DEF StreamStates
    <2>. HIDE DEF r
    <2>. QED
      BY <1>0, <2>5, <2>6, <2>7, <2>8, <2>9, <2>10, ClientStep, ZenonT(30)
  <1>3. ASSUME NEW c \in Streams, streamEvents(c)
        PROVE  StreamInv'
    <2>. DEFINE w == IF stream[c].gone THEN stream[c].got ELSE stream[c].got \o stream[c].replay
                q == [stream[c] EXCEPT !.pc = "open"]
                r == [q EXCEPT !.got = w]
                t == [r EXCEPT !.replay = <<>>]
    <2>1. stream[c].pc = "replaying" /\ listening' = listening \cup {c} /\ UNCHANGED <<stored, channel>>
      BY <1>3, ZenonT(30) DEF streamEvents
    <2>2. stream[c].got \in Rows /\ stream[c].replay \in Rows
      BY <1>0, StreamFields, ZenonT(30)
    <2>3. stream[c].got \o stream[c].replay \in Rows /\ <<>> \in Rows /\ OwnRows(c, <<>>)
      BY <2>2 DEF Rows, OwnRows
    <2>4. w \in Rows /\ (Borrowers(c) => OwnRows(c, w))
      BY <1>0, <2>2, <2>3, OwnJoined, ZenonT(30)
    <2>5. stream' = [stream EXCEPT ![c] = t]
      BY <1>0, <1>3, ZenonT(30) DEF streamEvents, StreamStates
    <2>. HIDE DEF w
    <2>6. q \in StreamStates /\ q.pc = "open"
      BY <1>0, StreamFields, ZenonT(30)
    <2>. HIDE DEF q
    <2>7. r \in StreamStates /\ r.pc = "open" /\ r.got = w
      BY <2>4, <2>6 DEF StreamStates
    <2>. HIDE DEF r
    <2>8. t \in StreamStates /\ t.pc = "open" /\ t.got = w /\ t.replay = <<>>
      BY <2>3, <2>7 DEF StreamStates
    <2>. HIDE DEF t
    <2>9. may_stream(c)
      BY <1>0, <2>1
    <2>. QED
      BY <2>1, <2>3, <2>4, <2>5, <2>8, <2>9, ClientStep, ZenonT(30)
  <1>4. ASSUME NEW c \in Streams, stream_closes(c)
        PROVE  StreamInv'
    <2>. DEFINE r == [stream[c] EXCEPT !.gone = TRUE]
    <2>1. /\ stream[c].pc # "none" /\ stream' = [stream EXCEPT ![c] = r]
          /\ UNCHANGED <<stored, channel>> /\ listening' \subseteq listening
      BY <1>4, ZenonT(30) DEF stream_closes
    <2>2. r \in StreamStates /\ r.pc = stream[c].pc /\ r.replay = stream[c].replay /\ r.got = stream[c].got
      BY <1>0, StreamFields, ZenonT(30)
    <2>. QED
      BY <1>0, <2>1, <2>2, ClientStep, ZenonT(30)
  <1>5. ASSUME NEW i \in Instances, event_indexed(i) \/ event_indexed_alone(i)
        PROVE  StreamInv'
    <2>1. broadcast(i, stored + 1) /\ stored + 1 \in Nat /\ stored' \in Nat
      BY <1>5 DEF StreamInv, event_indexed, event_indexed_alone
    <2>2. channel' \in [Instances -> Seq(Nat)]
      <3>1. channel \in [Instances -> Seq(Nat)]
        BY ZenonT(30) DEF StreamInv
      <3>2. channel' = channel \/ channel' = [j \in Instances |-> Append(channel[j], stored + 1)]
        BY <1>5, ZenonT(30) DEF event_indexed, event_indexed_alone
      <3>3. \A j \in Instances : Append(channel[j], stored + 1) \in Seq(Nat)
        BY <2>1, <3>1
      <3>. QED
        BY <3>1, <3>2, <3>3, ZenonT(30)
    <2>. QED
      BY <2>1, <2>2, BroadcastKeeps, ZenonT(30)
  <1>6. ASSUME NEW i \in Instances, initSubscriber(i)
        PROVE  StreamInv'
    <2>1. channel[i] \in Seq(Nat) /\ channel[i] # <<>> /\ broadcast(i, Head(channel[i])) /\ stored' \in Nat
      BY <1>6 DEF StreamInv, initSubscriber
    <2>2. Head(channel[i]) \in Nat /\ Tail(channel[i]) \in Seq(Nat)
      BY <2>1
    <2>3. channel' \in [Instances -> Seq(Nat)]
      BY <1>6, <2>2 DEF StreamInv, initSubscriber
    <2>. QED
      BY <2>1, <2>2, <2>3, BroadcastKeeps, ZenonT(30)
  <1>7. ASSUME NEW i \in Instances, startHeartbeat(i) \/ closeAllConnections(i)
        PROVE  StreamInv'
    BY <1>7, ZenonT(30) DEF StreamInv, startHeartbeat, removeClient, closeAllConnections, OwnRows, Borrowers, may_stream
  <1>8. CASE UNCHANGED stream_vars
    BY <1>8, ZenonT(30) DEF StreamInv, stream_vars, OwnRows, Borrowers, may_stream
  <1>. QED
    BY <1>1, <1>2, <1>3, <1>4, <1>5, <1>6, <1>7, <1>8, ZenonT(30) DEF StreamNext

\* Whichever of the close handler, a failed write, the heartbeat and the shutdown
\* drops a client first, no listener is left uncounted or unwatched.
LEMMA ListenersKept == StreamInv /\ ListenersAccountedFor /\ [StreamNext]_stream_vars => ListenersAccountedFor'
  <1>. SUFFICES ASSUME StreamInv, ListenersAccountedFor, [StreamNext]_stream_vars
                PROVE  ListenersAccountedFor'
    OBVIOUS
  <1>1. ASSUME NEW c \in Streams, stream_opens(c) \/ replay_query(c)
        PROVE  ListenersAccountedFor'
    BY <1>1, ZenonT(30) DEF ListenersAccountedFor, stream_opens, replay_query
  <1>2. ASSUME NEW c \in Streams, streamEvents(c)
        PROVE  ListenersAccountedFor'
    BY <1>2 DEF ListenersAccountedFor, streamEvents
  <1>3. ASSUME NEW c \in Streams, stream_closes(c)
        PROVE  ListenersAccountedFor'
    <2>1. CASE stream[c].pc = "open"
      <3>1. /\ listening' = listening \ {c} /\ counted' = counted \ {c}
            /\ heartbeat' = beating(StreamOf[c].at, listening')
        BY <1>3, <2>1, ZenonT(30) DEF stream_closes
      <3>2. ASSUME NEW d \in listening'
            PROVE  StreamOf[d].at \in heartbeat'
        <4>1. StreamOf[d].at \in heartbeat /\ d \in Streams
          BY <3>1, ZenonT(30) DEF StreamInv, ListenersAccountedFor
        <4>2. StreamOf[d].at = StreamOf[c].at => here(StreamOf[c].at) \cap listening' # {}
          BY <3>2, <4>1, ZenonT(30) DEF here
        <4>. QED
          BY <3>1, <4>1, <4>2 DEF beating
      <3>. QED
        BY <3>1, <3>2 DEF ListenersAccountedFor
    <2>2. CASE stream[c].pc # "open"
      BY <1>3, <2>2, ZenonT(30) DEF ListenersAccountedFor, stream_closes
    <2>. QED
      BY <2>1, <2>2, ZenonT(30)
  <1>4. ASSUME NEW i \in Instances,
               event_indexed(i) \/ event_indexed_alone(i) \/ initSubscriber(i)
        PROVE  ListenersAccountedFor'
    BY <1>4 DEF ListenersAccountedFor, event_indexed, event_indexed_alone, initSubscriber, broadcast
  <1>5. ASSUME NEW i \in Instances, startHeartbeat(i) \/ closeAllConnections(i)
        PROVE  ListenersAccountedFor'
    <2>1. CASE startHeartbeat(i)
      BY <2>1 DEF ListenersAccountedFor, startHeartbeat, removeClient
    <2>2. CASE closeAllConnections(i)
      <3>1. listening' = listening \ here(i) /\ counted' = counted \ here(i) /\ heartbeat' = heartbeat \ {i}
        BY <2>2, ZenonT(30) DEF closeAllConnections
      <3>2. ASSUME NEW d \in listening'
            PROVE  StreamOf[d].at \in heartbeat'
        <4>1. StreamOf[d].at \in heartbeat /\ d \in Streams /\ d \notin here(i)
          BY <3>1, ZenonT(30) DEF StreamInv, ListenersAccountedFor
        <4>. QED
          BY <3>1, <4>1, ZenonT(30) DEF here
      <3>. QED
        BY <3>1, <3>2 DEF ListenersAccountedFor
    <2>. QED
      BY <1>5, <2>1, <2>2, ZenonT(30)
  <1>6. CASE UNCHANGED stream_vars
    BY <1>6, ZenonT(30) DEF ListenersAccountedFor, stream_vars
  <1>. QED
    BY <1>1, <1>2, <1>3, <1>4, <1>5, <1>6, ZenonT(30) DEF StreamNext

\* Whatever the instances, the clients and Redis do, in whatever order, for any
\* number of streams, events and instances: a listening client is counted and
\* watched by a heartbeat, and a borrower is sent nothing about another one
\* (streamEvents, removeClient, broadcast).
THEOREM StreamsStaySound == StreamInit /\ [][StreamNext]_stream_vars => []StreamsSound
  <1>1. StreamInit => StreamInv /\ ListenersAccountedFor
    <2>. SUFFICES ASSUME StreamInit PROVE StreamInv /\ ListenersAccountedFor
      OBVIOUS
    <2>1. <<>> \in Rows /\ Len(<<>>) = 0
      BY DEF Rows
    <2>2. \A c \in Streams : /\ stream[c] = [pc |-> "none", gone |-> FALSE, replay |-> <<>>, got |-> <<>>]
                            /\ stream[c] \in StreamStates
      BY <2>1 DEF StreamInit, StreamStates
    <2>3. stream \in [Streams -> StreamStates] /\ listening = {} /\ stored \in Nat
      BY <2>2 DEF StreamInit
    <2>4. channel \in [Instances -> Seq(Nat)]
      BY DEF StreamInit
    <2>5. \A c \in Streams : OwnRows(c, stream[c].got) /\ OwnRows(c, stream[c].replay) /\ stream[c].pc = "none"
      BY <2>2 DEF OwnRows
    <2>. QED
      BY <2>3, <2>4, <2>5, ZenonT(30) DEF StreamInv, ListenersAccountedFor
  <1>2. StreamInv => OwnEventsOnly
    <2>. SUFFICES ASSUME StreamInv, NEW c \in Streams, Borrowers(c), NEW e \in Range(stream[c].got)
                  PROVE  AddressOf[e] = StreamOf[c].user
      BY ZenonT(30) DEF OwnEventsOnly, Borrowers
    <2>1. OwnRows(c, stream[c].got) /\ stream[c] \in StreamStates
      BY ZenonT(30) DEF StreamInv
    <2>2. stream[c].got \in Rows
      BY <2>1, StreamFields, ZenonT(30)
    <2>3. DOMAIN stream[c].got = 1..Len(stream[c].got)
      BY <2>2 DEF Rows
    <2>4. PICK k \in DOMAIN stream[c].got : e = stream[c].got[k]
      BY DEF Range
    <2>. QED
      BY <2>1, <2>3, <2>4 DEF OwnRows
  <1>. QED
    BY <1>1, <1>2, StreamInvKept, ListenersKept, PTL DEF StreamsSound
=============================================================================
